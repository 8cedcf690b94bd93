----------------------------- MODULE Readiness -----------------------------
(***************************************************************************)
(* internal/server/readiness.go: the registry of checks, the draining flag *)
(* and the probes that /readyz serves concurrently on both listeners.      *)
(* Every probe clones the registry under its mutex, runs the checks in     *)
(* goroutines under one deadline, waits for all of them and answers.       *)
(***************************************************************************)
EXTENDS Naturals, Sequences, Functions

CONSTANTS
  Checks,        \* names of checks, as numbers so that they can be sorted
  Probes,        \* GET /readyz requests
  CheckTimeout,  \* Readiness.checkTimeout; 0 in a value built as a literal
  MaxFlips,      \* bound on the changes of the dependencies' state
  MaxChecks      \* bound on the length of the registry

ASSUME ChecksAssumption == Checks \subseteq Nat
ASSUME TimeoutAssumption == {CheckTimeout, MaxFlips, MaxChecks} \subseteq Nat

VARIABLES
  checks,    \* Readiness.checks: the registered names, in order
  refused,   \* AddCheck panicked on a duplicate name
  draining,  \* Readiness.draining
  dep,       \* per check, what its dependency makes it do
  flips,     \* changes of dep so far
  pc,        \* per probe: "new", "arrived", "clone", "running", "answered"
  before,    \* what held when the probe arrived (history): draining, checks
  snapshot,  \* the clone of checks it works on
  late,      \* its deadline passed, or its client went away
  outcome,   \* per slot, what the check did (history)
  result,    \* per slot of results: "pending", "nil" or "err"
  answer     \* the response: status and failing names

probeVars == <<pc, before, snapshot, late, outcome, result, answer>>
vars == <<checks, refused, draining, dep, flips, probeVars>>

Names(seq) == {seq[i] : i \in 1..Len(seq)}

NoAnswer == [status |-> "none", failing |-> <<>>]

Init ==
  /\ checks = <<>> /\ refused = FALSE
  /\ draining = FALSE
  /\ dep = [c \in Checks |-> "up"] /\ flips = 0
  /\ pc = [p \in Probes |-> "new"]
  /\ before = [p \in Probes |-> [draining |-> FALSE, checks |-> {}]]
  /\ snapshot = [p \in Probes |-> <<>>]
  /\ late = [p \in Probes |-> FALSE]
  /\ outcome = [p \in Probes |-> <<>>]
  /\ result = [p \in Probes |-> <<>>]
  /\ answer = [p \in Probes |-> NoAnswer]

-----------------------------------------------------------------------------
(* AddCheck: a duplicate name panics and leaves the registry as it was.    *)
Taken(c) == c \in Names(checks)

AddCheck(c) ==
  /\ ~refused /\ Len(checks) < MaxChecks
  /\ IF Taken(c) THEN refused' = TRUE /\ UNCHANGED checks
                 ELSE checks' = Append(checks, c) /\ UNCHANGED refused
  /\ UNCHANGED <<draining, dep, flips, probeVars>>

SetDraining ==
  /\ draining' = TRUE
  /\ UNCHANGED <<checks, refused, dep, flips, probeVars>>

(* A dependency goes down, comes back, hangs, or makes its check panic     *)
(* (external).                                                             *)
Flip(c, d) ==
  /\ flips < MaxFlips /\ dep[c] # d
  /\ dep' = [dep EXCEPT ![c] = d]
  /\ flips' = flips + 1
  /\ UNCHANGED <<checks, refused, draining, probeVars>>

-----------------------------------------------------------------------------
(* The handler.                                                            *)

Arrive(p) ==
  /\ pc[p] = "new"
  /\ pc' = [pc EXCEPT ![p] = "arrived"]
  /\ before' = [before EXCEPT ![p] = [draining |-> draining, checks |-> Names(checks)]]
  /\ UNCHANGED <<checks, refused, draining, dep, flips, snapshot, late, outcome,
                 result, answer>>

Respond(p, status, failing) ==
  /\ answer' = [answer EXCEPT ![p] = [status |-> status, failing |-> failing]]
  /\ pc' = [pc EXCEPT ![p] = "answered"]

(* Draining is read once, first.                                           *)
AnswerDraining(p) ==
  /\ pc[p] = "arrived" /\ draining
  /\ Respond(p, "draining", <<>>)
  /\ UNCHANGED <<checks, refused, draining, dep, flips, before, snapshot, late,
                 outcome, result>>

(* Faulty variant: draining is not consulted first. *)
ServingAssumed(p) ==
  /\ pc[p] = "arrived"
  /\ pc' = [pc EXCEPT ![p] = "clone"]
  /\ UNCHANGED <<checks, refused, draining, dep, flips, before, snapshot, late,
                 outcome, result, answer>>

Serving(p) ==
  /\ pc[p] = "arrived" /\ ~draining
  /\ pc' = [pc EXCEPT ![p] = "clone"]
  /\ UNCHANGED <<checks, refused, draining, dep, flips, before, snapshot, late,
                 outcome, result, answer>>

(* failing: clone the registry and start one goroutine per check.  An      *)
(* empty registry runs nothing and fails nothing.                          *)
ResultSlots(n) == 1..n

RunChecks(p) ==
  /\ pc[p] = "clone"
  /\ pc' = [pc EXCEPT ![p] = "running"]
  /\ snapshot' = [snapshot EXCEPT ![p] = checks]
  /\ outcome' = [outcome EXCEPT ![p] = [i \in ResultSlots(Len(checks)) |-> "none"]]
  /\ result' = [result EXCEPT ![p] = [i \in ResultSlots(Len(checks)) |-> "pending"]]
  /\ UNCHANGED <<checks, refused, draining, dep, flips, before, late, answer>>

Deadline(p) ==
  /\ pc[p] = "running" /\ ~late[p]
  /\ late' = [late EXCEPT ![p] = TRUE]
  /\ UNCHANGED <<checks, refused, draining, dep, flips, pc, before, snapshot,
                 outcome, result, answer>>

(* The timeout of the checks' context: a zero one takes the default.       *)
EffectiveTimeout == IF CheckTimeout = 0 THEN 1 ELSE CheckTimeout

Cancelled(p) == late[p] \/ EffectiveTimeout = 0

(* What a check that honours its context does; a hung one returns only     *)
(* once the context is cancelled, and any may notice that it is.           *)
(* Faulty variant: the checks are not given the probe's context. *)
OutcomesDetached(p, c) == IF dep[c] = "hung" THEN {} ELSE {dep[c]}

Outcomes(p, c) ==
  (IF dep[c] = "hung" THEN {} ELSE {dep[c]})
    \cup (IF Cancelled(p) THEN {"ctx"} ELSE {})

(* runCheck: a panic is an error too.                                      *)
(* Faulty variant: the panic is recovered and the error stays nil. *)
PanicSwallowed(o) == IF o \in {"up", "panic"} THEN "nil" ELSE "err"

RunCheck(o) == IF o = "up" THEN "nil" ELSE "err"

CheckReturns(p, i) ==
  /\ pc[p] = "running" /\ i \in 1..Len(result[p]) /\ result[p][i] = "pending"
  /\ \E o \in Outcomes(p, snapshot[p][i]) :
       /\ outcome' = [outcome EXCEPT ![p][i] = o]
       /\ result' = [result EXCEPT ![p][i] = RunCheck(o)]
  /\ UNCHANGED <<checks, refused, draining, dep, flips, pc, before, snapshot,
                 late, answer>>

(* wg.Wait, then the names of the failed checks, slot by slot, sorted.     *)
Finished(p) == \A i \in 1..Len(result[p]) : result[p][i] # "pending"

Collected(names, results) ==
  LET upTo[i \in 0..Len(results)] ==
        IF i = 0 THEN <<>>
        ELSE IF results[i] = "err" THEN Append(upTo[i - 1], names[i])
        ELSE upTo[i - 1]
  IN  upTo[Len(results)]

(* slices.Sort (external).                                                 *)
Sorts(f, s) == \A i, j \in 1..Len(s) : i < j => s[f[i]] <= s[f[j]]

Sort(s) ==
  LET order == CHOOSE f \in Bijection(1..Len(s), 1..Len(s)) : Sorts(f, s)
  IN  [i \in 1..Len(s) |-> s[order[i]]]

Failing(p) == Sort(Collected(snapshot[p], result[p]))

AnswerChecks(p) ==
  /\ pc[p] = "running" /\ Finished(p)
  /\ IF Failing(p) # <<>> THEN Respond(p, "not_ready", Failing(p))
                          ELSE Respond(p, "ready", <<>>)
  /\ UNCHANGED <<checks, refused, draining, dep, flips, before, snapshot, late,
                 outcome, result>>

-----------------------------------------------------------------------------
HandlerStep(p) ==
  AnswerDraining(p) \/ Serving(p) \/ RunChecks(p) \/ AnswerChecks(p)

CheckStep(p) == \E i \in 1..MaxChecks : CheckReturns(p, i)

Next ==
  \/ \E c \in Checks : AddCheck(c)
  \/ SetDraining
  \/ \E c \in Checks, d \in {"up", "down", "hung", "panic"} : Flip(c, d)
  \/ \E p \in Probes : Arrive(p) \/ HandlerStep(p) \/ CheckStep(p) \/ Deadline(p)

Spec == Init /\ [][Next]_vars

(* Handlers run, the deadline passes, and a check returns once it can:     *)
(* at the latest when its context is cancelled, which the contract of      *)
(* Check demands.                                                          *)
FairSpec ==
  Spec /\ \A p \in Probes :
            WF_vars(HandlerStep(p)) /\ WF_vars(CheckStep(p)) /\ WF_vars(Deadline(p))

-----------------------------------------------------------------------------
(* Properties.                                                             *)

Passed(p, i) == outcome[p][i] = "up"

(* A probe that was not answered "draining" tells exactly how the checks    *)
(* fared that were registered when it arrived: it names those that did not  *)
(* pass in this very probe, each once and in order, and says "ready" only   *)
(* if there is none.  No result is lost to another's or to a concurrent     *)
(* registration, and no check fails for being cancelled before the deadline *)
(* has passed, also on a Readiness value whose timeout is zero.             *)
AnswerExact ==
  \A p \in Probes : answer[p].status \in {"ready", "not_ready"} =>
    LET f == answer[p].failing
    IN  /\ before[p].checks \subseteq Names(snapshot[p])
        /\ answer[p].status = "ready" <=> f = <<>>
        /\ \A i \in 1..(Len(f) - 1) : f[i] < f[i + 1]
        /\ Names(f) = {snapshot[p][i] : i \in {j \in 1..Len(snapshot[p]) : ~Passed(p, j)}}
        /\ \A i \in 1..Len(outcome[p]) : outcome[p][i] = "ctx" => late[p]

(* A probe that arrived after shutdown began is answered "draining" and     *)
(* runs no check.                                                           *)
DrainingWins ==
  \A p \in Probes : before[p].draining =>
    answer[p].status \in {"none", "draining"} /\ snapshot[p] = <<>>

(* Every probe is answered, whatever hangs.                                 *)
ProbeAnswered == \A p \in Probes : (pc[p] = "arrived") ~> (pc[p] = "answered")
=============================================================================
