--------------------------- MODULE ErrorDocument ---------------------------
(***************************************************************************)
(* internal/server/json.go and errors.go: how the error a handler returns, *)
(* a tree of wrapped and joined errors, becomes the status and the objects *)
(* of one response (WriteError, appendClientErrors, documentStatus).       *)
(*                                                                         *)
(* An error is a record: its kind, the status and the pointer it carries   *)
(* if it is a ClientError, and what it wraps, joins or has as its cause.   *)
(***************************************************************************)
EXTENDS Naturals, SequencesExt

CONSTANTS
  Statuses,   \* statuses handlers put into a ClientError
  MaxDepth,   \* bound on the levels of an error below its root
  MaxJoined   \* bound on the errors joined into one

ASSUME StatusesAssumption == Statuses \subseteq 100..599
(* A handler that wraps what DecodeJSON returned has two levels below it.  *)
ASSUME ShapeAssumption == MaxDepth \in Nat \ {0, 1} /\ MaxJoined \in Nat \ {0}

Err(kind, kids) == [kind |-> kind, status |-> 0, pointer |-> <<>>, kids |-> kids]

ClientError(status, pointer, kids) ==
  [kind |-> "client", status |-> status, pointer |-> pointer, kids |-> kids]

Leaves ==
  {Err(k, <<>>) : k \in {"nil", "plain"}}
    \cup {ClientError(s, <<>>, <<>>) : s \in Statuses}

(* One level more: fmt.Errorf with %w, errors.Join, a ClientError's cause. *)
Above(S) ==
  Leaves
    \cup {Err("wrap", <<e>>) : e \in S}
    \cup {Err("join", kids) : kids \in UNION {[1..n -> S] : n \in 1..MaxJoined}}
    \cup {ClientError(s, <<>>, <<e>>) : s \in Statuses, e \in S}

Trees ==
  LET level[d \in 0..MaxDepth] == IF d = 0 THEN Leaves ELSE Above(level[d - 1])
  IN  level[MaxDepth]

(* newErrorObject: the status and, when there is one, the pointer.         *)
ErrorObject(e) == [status |-> e.status, pointer |-> e.pointer]

-----------------------------------------------------------------------------
(* Where an error can stand in a tree: the steps down to it, each the      *)
(* index of what Unwrap returns.                                           *)
Places == UNION {[1..n -> 1..MaxJoined] : n \in 0..MaxDepth}

(* What Unwrap of e returns, at index i.                                   *)
Unwrap(e, i) == IF i <= Len(e.kids) THEN e.kids[i] ELSE Err("nil", <<>>)

(* The errors on the way from e down to place p, and the one there.        *)
Along(e, p) ==
  LET way[n \in 0..Len(p)] == IF n = 0 THEN e ELSE Unwrap(way[n - 1], p[n])
  IN  way

At(e, p) == Along(e, p)[Len(p)]

Subtrees(e) == {At(e, p) : p \in Places}

-----------------------------------------------------------------------------
(* appendClientErrors: the walk stops at a ClientError, follows a wrapped  *)
(* error, and visits joined ones in order.                                 *)
(* Faulty variant: only the first branch of a join, as errors.As would. *)
FirstClientError(found, e) ==
  LET walk[t \in Subtrees(e)] ==
        LET upto[n \in 0..Len(t.kids)] ==
              IF n = 0 THEN <<>>
              ELSE IF upto[n - 1] # <<>> THEN upto[n - 1] ELSE walk[t.kids[n]]
        IN  IF t.kind = "client" THEN <<ErrorObject(t)>> ELSE upto[Len(t.kids)]
  IN  found \o walk[e]

(* What the loop over the unwrapped errors appends, walk being the result  *)
(* of each.                                                                *)
AppendEach(walk, kids) ==
  LET upto[n \in 0..Len(kids)] == IF n = 0 THEN <<>> ELSE upto[n - 1] \o walk[kids[n]]
  IN  upto[Len(kids)]

Walk(e) ==
  LET walk[t \in Subtrees(e)] ==
        IF t.kind = "client" THEN <<ErrorObject(t)>> ELSE AppendEach(walk, t.kids)
  IN  walk

AppendClientErrors(found, e) == found \o Walk(e)[e]

(* documentStatus: the status all share, or the most general one.          *)
(* Faulty variant: the first object's status stands for all. *)
StatusOfFirst(objects) == IF objects = <<>> THEN 500 ELSE objects[1].status

DocumentStatus(objects) ==
  LET all == {o.status : o \in ToSet(objects)}
  IN  IF objects = <<>> THEN 500
      ELSE IF all = {objects[1].status} THEN objects[1].status
      ELSE IF \E s \in all : s < 400 \/ s >= 500 THEN 500 ELSE 400

(* writeJSONError(500): one generic object that discloses nothing.         *)
InternalError == [status |-> 500, objects |-> <<ErrorObject(ClientError(500, <<>>, <<>>))>>]

(* WriteError: without a ClientError the document carries one generic 500. *)
ErrorResponse(e) ==
  LET found == AppendClientErrors(<<>>, e)
  IN  IF found = <<>> THEN InternalError
      ELSE [status |-> DocumentStatus(found), objects |-> found]

-----------------------------------------------------------------------------
(* Which errors of a tree a client is owed, and in which order.            *)

(* The places of the ClientErrors no other ClientError has as its cause.   *)
Owed(e) ==
  {p \in Places : /\ At(e, p).kind = "client"
                  /\ \A n \in 0..(Len(p) - 1) : Along(e, p)[n].kind # "client"}

(* Place p is left of q: where they part, p takes the earlier branch.      *)
Before(p, q) ==
  \E n \in 1..Len(p) : /\ n <= Len(q) /\ p[n] < q[n]
                       /\ \A k \in 1..(n - 1) : p[k] = q[k]

(* The objects are those of e's errors at the places, each once, in order. *)
Reports(objects, e, places) ==
  \E q \in [1..Len(objects) -> places] :
    /\ \A p \in places : \E i \in 1..Len(objects) : q[i] = p
    /\ \A i, j \in 1..Len(objects) : i < j => Before(q[i], q[j])
    /\ \A i \in 1..Len(objects) : objects[i] = ErrorObject(At(e, q[i]))
=============================================================================
