------------------------------ MODULE JsonBody ------------------------------
(***************************************************************************)
(* internal/server/json.go, DecodeJSON: one request body read through the  *)
(* limit of withRequestBodyLimit, in whatever pieces the connection hands  *)
(* over, into encoding/json's Decoder.                                     *)
(*                                                                         *)
(* A body is a sequence of bytes of four kinds: braces delimit an object   *)
(* (its members are abstracted to how they fit dst), a digit is part of a  *)
(* number and a space is white space.  A number, unlike an object, ends    *)
(* only with the byte after it or with the body.                           *)
(***************************************************************************)
EXTENDS Naturals, Sequences, FiniteSetsExt

CONSTANTS
  Limit,   \* Config.MaxRequestBodyBytes
  MaxLen   \* bound on the length of a body

ASSUME LimitAssumption == Limit \in Nat /\ MaxLen \in Nat

VARIABLES
  req,     \* the request: media type, body, how the value fits dst, whether
           \* its length is declared, and whether the connection breaks before
           \* the end of the body was signalled
  pc,      \* "type", "first", "second" or "done"
  got,     \* bytes of the body in the decoder's buffer so far
  left,    \* maxBytesReader.n
  sticky,  \* maxBytesReader.err: what every further Read returns
  seen,    \* the read error this call of Decode has met
  start,   \* Decoder.scanp: where the next value is looked for
  result   \* what DecodeJSON returned: "ok" or a ClientError's status

vars == <<req, pc, got, left, sticky, seen, start, result>>

Bytes == {"lbrace", "rbrace", "digit", "space"}
Bodies == UNION {[1..n -> Bytes] : n \in 0..MaxLen}

(* A body whose declared length is over the limit never gets here.         *)
Requests ==
  {r \in [json : BOOLEAN, body : Bodies, fits : BOOLEAN,
          declared : BOOLEAN, breaks : BOOLEAN] :
     r.declared => Len(r.body) <= Limit}

Init ==
  /\ req \in Requests
  /\ pc = "type" /\ result = "none"
  /\ got = 0 /\ left = Limit /\ sticky = "none"
  /\ seen = "none" /\ start = 0

Return(r) == pc' = "done" /\ result' = r

RequireJSONContentType ==
  /\ pc = "type"
  /\ IF req.json THEN pc' = "first" /\ UNCHANGED result ELSE Return("415")
  /\ UNCHANGED <<req, got, left, sticky, seen, start>>

-----------------------------------------------------------------------------
(* encoding/json: the value at the start of s, or that s is malformed, or  *)
(* in what state its end leaves the scanner.                               *)
Scan(s) ==
  LET Next1(i, skip) == {j \in (i + 1)..Len(s) : s[j] # skip}
      lead == Next1(0, "space")
      b == Min(lead)
      after == Next1(b, IF s[b] = "lbrace" THEN "space" ELSE "digit")
  IN  IF lead = {} THEN [is |-> "blank", end |-> 0]
      ELSE IF s[b] = "digit" /\ after = {} THEN [is |-> "number", end |-> Len(s)]
      ELSE IF s[b] = "digit" THEN [is |-> "value", end |-> Min(after) - 1]
      ELSE IF s[b] = "lbrace" /\ after = {} THEN [is |-> "open", end |-> 0]
      ELSE IF s[b] = "lbrace" /\ s[Min(after)] = "rbrace"
             THEN [is |-> "value", end |-> Min(after)]
      ELSE [is |-> "syntax", end |-> 0]

Buffered == SubSeq(req.body, start + 1, got)

(* Decoder.Decode: what the buffer and the read error amount to.  "refill" *)
(* asks for more bytes; the error counts only once the buffer is used up.  *)
Decode ==
  LET v == Scan(Buffered)
  IN  IF v.is \in {"value", "syntax"} THEN v.is
      ELSE IF seen = "none" THEN "refill"
      ELSE IF seen # "eof" THEN seen
      ELSE IF v.is = "number" THEN "value"
      ELSE IF v.is = "open" THEN "unexpected" ELSE "eof"

(* maxBytesReader.Read: k bytes came from the connection, with error e.    *)
LimitedRead(k, e) ==
  IF k <= left THEN [n |-> k, err |-> e] ELSE [n |-> left, err |-> "max"]

(* The connection hands over some bytes, never more than one over what is  *)
(* left of the limit, and the end of the body with the last or after it.   *)
Pieces ==
  LET rest == Len(req.body) - got
      end  == IF req.breaks THEN "broken" ELSE "eof"
  IN  {p \in (0..rest) \X {"none", end} :
         /\ p[1] <= left + 1
         /\ IF p[2] = "none" THEN p[1] > 0 ELSE p[1] = rest}

Refill ==
  /\ pc \in {"first", "second"} /\ Decode = "refill"
  /\ IF sticky # "none"
       THEN seen' = sticky /\ UNCHANGED <<got, left, sticky>>
       ELSE \E p \in Pieces :
              LET r == LimitedRead(p[1], p[2])
              IN  /\ got' = got + r.n /\ left' = left - r.n
                  /\ sticky' = r.err /\ seen' = r.err
  /\ UNCHANGED <<req, pc, start, result>>

-----------------------------------------------------------------------------
(* clientErrorForDecode: the limit is 413, anything else is 400.           *)
ClientErrorForDecode(e) == IF e = "max" THEN "413" ELSE "400"

DecodeFirst ==
  /\ pc = "first" /\ Decode # "refill"
  /\ \/ /\ Decode = "value" /\ req.fits
        /\ pc' = "second" /\ start' = start + Scan(Buffered).end /\ seen' = "none"
        /\ UNCHANGED result
     \/ /\ Decode = "value" /\ ~req.fits
        /\ Return("400") /\ UNCHANGED <<start, seen>>
     \/ /\ Decode # "value"
        /\ Return(ClientErrorForDecode(Decode)) /\ UNCHANGED <<start, seen>>
  /\ UNCHANGED <<req, got, left, sticky>>

(* The second Decode: only a clean end of the body is success.             *)
(* Faulty variant: any failure of it is taken for the end of the body. *)
EndOfBodyAnyError(d) == d # "value"

EndOfBody(d) == d = "eof"

DecodeSecond ==
  /\ pc = "second" /\ Decode # "refill"
  /\ Return(IF EndOfBody(Decode) THEN "ok" ELSE "400")
  /\ UNCHANGED <<req, got, left, sticky, seen, start>>

Returned == pc = "done" /\ UNCHANGED vars

Next == RequireJSONContentType \/ Refill \/ DecodeFirst \/ DecodeSecond \/ Returned

Spec == Init /\ [][Next]_vars

-----------------------------------------------------------------------------
(* Properties.                                                             *)

(* s is one value between white space.                                      *)
SingleValue(s) ==
  \E i, j \in 1..Len(s) :
    /\ i <= j
    /\ \A k \in 1..Len(s) : k < i \/ k > j => s[k] = "space"
    /\ \/ \A k \in i..j : s[k] = "digit"
       \/ i < j /\ s[i] = "lbrace" /\ s[j] = "rbrace" /\ \A k \in (i + 1)..(j - 1) : s[k] = "space"

(* DecodeJSON accepts a request exactly if it declares JSON and its whole   *)
(* body, properly ended and within the limit, is one value that fits: not   *)
(* a longer body of which it has read the beginning, and whatever pieces    *)
(* the body arrives in.                                                     *)
AcceptedExactly ==
  pc = "done" =>
    (result = "ok" <=> /\ req.json /\ req.fits /\ ~req.breaks
                       /\ Len(req.body) <= Limit /\ SingleValue(req.body))

(* Stated by the comment on DecodeJSON and not true of the code: one value  *)
(* whose body the limit cuts off is reported as 413.                        *)
CutOffIs413 ==
  pc = "done" /\ req.json /\ req.fits /\ SingleValue(req.body)
    /\ Len(req.body) > Limit => result = "413"
=============================================================================
