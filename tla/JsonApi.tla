------------------------------ MODULE JsonApi ------------------------------
(***************************************************************************)
(* A JSON endpoint: a handler that reads its body with DecodeJSON          *)
(* (JsonBody), or takes none, and answers with WriteJSON or, for whatever  *)
(* error it got or found, with WriteError (ErrorDocument).                 *)
(*                                                                         *)
(* A decode error names a member of the body by the names of the struct    *)
(* fields on the way to it (encoding/json, external).  The names that      *)
(* matter to decodePointer are an ordinary one and those with a dot, a     *)
(* slash or a tilde; a client's own name may also be empty.                *)
(***************************************************************************)
EXTENDS JsonBody, ErrorDocument

VARIABLES
  fault,    \* what made the value not fit dst, as in Faults, or NoFault
  err,      \* what the handler passed to WriteError, or NoError
  response  \* the status sent, and its error objects in order

apiVars == <<fault, err, response>>

FieldNames == {"plain", "dotted", "slashed", "tilded"}
Names == FieldNames \cup {"empty"}

(* UnmarshalTypeError is about the whole value or a member of it; an       *)
(* unknown field is a member of the value or of one of its members.  names *)
(* are those of the fields on the way.  They are the member's path exactly *)
(* if nothing else is on it: no array index and no map key, which          *)
(* encoding/json leaves out, and no field the body spells in another case. *)
Faults ==
  [is : {"type"}, exact : BOOLEAN,
   names : {<<>>} \cup {<<n>> : n \in FieldNames} \cup {<<m, n>> : m, n \in FieldNames}]
  \cup
  [is : {"unknown"}, exact : BOOLEAN,
   names : {<<n>> : n \in Names} \cup {<<m, n>> : m \in FieldNames, n \in Names}]

NoFault == [is |-> "none", exact |-> TRUE, names |-> <<>>]
NoError == Err("none", <<>>)
NoResponse == [status |-> 0, objects |-> <<>>]

ApiInit == Init /\ fault = NoFault /\ err = NoError /\ response = NoResponse

-----------------------------------------------------------------------------
(* decodePointer: a type error is located by its name unless it has a dot, *)
(* which separates the names of a nested member, an unknown field by its   *)
(* own name.                                                               *)
(* Faulty variant: a nested path is cut at its last separator. *)
PointLast(f) == IF f.names = <<>> THEN <<>> ELSE <<f.names[Len(f.names)]>>

DecodePointer(f) ==
  LET last == f.names[Len(f.names)]
  IN  CASE f.is = "none" -> <<>>
        [] f.is = "type" ->
             IF Len(f.names) # 1 \/ f.names = <<"dotted">> THEN <<>> ELSE f.names
        [] f.is = "unknown" -> IF last \in {"slashed", "empty"} THEN <<>> ELSE <<last>>

StatusOf(r) == CASE r = "400" -> 400 [] r = "413" -> 413 [] r = "415" -> 415

(* The first value was read and did not fit.                               *)
Misfit == start = 0 /\ Decode = "value"

(* A handler returns what DecodeJSON returned, as it is or wrapped.        *)
Reject ==
  /\ pc = "done" /\ result \in {"400", "413", "415"} /\ err = NoError
  /\ fault' \in IF Misfit THEN Faults ELSE {NoFault}
  /\ LET e == ClientError(StatusOf(result), DecodePointer(fault'), <<Err("plain", <<>>)>>)
     IN  err' \in {e, Err("wrap", <<e>>)}
  /\ UNCHANGED <<vars, response>>

(* A handler that takes no body, and one that accepted its body, fails in  *)
(* its own way.                                                            *)
Fail ==
  /\ err = NoError /\ response = NoResponse
  /\ \/ pc = "type" /\ req.body = <<>> /\ ~req.json /\ err' \in Trees
     \/ pc = "done" /\ result = "ok" /\ err' \in Leaves
  /\ UNCHANGED <<vars, fault, response>>

WriteError ==
  /\ err # NoError /\ response = NoResponse
  /\ response' = ErrorResponse(err)
  /\ UNCHANGED <<vars, fault, err>>

(* WriteJSON encodes the value before anything is sent, so that one that   *)
(* cannot be encoded is still answered properly.                           *)
WriteJSON ==
  /\ pc = "done" /\ result = "ok" /\ err = NoError /\ response = NoResponse
  /\ \E encodes \in BOOLEAN :
       response' = IF encodes THEN [status |-> 200, objects |-> <<>>] ELSE InternalError
  /\ UNCHANGED <<vars, fault, err>>

DecodeStep ==
  /\ err = NoError /\ response = NoResponse
  /\ RequireJSONContentType \/ Refill \/ DecodeFirst \/ DecodeSecond
  /\ UNCHANGED apiVars

Answered == response # NoResponse /\ UNCHANGED <<vars, apiVars>>

ApiNext == DecodeStep \/ Reject \/ Fail \/ WriteError \/ WriteJSON \/ Answered

ApiSpec == ApiInit /\ [][ApiNext]_<<vars, apiVars>>

-----------------------------------------------------------------------------
(* Properties.                                                             *)

(* Every failure a handler reports reaches the client, once and in the      *)
(* order it was joined, and no cause of one does (appendClientErrors).      *)
EveryFailureReported ==
  response # NoResponse /\ Owed(err) # {} => Reports(response.objects, err, Owed(err))

(* The response's status contradicts none of its objects: a response says   *)
(* "your fault" (4xx) exactly if every object does, so it says "ours" only  *)
(* if an object has a status that is not the client's fault, and it is the  *)
(* objects' own status when they agree.                                     *)
StatusFitsObjects ==
  response.objects # <<>> =>
    LET all == {o.status : o \in ToSet(response.objects)}
    IN  /\ response.status \in 400..499 <=> all \subseteq 400..499
        /\ \A s \in Statuses : all = {s} => response.status = s
        /\ response.status \in all \cup {400, 500}

(* Where decodePointer cannot know the member from the error: fields on the *)
(* way to it are not named, or not as the body has them; a name has a       *)
(* character that a pointer would have to escape.                           *)
Unescaped(names) == \A i \in 1..Len(names) : names[i] \notin {"slashed", "tilded"}

Unlocatable(f) ==
  ~f.exact \/ (f.is = "unknown" /\ Len(f.names) > 1) \/ ~Unescaped(f.names)

(* A pointer in the response locates the member that is wrong, exactly if   *)
(* the error tells enough: the guard against dots keeps every nested type   *)
(* error from being attached to a member at the top, and a top-level member *)
(* with an ordinary name is always located.  In the other cases             *)
(* (Unlocatable) a pointer that is given is wrong, against decodePointer's  *)
(* own "a wrong pointer is worse than none".                                *)
PointerSound ==
  response # NoResponse /\ fault # NoFault =>
    LET p == response.objects[1].pointer
    IN  /\ p # <<>> =>
             ((p = fault.names /\ fault.exact /\ Unescaped(p)) <=> ~Unlocatable(fault))
        /\ fault.names = <<"plain">> /\ fault.exact => p = fault.names
=============================================================================
