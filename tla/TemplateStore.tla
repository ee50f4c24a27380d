--------------------------- MODULE TemplateStore ---------------------------
(***************************************************************************)
(* The spawn templates that SDK clients keep in the registry (client.rs):  *)
(* a value per name and an index of the names, written by several requests *)
(* of one call.  A request is answered within five seconds, or the call    *)
(* gives up and the request may still be carried out.  The registry is     *)
(* used by what KvRegister says of it.                                     *)
(***************************************************************************)
EXTENDS Integers, Sequences

CONSTANTS
  Clients,    \* connections to the daemon, one call at a time each
  Templates,  \* names of templates
  NoCall,     \* a client without a call
  SendRoom    \* bound on the requests of a client still to be carried out

ASSUME ClientsAssumption == SendRoom \in Nat \ {0}

VARIABLES
  stored,    \* the templates that have a value that is not empty
  index,     \* the names in template:__index__
  requests,  \* what each client has sent and its session not yet handled
  answer,    \* the answer on its way to the call each client has under way
  calls,     \* the call each client has under way
  saved,     \* saves answered with Ok, with no later delete (history)
  mixed,     \* calls of two clients have met (history)
  refused    \* a set has been answered with an error (history)

templateVars == <<stored, index, requests, answer, calls, saved, mixed,
                  refused>>

Requests == [kind : {"put", "clear"}, name : Templates] \cup [kind : {"read"}]
              \cup [kind : {"write"}, names : SUBSET Templates]

Replies == [kind : {"none", "ack", "error"}] \cup
             [kind : {"names"}, names : SUBSET Templates]

Calls == [op : {"save", "delete"}, name : Templates, at : 1 .. 3,
          names : SUBSET Templates]

TemplatesTypeOK ==
  /\ stored \in SUBSET Templates /\ index \in SUBSET Templates
  /\ requests \in [Clients -> Seq(Requests)]
  /\ \A c \in Clients : Len(requests[c]) <= SendRoom
  /\ answer \in [Clients -> Replies]
  /\ calls \in [Clients -> Calls \cup {NoCall}]
  /\ saved \in SUBSET Templates
  /\ mixed \in BOOLEAN /\ refused \in BOOLEAN

NoAnswer == [kind |-> "none"]

TemplatesInit ==
  /\ stored = {} /\ index = {}
  /\ requests = [c \in Clients |-> <<>>]
  /\ answer = [c \in Clients |-> NoAnswer]
  /\ calls = [c \in Clients |-> NoCall]
  /\ saved = {} /\ mixed = FALSE /\ refused = FALSE

---------------------------------------------------------------------------
(* The client.                                                             *)

\* Mutant: a delete clears the value first.
ValueFirst(op) == <<"value", "read", "write">>

\* The requests of a call: a name is in the index only while it has a value.
Steps(op) == IF op = "save" THEN <<"value", "read", "write">>
                            ELSE <<"read", "write", "value">>

Step(k) == Steps(k.op)[k.at]

RequestOf(k) ==
  IF Step(k) = "read" THEN [kind |-> "read"]
  ELSE IF Step(k) = "write" THEN [kind |-> "write", names |-> k.names]
  ELSE [kind |-> IF k.op = "save" THEN "put" ELSE "clear", name |-> k.name]

Requested(c, k) ==
  /\ Len(requests[c]) < SendRoom
  /\ requests' = [requests EXCEPT ![c] = Append(@, RequestOf(k))]
  /\ calls' = [calls EXCEPT ![c] = k]
  /\ answer' = [answer EXCEPT ![c] = NoAnswer]

Busy(c) == calls[c] # NoCall \/ requests[c] # <<>>

CallBegins(c, op, n) ==
  /\ calls[c] = NoCall
  /\ Requested(c, [op |-> op, name |-> n, at |-> 1, names |-> {}])
  /\ saved' = IF op = "delete" THEN saved \ {n} ELSE saved
  /\ mixed' = (mixed \/ \E d \in Clients \ {c} : Busy(d))
  /\ UNCHANGED <<stored, index, refused>>

CallOver(c) ==
  /\ calls' = [calls EXCEPT ![c] = NoCall]
  /\ answer' = [answer EXCEPT ![c] = NoAnswer]
  /\ UNCHANGED <<stored, index, requests, mixed, refused>>

\* The names a call goes on with: those it has read, with its own or without.
Edited(k) ==
  IF Step(k) # "read" THEN k.names
  ELSE IF k.op = "save" THEN k.names \cup {k.name} ELSE k.names \ {k.name}

Complete(k) ==
  k.at = 3 \/ (Step(k) = "read" /\ k.op = "save" /\ k.name \in k.names)

\* The call with what its last request was answered.
Known(c) ==
  LET k == calls[c] IN
    IF answer[c].kind = "names"
      THEN [op |-> k.op, name |-> k.name, at |-> k.at, names |-> answer[c].names]
      ELSE k

CallGoesOn(c) ==
  /\ answer[c].kind \in {"ack", "names"}
  /\ ~Complete(Known(c))
  /\ LET k == Known(c) IN
       Requested(c, [op |-> k.op, name |-> k.name, at |-> k.at + 1,
                     names |-> Edited(k)])
  /\ UNCHANGED <<stored, index, saved, mixed, refused>>

CallSucceeds(c) ==
  /\ answer[c].kind \in {"ack", "names"}
  /\ Complete(Known(c))
  /\ saved' = IF calls[c].op = "save" THEN saved \cup {calls[c].name} ELSE saved
  /\ CallOver(c)

\* An error, a timeout, or the caller dropping the call.
CallFails(c) ==
  /\ calls[c] # NoCall
  /\ UNCHANGED saved
  /\ CallOver(c)

---------------------------------------------------------------------------
(* The session of each client, request by request.                         *)

\* The request of the call under way is the last that was sent; answers to
\* others find nobody waiting for their correlation id.
Answered(c, m) ==
  /\ requests' = [requests EXCEPT ![c] = Tail(@)]
  /\ answer' = IF calls[c] # NoCall /\ Len(requests[c]) = 1
                 THEN [answer EXCEPT ![c] = m] ELSE answer

ReadHandled(c) ==
  /\ requests[c] # <<>> /\ Head(requests[c]).kind = "read"
  /\ Answered(c, [kind |-> "names", names |-> index])
  /\ UNCHANGED <<stored, index, calls, saved, mixed, refused>>

Effect(r) ==
  /\ stored' = IF r.kind = "write" THEN stored
               ELSE IF r.kind = "put" THEN stored \cup {r.name}
               ELSE stored \ {r.name}
  /\ index' = IF r.kind = "write" THEN r.names ELSE index

\* What a set has lost when it does not fit.
Loss(r) ==
  /\ stored' = IF r.kind = "write" THEN stored ELSE stored \ {r.name}
  /\ index' = IF r.kind = "write" THEN {} ELSE index

SetHandled(c) ==
  /\ requests[c] # <<>> /\ Head(requests[c]).kind # "read"
  /\ Answered(c, [kind |-> "ack"])
  /\ Effect(Head(requests[c]))
  /\ UNCHANGED <<calls, saved, mixed, refused>>

SetRefused(c) ==
  /\ requests[c] # <<>> /\ Head(requests[c]).kind # "read"
  /\ Answered(c, [kind |-> "error"])
  /\ LET r == Head(requests[c]) IN
       Effect(r) \/ Loss(r) \/ UNCHANGED <<stored, index>>
  /\ refused' = TRUE
  /\ UNCHANGED <<calls, saved, mixed>>

\* The session ends with what it has not handled; its client sends no more
\* on it and connects again.
SessionEnds(c) ==
  /\ requests[c] # <<>> \/ calls[c] # NoCall
  /\ requests' = [requests EXCEPT ![c] = <<>>]
  /\ calls' = [calls EXCEPT ![c] = NoCall]
  /\ answer' = [answer EXCEPT ![c] = NoAnswer]
  /\ UNCHANGED <<stored, index, saved, mixed, refused>>

TemplatesNext ==
  \E c \in Clients :
    \/ \E op \in {"save", "delete"}, n \in Templates : CallBegins(c, op, n)
    \/ CallGoesOn(c) \/ CallSucceeds(c) \/ CallFails(c)
    \/ ReadHandled(c) \/ SetHandled(c) \/ SetRefused(c) \/ SessionEnds(c)

TemplatesSpec == TemplatesInit /\ [][TemplatesNext]_templateVars

---------------------------------------------------------------------------
(* Properties.                                                             *)

\* What was saved is listed, and what is listed has a value, wherever calls
\* broke off and whenever their last requests were carried out: unless calls
\* of two clients have met or a set was refused.
SavedAreListed ==
  ~mixed /\ ~refused => saved \subseteq index /\ index \subseteq stored
=============================================================================
