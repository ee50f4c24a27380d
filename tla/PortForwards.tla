---------------------------- MODULE PortForwards ----------------------------
(***************************************************************************)
(* Published ports (port_forward.rs): a table of rules by name, and for    *)
(* each rule a listener task that ends when the sender in the rule is      *)
(* dropped.  add looks the name up, awaits the bind and only then writes   *)
(* the rule, so several of them may be under way for one name.             *)
(***************************************************************************)
EXTENDS Naturals

CONSTANTS
  Rules,    \* rule names
  Ports,    \* host ports
  Adds,     \* the calls of add, and the listeners they start
  NoAdd     \* no rule of this name

ASSUME AddsAssumption == NoAdd \notin Adds /\ Rules # {} /\ Ports # {}

VARIABLES
  rules,      \* forwards: the listener of each rule
  call,       \* how far each add is
  asked,      \* the name and port of each add
  listening,  \* the listeners that run
  met         \* history: the adds each add under way has overlapped with

forwardVars == <<rules, call, asked, listening, met>>

ForwardTypeOK ==
  /\ rules \in [Rules -> Adds \cup {NoAdd}]
  /\ call \in [Adds -> {"idle", "binding", "bound"}]
  /\ asked \in [Adds -> Rules \X Ports]
  /\ listening \in SUBSET Adds
  /\ met \in [Adds -> SUBSET Adds]
  /\ \A a, b \in listening : asked[a][2] = asked[b][2] => a = b

ForwardInit ==
  /\ rules = [n \in Rules |-> NoAdd]
  /\ call = [a \in Adds |-> "idle"]
  /\ asked = [a \in Adds |-> CHOOSE x \in Rules \X Ports : TRUE]
  /\ listening = {}
  /\ met = [a \in Adds |-> {}]

NameOf(a) == asked[a][1]
PortOf(a) == asked[a][2]

\* The sender of a is in a rule.
InRules(a) == \E n \in Rules : rules[n] = a

\* The adds that are under way when a begins.
UnderWay(a) == {b \in Adds \ {a} : call[b] # "idle"}

\* Mutant: the name is not looked up.
AddBegins(a, n, p) ==
  /\ call[a] = "idle" /\ a \notin listening /\ ~InRules(a)
  /\ call' = [call EXCEPT ![a] = "binding"]
  /\ asked' = [asked EXCEPT ![a] = <<n, p>>]
  /\ met' = [b \in Adds |-> IF b = a THEN UnderWay(a)
                           ELSE IF b \in UnderWay(a) THEN met[b] \cup {a}
                           ELSE met[b]]
  /\ UNCHANGED <<rules, listening>>

\* A name that is there already is refused, with nothing changed.
AddChecks(a, n, p) ==
  /\ call[a] = "idle" /\ a \notin listening /\ ~InRules(a)
  /\ rules[n] = NoAdd
  /\ call' = [call EXCEPT ![a] = "binding"]
  /\ asked' = [asked EXCEPT ![a] = <<n, p>>]
  /\ met' = [b \in Adds |-> IF b = a THEN UnderWay(a)
                           ELSE IF b \in UnderWay(a) THEN met[b] \cup {a}
                           ELSE met[b]]
  /\ UNCHANGED <<rules, listening>>

\* The port is free, and the listener task is spawned.
AddBinds(a) ==
  /\ call[a] = "binding"
  /\ \A b \in listening : PortOf(b) # PortOf(a)
  /\ call' = [call EXCEPT ![a] = "bound"]
  /\ listening' = listening \cup {a}
  /\ UNCHANGED <<rules, asked, met>>

AddFails(a) ==
  /\ call[a] = "binding"
  /\ call' = [call EXCEPT ![a] = "idle"]
  /\ UNCHANGED <<rules, asked, listening, met>>

\* Over a rule that another add has written meanwhile.
AddInserts(a) ==
  /\ call[a] = "bound"
  /\ call' = [call EXCEPT ![a] = "idle"]
  /\ rules' = [rules EXCEPT ![NameOf(a)] = a]
  /\ UNCHANGED <<asked, listening, met>>

RemoveRule(n) ==
  /\ rules[n] # NoAdd
  /\ rules' = [rules EXCEPT ![n] = NoAdd]
  /\ UNCHANGED <<call, asked, listening, met>>

\* Neither the table nor the call that makes the rule holds the sender.
SenderDropped(a) == call[a] # "bound" /\ ~InRules(a)

ListenerStops(a) ==
  /\ a \in listening
  /\ SenderDropped(a)
  /\ listening' = listening \ {a}
  /\ UNCHANGED <<rules, call, asked, met>>

\* accept returns an error: the task ends and the rule stays.
AcceptFails(a) ==
  /\ a \in listening
  /\ listening' = listening \ {a}
  /\ UNCHANGED <<rules, call, asked, met>>

ForwardNext ==
  \/ \E a \in Adds :
       \/ \E n \in Rules, p \in Ports : AddChecks(a, n, p)
       \/ AddBinds(a) \/ AddFails(a) \/ AddInserts(a)
       \/ ListenerStops(a) \/ AcceptFails(a)
  \/ \E n \in Rules : RemoveRule(n)

ForwardSpec == ForwardInit /\ [][ForwardNext]_forwardVars

---------------------------------------------------------------------------
(* Properties.                                                             *)

\* add, "if a rule with the same name already exists": though it awaits the
\* bind between the look-up and the insert, an add only ever writes over a
\* rule that was added beside it, never over one that was there before it
\* began or came from an add that had ended.
OnlyRivalsReplaced ==
  [][\A a \in Adds :
       AddInserts(a) /\ rules[NameOf(a)] # NoAdd =>
         rules[NameOf(a)] \in met[a]]_forwardVars
=============================================================================
