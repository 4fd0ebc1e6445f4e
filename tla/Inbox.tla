--------------------------------- MODULE Inbox ---------------------------------
(***************************************************************************)
(* What the inbound side of a bridge promises about a message, however it  *)
(* arrives (InboundClient in src/src/lark/transport.ts): one turn at a     *)
(* time works on it, a turn that failed may be tried again but only        *)
(* MaxAttempts times in all, and a message that was handled or given up is *)
(* never dispatched again by this process.                                 *)
(***************************************************************************)
EXTENDS Naturals

CONSTANTS Msgs, MaxAttempts

VARIABLE inbox

Entry == [open : BOOLEAN,    \* a turn works on it
          tries : 0..MaxAttempts,
          done : BOOLEAN]    \* handled, or given up

Init == inbox = [m \in Msgs |-> [open |-> FALSE, tries |-> 0, done |-> FALSE]]

Dispatch(m) ==
  /\ ~inbox[m].open /\ ~inbox[m].done /\ inbox[m].tries < MaxAttempts
  /\ inbox'[m] = [open |-> TRUE, tries |-> inbox[m].tries + 1, done |-> FALSE]

Handle(m) ==
  /\ inbox[m].open
  /\ inbox'[m] = [open |-> FALSE, tries |-> inbox[m].tries, done |-> TRUE]

\* The last attempt's failure gives the message up.
Release(m) ==
  /\ inbox[m].open
  /\ inbox'[m] = [open |-> FALSE, tries |-> inbox[m].tries, done |-> inbox[m].tries = MaxAttempts]

\* One history pull may dispatch several messages.
Next ==
  /\ inbox' \in [Msgs -> Entry]
  /\ \A m \in Msgs :
       Dispatch(m) \/ Handle(m) \/ Release(m) \/ inbox'[m] = inbox[m]

Spec == Init /\ [][Next]_inbox
===============================================================================
