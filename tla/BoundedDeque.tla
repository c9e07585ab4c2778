---------------------------- MODULE BoundedDeque ----------------------------
(***************************************************************************)
(* What an OSMessageQueue promises its users: a double-ended queue of at   *)
(* most Capacity messages.  OSSendMessage appends, OSJamMessage prepends,  *)
(* OSReceiveMessage takes the oldest end; nothing is lost, duplicated or   *)
(* reordered, whatever the callers' interleaving.                          *)
(***************************************************************************)
EXTENDS Naturals, Sequences

CONSTANTS Message,   \* the messages that can be sent
          Capacity   \* the bound given to OSInitMessageQueue

VARIABLE content     \* the queued messages, the next to be received first

Init == content = << >>

Send(msg) == /\ Len(content) < Capacity
             /\ content' = Append(content, msg)

Jam(msg) == /\ Len(content) < Capacity
            /\ content' = <<msg>> \o content

Receive == /\ content # << >>
           /\ content' = Tail(content)

Next == \/ \E msg \in Message : Send(msg) \/ Jam(msg)
        \/ Receive

Spec == Init /\ [][Next]_content
=============================================================================
