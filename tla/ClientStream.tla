----------------------------- MODULE ClientStream -----------------------------
(***************************************************************************)
(* What a client of the relay may rely on for the guest-to-host side of    *)
(* one bulk operation, whatever the two console lanes do: its acceptance   *)
(* comes before its bytes, its bytes come in order and without a gap, its  *)
(* finish marker comes after exactly the bytes it covers, a cancelled      *)
(* operation delivers no more bytes, and nothing follows its terminal      *)
(* response.                                                               *)
(***************************************************************************)
EXTENDS Integers

CONSTANTS
  Keys,      \* bulk operations: a client incarnation and a correlation ID
  MaxOffset  \* bound: length of an operation's byte stream

VARIABLE stream  \* what has been forwarded to the client

Unfinished == -1

Untouched == [accepted |-> FALSE, bytes |-> {}, finish |-> Unfinished,
              cut |-> FALSE, ended |-> FALSE]

Prefix(bytes) == \E n \in 0..MaxOffset : bytes = 0..(n - 1)

(* t is what the client has seen after some more of s's operation. *)
Extends(s, t) ==
  /\ ~ s.ended
  /\ s.accepted => t.accepted
  /\ s.cut => t.cut
  /\ s.bytes \subseteq t.bytes /\ Prefix(t.bytes)
  /\ t.bytes # s.bytes => t.accepted /\ s.finish = Unfinished /\ ~ s.cut
  /\ t.finish # s.finish => /\ s.finish = Unfinished /\ ~ s.cut
                            /\ t.bytes = 0..(t.finish - 1)

Init == stream = [k \in Keys |-> Untouched]

Forward(k) ==
  /\ Extends(stream[k], stream'[k])
  /\ stream' = [stream EXCEPT ![k] = stream'[k]]

Next == \E k \in Keys : Forward(k)

Spec == Init /\ [][Next]_stream
=============================================================================
