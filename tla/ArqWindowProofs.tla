--------------------------- MODULE ArqWindowProofs ---------------------------
(***************************************************************************)
(* ArqWindow forgets no block, for any number of blocks.  NothingForgotten *)
(* is not inductive: a block may only be let go because the                *)
(* acknowledgement is true, and an acknowledgement is applied long after   *)
(* it was written, so AcksAreTrue has to be carried along, which holds     *)
(* because what the receiver has only grows.                               *)
(***************************************************************************)
EXTENDS ArqWindow, TLAPS

WindowInv == WindowTypeOK /\ AcksAreTrue /\ NothingForgotten

\* Prefixes of the naturals grow with their length.
LEMMA Prefixes == \A m, n \in Int : m <= n => 0..m - 1 \subseteq 0..n - 1
OBVIOUS

\* What the receiver has is never given back: accepting blocks moves them from held to
\* the accepted prefix (arqReceiveBufferTransfer).
LEMMA ReceivedGrows ==
    ASSUME MaxBlocks \in Nat, WindowInv, Receive
    PROVE  /\ got' \in 0..sent /\ got <= got'
           /\ Received(got, held) \subseteq Received(got', held')
<1>1. got \in Int /\ got' \in 0..sent /\ got <= got'
  BY DEF WindowInv, WindowTypeOK, Receive
<1>2. sent \in Int /\ got' \in Int
  BY <1>1 DEF WindowInv, WindowTypeOK
<1>3. (0..got - 1) \subseteq (0..got' - 1)
  BY <1>1, <1>2, Prefixes
<1>4. held \subseteq (0..got' - 1) \cup held'
  BY DEF Receive
<1> QED
  BY <1>1, <1>3, <1>4 DEF Received

\* The invariant holds initially.
LEMMA WindowInit ==
    ASSUME MaxBlocks \in Nat
    PROVE  Init => WindowInv
BY DEF Init, WindowInv, WindowTypeOK, AcksAreTrue, NothingForgotten, Received, Ack, Blocks

\* Every step of the sliding window keeps the invariant.
LEMMA WindowStep ==
    ASSUME MaxBlocks \in Nat
    PROVE  WindowInv /\ [Next]_vars => WindowInv'
<1> SUFFICES ASSUME WindowInv, [Next]_vars PROVE WindowInv'
  OBVIOUS
<1>1. CASE Send
  <2>1. PICK n \in sent + 1..MaxBlocks :
          sent' = n /\ unacked' = unacked \cup (sent..n - 1)
    BY <1>1 DEF Send
  <2>2. UNCHANGED <<got, held, up, acks>>
    BY <1>1 DEF Send
  <2>3. sent \in Nat /\ n \in Nat /\ sent < n /\ n <= MaxBlocks /\ got \in Int
    BY <2>1 DEF WindowInv, WindowTypeOK
  <2>4. (0..sent - 1) \subseteq (0..n - 1) /\ (sent..n - 1) \subseteq (0..n - 1)
    BY <2>3, Prefixes
  <2>5. WindowTypeOK'
    <3>1. sent' \in 0..MaxBlocks /\ got' \in 0..sent' /\ up' \in 0..got'
      BY <2>1, <2>2, <2>3 DEF WindowInv, WindowTypeOK
    <3>2. unacked' \subseteq 0..sent' - 1 /\ held' \subseteq 0..sent' - 1
      BY <2>1, <2>2, <2>4 DEF WindowInv, WindowTypeOK
    <3>3. (acks \subseteq Ack)'
      BY <2>2 DEF WindowInv, WindowTypeOK, Ack, Blocks
    <3> QED
      BY <3>1, <3>2, <3>3 DEF WindowTypeOK
  <2>6. AcksAreTrue'
    BY <2>2 DEF WindowInv, AcksAreTrue, Received, Covered
  <2>7. (0..n - 1) \subseteq (0..sent - 1) \cup (sent..n - 1)
    BY <2>3
  <2>8. NothingForgotten'
    BY <2>1, <2>2, <2>7 DEF WindowInv, NothingForgotten, Received
  <2> QED
    BY <2>5, <2>6, <2>8 DEF WindowInv
<1>2. CASE Receive
  <2>1. /\ got' \in 0..sent /\ got <= got'
        /\ Received(got, held) \subseteq Received(got', held')
    BY <1>2, ReceivedGrows
  <2>2. UNCHANGED <<sent, unacked>>
    BY <1>2 DEF Receive
  <2>3. WindowTypeOK'
    <3>1. sent' \in 0..MaxBlocks /\ got' \in 0..sent'
      BY <2>1, <2>2 DEF WindowInv, WindowTypeOK
    <3>2. up' \in 0..got'
      BY <1>2, <2>1 DEF WindowInv, WindowTypeOK, Receive
    <3>3. unacked' \subseteq 0..sent' - 1 /\ held' \subseteq 0..sent' - 1
      BY <1>2, <2>2 DEF WindowInv, WindowTypeOK, Receive
    <3>4. (acks \subseteq Ack)'
      BY <1>2 DEF Receive, Ack, Blocks
    <3> QED
      BY <3>1, <3>2, <3>3, <3>4 DEF WindowTypeOK
  <2>4. ASSUME NEW a \in acks' PROVE Covered(a) \subseteq Received(got', held')
    <3>1. CASE a \in acks
      BY <3>1, <2>1 DEF WindowInv, AcksAreTrue
    <3>2. CASE a \notin acks
      BY <3>2, <1>2 DEF Receive
    <3> QED
      BY <3>1, <3>2
  <2>5. AcksAreTrue'
    BY <2>4 DEF AcksAreTrue, Received, Covered
  <2>6. NothingForgotten'
    BY <2>1, <2>2 DEF WindowInv, NothingForgotten, Received
  <2> QED
    BY <2>3, <2>5, <2>6 DEF WindowInv
<1>3. CASE Feedback
  <2>1. /\ acks' \subseteq acks /\ unacked' \subseteq unacked
        /\ unacked \ unacked' \subseteq UNION {Covered(a) : a \in acks}
        /\ UNCHANGED <<sent, got, held, up>>
    BY <1>3 DEF Feedback
  <2>2. UNION {Covered(a) : a \in acks} \subseteq Received(got, held)
    BY DEF WindowInv, AcksAreTrue
  <2>3. WindowTypeOK'
    BY <2>1 DEF WindowInv, WindowTypeOK, Ack, Blocks
  <2>4. AcksAreTrue'
    BY <2>1 DEF WindowInv, AcksAreTrue, Received, Covered
  <2>5. NothingForgotten'
    BY <2>1, <2>2 DEF WindowInv, NothingForgotten, Received
  <2> QED
    BY <2>3, <2>4, <2>5 DEF WindowInv
<1>4. CASE UNCHANGED vars
  BY <1>4 DEF vars, WindowInv, WindowTypeOK, AcksAreTrue, NothingForgotten, Received,
              Covered, Ack, Blocks
<1> QED
  BY <1>1, <1>2, <1>3, <1>4 DEF Next

\* No block leaves arq_trans_queue_ before the receiver has it, however late the
\* acknowledgements arrive and whichever of them are lost.
THEOREM WindowCorrect ==
    ASSUME MaxBlocks \in Nat
    PROVE  Spec => [](WindowTypeOK /\ AcksAreTrue /\ NothingForgotten)
<1>1. Init => WindowInv
  BY WindowInit
<1>2. WindowInv /\ [Next]_vars => WindowInv'
  BY WindowStep
<1>3. WindowInv => WindowTypeOK /\ AcksAreTrue /\ NothingForgotten
  BY DEF WindowInv
<1> QED
  BY <1>1, <1>2, <1>3, PTL DEF Spec

=============================================================================
