---------------------------- MODULE ReplayWindow ----------------------------
(***************************************************************************)
(* The replay protection of a WireGuard session                            *)
(* (boringtun/src/noise/session.rs): ReceivingKeyCounterValidator, a       *)
(* circular bitmap of N_WORDS words of WORD_SIZE bits, and                 *)
(* Session::receive_packet_data: it consults the validator, releases its   *)
(* mutex, decrypts, and takes the mutex again to mark the counter ("in     *)
(* case during decryption something changed").  It takes &self, so several *)
(* threads may run it on one session.  Tunn, its one caller, holds a write *)
(* lock meanwhile: it shows a subset of these behaviours.                  *)
(*                                                                         *)
(* The bitmap is the set of the bit positions that are 1.  The payload of  *)
(* a packet is left out; whether its tag verifies is an input.             *)
(***************************************************************************)
EXTENDS Integers, FiniteSets

CONSTANTS
  WORD_SIZE,     \* bits in a word of the bitmap (64 in the code)
  N_WORDS,       \* words in the bitmap (16 in the code)
  MaxCounter,    \* bound: the largest counter an authentic packet carries
  Receivers      \* the threads that may decapsulate on the session

(***************************************************************************)
(* MaxCounter + N_BITS stays below 2^64: a session lives REJECT_AFTER_TIME *)
(* (180 s), in which a peer cannot send 2^64 - 1024 packets.  Under this   *)
(* bound the u64 sums of the code are sums of naturals.                    *)
(***************************************************************************)
ASSUME SizesAssumption ==
  /\ WORD_SIZE \in Nat \ {0}
  /\ N_WORDS \in Nat \ {0}
  /\ MaxCounter \in Nat

N_BITS == WORD_SIZE * N_WORDS

Counters == 0..MaxCounter
NoPacket == -1

VARIABLES
  next,          \* the highest counter marked so far, plus one
  receive_cnt,   \* number of packets marked
  bitmap,        \* the bits that are 1, a subset of 0 .. N_BITS - 1
  opening,       \* opening[t]: the counter of the packet t decrypts, or NoPacket
  delivered,     \* history: the counters whose packets were returned as Ok
  verdict        \* history: the result of the last packet that was judged

vars == <<next, receive_cnt, bitmap, opening, delivered, verdict>>

(***************************************************************************)
(* ReceivingKeyCounterValidator                                            *)
(***************************************************************************)
Bit(idx) == idx % N_BITS

set_bit(bm, idx) == bm \union {Bit(idx)}

check_bit(bm, idx) == Bit(idx) \in bm

\* The bits of the word that holds idx: what clear_word zeroes.
WordOf(idx) == {b \in 0..N_BITS - 1 : b \div WORD_SIZE = Bit(idx) \div WORD_SIZE}

\* Mutant: the window is one counter too short.
TooFarBack_OffByOne(counter) == counter + N_BITS <= next

TooFarBack(counter) == counter + N_BITS < next

will_accept(counter) ==
  \/ counter >= next
  \/ ~TooFarBack(counter) /\ ~check_bit(bitmap, counter)

(***************************************************************************)
(* The three loops that clear the bits of the counters first .. last - 1   *)
(* that were skipped.  The first clears single bits up to a word boundary, *)
(* the second whole words while more than one word is left, the third the  *)
(* bits that remain.  headEnd and wordsEnd are the values of i at which    *)
(* the first and the second loop stop.                                     *)
(***************************************************************************)
AlignUp(i) == ((i + WORD_SIZE - 1) \div WORD_SIZE) * WORD_SIZE
AlignDown(i) == (i \div WORD_SIZE) * WORD_SIZE

headEnd(first, last) == IF AlignUp(first) < last THEN AlignUp(first) ELSE last

wordsEnd(first, last) ==
  LET i == headEnd(first, last)
  IN  IF i + WORD_SIZE < last THEN AlignDown(last - 1) ELSE i

ClearedBits(first, last) ==
  LET i == headEnd(first, last)
      j == wordsEnd(first, last)
  IN  {Bit(c) : c \in first..(i - 1)}
      \union (UNION {WordOf(c) : c \in {k \in i..(j - 1) : k % WORD_SIZE = 0}})
      \union {Bit(c) : c \in j..(last - 1)}

\* Mutant: the bits left after the last whole word are not cleared.
ClearSkipped_NoTail(bm, first, last) ==
  IF last - first >= N_BITS THEN {} ELSE bm \ ClearedBits(first, wordsEnd(first, last))

ClearSkipped(bm, first, last) ==
  IF last - first >= N_BITS THEN {} ELSE bm \ ClearedBits(first, last)

\* Mutant: the check made before decryption is trusted after it.
Markable_TrustQuickCheck(counter) == ~TooFarBack(counter)

\* mark_did_receive succeeds on this counter.
Markable(counter) ==
  /\ ~TooFarBack(counter)
  /\ counter < next => ~check_bit(bitmap, counter)

\* What mark_did_receive writes when it succeeds.
mark_did_receive(counter) ==
  /\ bitmap' = IF counter <= next THEN set_bit(bitmap, counter)
               ELSE set_bit(ClearSkipped(bitmap, next, counter), counter)
  /\ next' = IF counter >= next THEN counter + 1 ELSE next

(***************************************************************************)
(* Session                                                                 *)
(***************************************************************************)
Init ==
  /\ next = 0
  /\ receive_cnt = 0
  /\ bitmap = {}
  /\ opening = [t \in Receivers |-> NoPacket]
  /\ delivered = {}
  /\ verdict = [counter |-> 0, ok |-> FALSE]

Judge(c, ok) == verdict' = [counter |-> c, ok |-> ok]

\* receiving_counter_quick_check lets the packet through to decryption.
QuickCheckPass(t, c) ==
  /\ opening[t] = NoPacket
  /\ will_accept(c)
  /\ opening' = [opening EXCEPT ![t] = c]
  /\ UNCHANGED <<next, receive_cnt, bitmap, delivered, verdict>>

\* receiving_counter_quick_check answers InvalidCounter.
QuickCheckFail(t, c) ==
  /\ opening[t] = NoPacket
  /\ ~will_accept(c)
  /\ Judge(c, FALSE)
  /\ UNCHANGED <<next, receive_cnt, bitmap, opening, delivered>>

\* open_in_place fails: the packet is not authentic, the window is not touched.
OpenFail(t) ==
  /\ opening[t] # NoPacket
  /\ opening' = [opening EXCEPT ![t] = NoPacket]
  /\ UNCHANGED <<next, receive_cnt, bitmap, delivered, verdict>>

\* open_in_place succeeds and receiving_counter_mark accepts the counter.
MarkOk(t) ==
  LET c == opening[t]
  IN  /\ c # NoPacket
      /\ Markable(c)
      /\ mark_did_receive(c)
      /\ receive_cnt' = receive_cnt + 1
      /\ delivered' = delivered \union {c}
      /\ Judge(c, TRUE)
      /\ opening' = [opening EXCEPT ![t] = NoPacket]

\* open_in_place succeeds and receiving_counter_mark answers InvalidCounter:
\* another thread marked the counter, or moved the window, in the meantime.
MarkFail(t) ==
  LET c == opening[t]
  IN  /\ c # NoPacket
      /\ ~Markable(c)
      /\ Judge(c, FALSE)
      /\ opening' = [opening EXCEPT ![t] = NoPacket]
      /\ UNCHANGED <<next, receive_cnt, bitmap, delivered>>

Next ==
  \E t \in Receivers :
    \/ \E c \in Counters : QuickCheckPass(t, c) \/ QuickCheckFail(t, c)
    \/ OpenFail(t)
    \/ MarkOk(t)
    \/ MarkFail(t)

Spec == Init /\ [][Next]_vars

(***************************************************************************)
(* Properties                                                              *)
(***************************************************************************)
\* Every variable stays in its type: in particular every bit is a bit of the
\* bitmap and next never passes MaxCounter + 1.
TypeOK ==
  /\ next \in 0..(MaxCounter + 1)
  /\ receive_cnt \in Nat
  /\ bitmap \in SUBSET (0..N_BITS - 1)
  /\ opening \in [Receivers -> Counters \union {NoPacket}]
  /\ delivered \in SUBSET Counters
  /\ verdict \in [counter : Counters, ok : BOOLEAN]

\* The counters the bitmap can still speak of.
InWindow(c) == c < next /\ c + N_BITS >= next

\* The bits that are 1 are those of the delivered counters of the window, and
\* no others: clearing the skipped counters, by bits and by whole words, drops
\* neither too little (a fresh packet would be refused as a replay) nor too
\* much (a replay would pass).
WindowExact == bitmap = {Bit(c) : c \in {d \in delivered : InWindow(d)}}

\* No counter is delivered twice: the number of packets marked is the number of
\* different counters delivered, although two threads may both pass the quick
\* check with copies of one packet.
AtMostOnce == receive_cnt = Cardinality(delivered)

\* next is one more than the largest delivered counter.
NextExact ==
  /\ \A c \in delivered : c < next
  /\ next > 0 => next - 1 \in delivered

\* The validator implements the sliding window it stands for: each answer,
\* Ok or InvalidCounter, is the one the set of accepted counters dictates.
Abstract == INSTANCE AntiReplay WITH
  Window <- N_BITS, accepted <- delivered

ImplementsAntiReplay == Abstract!Spec
=============================================================================
