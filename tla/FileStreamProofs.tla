-------------------------- MODULE FileStreamProofs --------------------------
(***************************************************************************)
(* What the readers rely on of a stream, whatever it holds and whichever   *)
(* calls fail, and facts about natural numbers that their proofs share.    *)
(***************************************************************************)
EXTENDS FileStream, WellFoundedInduction, TLAPS

(* A read moves the position by the bytes it delivers, which are in the    *)
(* file; it says why it delivers fewer than asked; and it never clears the *)
(* error indicator.                                                        *)
LEMMA FreadFacts ==
  ASSUME NEW s \in Stream, NEW size \in Nat, NEW count \in Nat, NEW faults \in Nat,
         NEW r \in fread(s, size, count, faults)
  PROVE  /\ r.stream \in Stream
         /\ r.nr \in 0 .. count
         /\ r.stream.pos = s.pos + r.nr
         /\ r.nr > 0 => r.stream.pos <= size
         /\ r.nr < count => feof(r.stream) \/ ferror(r.stream)
         /\ ferror(s) => ferror(r.stream)
         /\ r.fault \in Nat /\ r.fault <= faults
<1>1. CASE r = CleanRead(s, size, count)
  BY <1>1 DEF CleanRead, Available, Stream, feof, ferror, Stopped
<1>2. CASE \E n \in ShortReads : /\ faults > 0 /\ n < count /\ n <= Available(s, size)
                                 /\ r = FailedRead(s, n)
  <2>1. PICK n \in ShortReads : /\ faults > 0 /\ n < count /\ n <= Available(s, size)
                                /\ r = FailedRead(s, n)
    BY <1>2
  <2>2. n \in Nat
    BY FileStreamAssumption
  <2>. QED
    BY <2>1, <2>2 DEF FailedRead, Available, Stream, feof, ferror
<1>. QED
  BY <1>1, <1>2 DEF fread

(* A stream is repositioned where it is asked, or not at all, and keeps    *)
(* its error indicator.                                                    *)
LEMMA FsetposFacts ==
  ASSUME NEW s \in Stream, NEW offset \in Nat, NEW faults \in Nat,
         NEW p \in fsetpos(s, offset, faults)
  PROVE  /\ p.stream \in Stream
         /\ ferror(s) => ferror(p.stream)
         /\ p.fault \in Nat /\ p.fault <= faults
         /\ p.rc \in {-1, 0}
         /\ p.rc = 0 => p.stream.pos = offset
         /\ p.rc # 0 => p.stream = s
<1>1. CASE p = Positioned(s, offset)
  BY <1>1 DEF Positioned, Stream, ferror
<1>2. CASE \E n \in 0 .. faults : p = Refused(s, n)
  BY <1>2 DEF Refused
<1>. QED
  BY <1>1, <1>2 DEF fsetpos

(* A read without a fault delivers what is asked, or what is left and then *)
(* says that the file has ended; a read with a fault sets the error        *)
(* indicator.                                                              *)
LEMMA FreadOutcomes ==
  ASSUME NEW s \in Stream, NEW size \in Nat, NEW count \in Nat, NEW faults \in Nat,
         NEW r \in fread(s, size, count, faults)
  PROVE  \/ /\ r.fault = 0
            /\ ferror(r.stream) <=> ferror(s)
            /\ r.nr = IF count <= Available(s, size) THEN count ELSE Available(s, size)
            /\ feof(r.stream) <=> feof(s) \/ r.nr < count
         \/ /\ r.fault = 1 /\ ferror(r.stream)
            /\ r.nr <= Available(s, size) /\ r.nr < count
            /\ feof(r.stream) <=> feof(s)
<1>1. CASE r = CleanRead(s, size, count)
  BY <1>1 DEF CleanRead, feof, ferror, Stopped
<1>2. CASE \E n \in ShortReads : n < count /\ n <= Available(s, size) /\ r = FailedRead(s, n)
  BY <1>2 DEF FailedRead, feof, ferror
<1>. QED
  BY <1>1, <1>2 DEF fread

(* A stream is repositioned at the cost of no fault, which clears the      *)
(* end-of-file indicator only, or not at all at the cost of one.           *)
LEMMA FsetposOutcomes ==
  ASSUME NEW s \in Stream, NEW offset \in Nat, NEW faults \in Nat, offset <= LongMax,
         NEW p \in fsetpos(s, offset, faults)
  PROVE  \/ /\ p.rc = 0 /\ p.fault = 0
            /\ p.stream.pos = offset /\ ~feof(p.stream)
            /\ ferror(p.stream) <=> ferror(s)
         \/ /\ p.rc = -1 /\ p.fault = 1 /\ faults >= 1
            /\ p.stream = s
<1>1. CASE p = Positioned(s, offset)
  BY <1>1 DEF Positioned, feof, ferror
<1>2. CASE 1 \in 0 .. faults /\ p = Refused(s, 1)
  BY <1>2 DEF Refused
<1>3. p = Positioned(s, offset) \/ \E n \in {1} \cap 0 .. faults : p = Refused(s, n)
  BY FileStreamAssumption DEF fsetpos
<1>. QED
  BY <1>1, <1>2, <1>3

-----------------------------------------------------------------------------
(* The least number principle for a set instead of for a predicate: it is  *)
(* how these proofs argue by induction.                                    *)
LEMMA LeastNumber ==
  ASSUME NEW S \in SUBSET Nat, S # {}
  PROVE  \E least \in S : \A k \in S : least <= k
<1>1. PICK least \in S : \A k \in S : <<k, least>> \notin OpToRel(<, Nat)
  BY NatLessThanWellFounded, WFMin, Zenon
<1>2. \A k \in S : ~(k < least)
  BY <1>1 DEF OpToRel
<1>. QED
  BY <1>2

(* Multiples are ordered as what they are multiples of.                    *)
LEMMA ProductOrder ==
  ASSUME NEW n \in Nat, NEW a \in Int, NEW b \in Int, a <= b
  PROVE  a * n \in Int /\ b * n \in Int /\ a * n <= b * n
BY SMT

(* What is left of a number that lies between two multiples.               *)
LEMMA RemainderOfMultiple ==
  ASSUME NEW n \in Nat \ {0}, NEW a \in Nat, NEW d \in 0 .. n - 1
  PROVE  (a * n + d) % n = d
<1>. DEFINE q == (a * n + d) \div n
            m == (a * n + d) % n
<1>1. a * n \in Nat
  OBVIOUS
<1>2. a * n + d = q * n + m /\ m \in 0 .. n - 1 /\ q \in Int
  BY <1>1
<1>. QED
  OBVIOUS
=============================================================================
