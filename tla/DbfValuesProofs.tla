--------------------------- MODULE DbfValuesProofs ---------------------------
(***************************************************************************)
(* Proofs of the properties of MCDbfValues, for every record of the given  *)
(* texts, every number of bytes and every day from the known ones on.      *)
(***************************************************************************)
EXTENDS MCDbfValues, SequenceTheorems, WellFoundedInduction, TLAPS

-----------------------------------------------------------------------------
(* Texts: the bytes of a field and where a text begins and ends.           *)

(* The least number principle for a set instead of for a predicate: it is  *)
(* how these proofs argue by induction.                                    *)
LEMMA LeastNumber ==
  ASSUME NEW S \in SUBSET Nat, S # {}
  PROVE  \E least \in S : \A k \in S : least <= k
<1>1. PICK least \in S : \A k \in S : <<k, least>> \notin OpToRel(<, Nat)
  BY NatLessThanWellFounded, WFMin, Zenon
<1>2. \A k \in S : ~(k < least)
  BY <1>1 DEF OpToRel
<1>. QED
  BY <1>2

(* A set of positions has a first and a last one.                          *)
LEMMA FirstAndLast ==
  ASSUME NEW n \in Nat, NEW S \in SUBSET (1 .. n), S # {}
  PROVE  /\ \E i \in S : \A j \in S : i <= j
         /\ \E i \in S : \A j \in S : j <= i
<1>1. \E i \in S : \A j \in S : i <= j
  <2>1. S \in SUBSET Nat
    OBVIOUS
  <2>. QED
    BY <2>1, LeastNumber
<1>2. \E i \in S : \A j \in S : j <= i
  <2>. DEFINE T == {n - i : i \in S}
  <2>1. T \in SUBSET Nat /\ T # {}
    <3>1. \A i \in S : n - i \in Nat
      OBVIOUS
    <3>2. PICK i \in S : TRUE
      OBVIOUS
    <3>3. n - i \in T
      OBVIOUS
    <3>. QED
      BY <3>1, <3>3
  <2>2. PICK t \in T : \A k \in T : t <= k
    <3>. HIDE DEF T
    <3>. QED
      BY <2>1, LeastNumber
  <2>3. PICK i \in S : t = n - i
    OBVIOUS
  <2>4. \A j \in S : n - i <= n - j
    BY <2>2, <2>3
  <2>5. ASSUME NEW j \in S PROVE j <= i
    <3>1. n - i <= n - j
      BY <2>4
    <3>2. i \in Int /\ j \in Int
      OBVIOUS
    <3>. HIDE DEF T
    <3>. QED
      BY <3>1, <3>2
  <2>. QED
    BY <2>5
<1>. QED
  BY <1>1, <1>2

Byte == 0 .. 255

(* The bytes of a field.                                                   *)
LEMMA FieldBytes ==
  ASSUME record \in Seq(Byte), NEW type, NEW f \in FieldsOf(type)
  PROVE  /\ f.type = type
         /\ f.size \in Nat /\ f.offset \in 1 .. 2 /\ f.offset + f.size <= Len(record)
         /\ get_bytes_readonly(record, f) \in Seq(Byte)
         /\ Len(get_bytes_readonly(record, f)) = f.size
<1>1. /\ f.type = type /\ f.size \in Int /\ f.size >= 0 /\ f.offset \in 1 .. 2
      /\ f.offset + f.size <= Len(record)
  BY DEF FieldsOf
<1>. QED
  BY <1>1 DEF get_bytes_readonly

(* The position of the last and the first byte that is no space.           *)
LastByte(s) ==
  LET others == {i \in DOMAIN s : s[i] # Space}
  IN  IF others = {} THEN 0 ELSE CHOOSE i \in others : \A j \in others : j <= i

FirstByte(s) ==
  LET others == {i \in DOMAIN s : s[i] # Space}
  IN  IF others = {} THEN Len(s) + 1 ELSE CHOOSE i \in others : \A j \in others : i <= j

(* The last byte of a text that is no space.                               *)
LEMMA LastByteFacts ==
  ASSUME NEW s \in Seq(Byte)
  PROVE  /\ LastByte(s) \in 0 .. Len(s)
         /\ LastByte(s) # 0 => s[LastByte(s)] # Space
         /\ \A i \in 1 .. Len(s) : i > LastByte(s) => s[i] = Space
<1>. DEFINE others == {i \in DOMAIN s : s[i] # Space}
<1>1. others \in SUBSET (1 .. Len(s)) /\ Len(s) \in Nat
  OBVIOUS
<1>2. CASE others = {}
  <2>1. LastByte(s) = 0
    BY <1>2 DEF LastByte
  <2>2. \A i \in 1 .. Len(s) : s[i] = Space
    BY <1>2
  <2>. QED
    BY <1>1, <2>1, <2>2
<1>3. CASE others # {}
  <2>1. \E i \in others : \A j \in others : j <= i
    <3>. HIDE DEF others
    <3>. QED
      BY <1>1, <1>3, FirstAndLast
  <2>2. LastByte(s) = CHOOSE i \in others : \A j \in others : j <= i
    BY <1>3 DEF LastByte
  <2>3. LastByte(s) \in others /\ \A j \in others : j <= LastByte(s)
    BY <2>1, <2>2
  <2>. QED
    BY <1>1, <2>3
<1>. QED
  BY <1>2, <1>3

(* The first byte of a text that is no space.                              *)
LEMMA FirstByteFacts ==
  ASSUME NEW s \in Seq(Byte)
  PROVE  /\ FirstByte(s) \in 1 .. Len(s) + 1
         /\ FirstByte(s) # Len(s) + 1 => s[FirstByte(s)] # Space
         /\ \A i \in 1 .. Len(s) : i < FirstByte(s) => s[i] = Space
<1>. DEFINE others == {i \in DOMAIN s : s[i] # Space}
<1>1. others \in SUBSET (1 .. Len(s)) /\ Len(s) \in Nat
  OBVIOUS
<1>2. CASE others = {}
  <2>1. FirstByte(s) = Len(s) + 1
    BY <1>2 DEF FirstByte
  <2>2. \A i \in 1 .. Len(s) : s[i] = Space
    BY <1>2
  <2>. QED
    BY <1>1, <2>1, <2>2
<1>3. CASE others # {}
  <2>1. \E i \in others : \A j \in others : i <= j
    <3>. HIDE DEF others
    <3>. QED
      BY <1>1, <1>3, FirstAndLast
  <2>2. FirstByte(s) = CHOOSE i \in others : \A j \in others : i <= j
    BY <1>3 DEF FirstByte
  <2>3. FirstByte(s) \in others /\ \A j \in others : FirstByte(s) <= j
    BY <2>1, <2>2
  <2>. QED
    BY <1>1, <2>3
<1>. QED
  BY <1>2, <1>3

(* A string ends before its first terminator.                              *)
LEMMA CStringFacts ==
  ASSUME NEW s \in Seq(Byte)
  PROVE  \E n \in 0 .. Len(s) : /\ CString(s) = SubSeq(s, 1, n)
                                /\ \A i \in 1 .. n : s[i] # NUL
                                /\ n < Len(s) => s[n + 1] = NUL
<1>. DEFINE ends == {i \in DOMAIN s : s[i] = NUL}
<1>1. ends \in SUBSET (1 .. Len(s)) /\ Len(s) \in Nat
  OBVIOUS
<1>2. CASE ends = {}
  <2>1. CString(s) = SubSeq(s, 1, Len(s))
    BY <1>2 DEF CString
  <2>2. \A i \in 1 .. Len(s) : s[i] # NUL
    BY <1>2
  <2>3. Len(s) \in 0 .. Len(s) /\ ~(Len(s) < Len(s))
    BY <1>1
  <2>. HIDE DEF ends
  <2>. QED
    BY <2>1, <2>2, <2>3
<1>3. CASE ends # {}
  <2>. DEFINE first == CHOOSE i \in ends : \A j \in ends : i <= j
  <2>1. \E i \in ends : \A j \in ends : i <= j
    <3>. HIDE DEF ends
    <3>. QED
      BY <1>1, <1>3, FirstAndLast
  <2>2. CString(s) = SubSeq(s, 1, first - 1)
    BY <1>3 DEF CString
  <2>3. first \in ends /\ \A j \in ends : first <= j
    BY <2>1
  <2>. HIDE DEF first
  <2>4. PICK n \in 0 .. Len(s) : n = first - 1
    BY <1>1, <2>3
  <2>5. s[n + 1] = NUL /\ \A i \in 1 .. n : s[i] # NUL
    BY <1>1, <2>3, <2>4
  <2>6. CString(s) = SubSeq(s, 1, n)
    BY <2>2, <2>4
  <2>. HIDE DEF ends
  <2>. QED
    BY <2>5, <2>6
<1>. QED
  BY <1>2, <1>3

(* A string is what precedes its first terminator, wherever that is.       *)
LEMMA CStringIsPrefix ==
  ASSUME NEW s \in Seq(Byte), NEW n \in 0 .. Len(s),
         \A i \in 1 .. n : s[i] # NUL, n < Len(s) => s[n + 1] = NUL
  PROVE  CString(s) = SubSeq(s, 1, n)
<1>1. PICK m \in 0 .. Len(s) : /\ CString(s) = SubSeq(s, 1, m)
                               /\ \A i \in 1 .. m : s[i] # NUL
                               /\ m < Len(s) => s[m + 1] = NUL
  BY CStringFacts
<1>2. Len(s) \in Nat
  OBVIOUS
<1>3. ~(m < n)
  BY <1>1, <1>2
<1>4. ~(n < m)
  BY <1>1, <1>2
<1>5. m = n
  BY <1>2, <1>3, <1>4
<1>. QED
  BY <1>1, <1>5

-----------------------------------------------------------------------------
(* Recursive definitions.                                                  *)

(* The function that low, first and G define recursively.                  *)
IsRecursive(f, low, n, V, first, G) ==
  /\ f \in [low .. n -> V]
  /\ \A k \in low .. n : f[k] = IF k = low THEN first ELSE G[k][f[k - 1]]

(* A recursive definition defines a function: the first value is given,    *)
(* and every other by the one before it.                                   *)
LEMMA Recursion ==
  ASSUME NEW low \in Nat, NEW n \in Nat, NEW V, NEW first \in V,
         NEW G \in [low + 1 .. n -> [V -> V]]
  PROVE  \E f : IsRecursive(f, low, n, V, first, G)
<1>. DEFINE Defines(f, m) == \A k \in low .. m : f[k] = IF k = low THEN first ELSE G[k][f[k - 1]]
            Missing == {m \in Nat : m <= n /\ ~\E f \in [low .. m -> V] : Defines(f, m)}
<1>1. SUFFICES ASSUME Missing # {}
               PROVE  FALSE
  BY DEF Missing, IsRecursive
<1>2. PICK m \in Missing : \A l \in Missing : m <= l
  <2>1. Missing \in SUBSET Nat
    OBVIOUS
  <2>. HIDE DEF Missing
  <2>. QED
    BY <1>1, <2>1, LeastNumber, Zenon
<1>3. m \in Nat /\ m <= n /\ ~\E f \in [low .. m -> V] : Defines(f, m)
  BY <1>2
<1>4. CASE m < low
  <2>1. low .. m = {}
    BY <1>3, <1>4
  <2>. DEFINE f == [k \in low .. m |-> first]
  <2>2. f \in [low .. m -> V]
    OBVIOUS
  <2>3. Defines(f, m)
    BY <2>1
  <2>. QED
    BY <1>3, <2>2, <2>3
<1>5. CASE m = low
  <2>. DEFINE f == [k \in low .. m |-> first]
  <2>1. f \in [low .. m -> V]
    OBVIOUS
  <2>2. \A k \in low .. m : k = low
    BY <1>5
  <2>3. Defines(f, m)
    BY <2>2
  <2>. QED
    BY <1>3, <2>1, <2>3
<1>6. CASE m > low
  <2>1. m - 1 \in Nat /\ m - 1 \notin Missing /\ m - 1 <= n
    <3>. HIDE DEF Missing, Defines
    <3>1. m - 1 \in Nat /\ m - 1 <= n /\ ~(m <= m - 1)
      BY <1>3, <1>6
    <3>. QED
      BY <1>2, <3>1, Zenon
  <2>2. PICK f \in [low .. m - 1 -> V] : Defines(f, m - 1)
    BY <2>1
  <2>3. /\ m \in low + 1 .. n /\ m - 1 \in low .. m - 1 /\ m \notin low .. m - 1
        /\ \A k \in low .. m : k = m \/ k \in low .. m - 1
        /\ \A k \in low .. m : k # low => k - 1 \in low .. m - 1
        /\ \A k \in low .. m - 1 : k \in low .. m
    BY <1>3, <1>6
  <2>. DEFINE next == G[m][f[m - 1]]
              g == [k \in low .. m |-> IF k = m THEN next ELSE f[k]]
  <2>4. next \in V
    BY <2>3
  <2>5. g \in [low .. m -> V]
    <3>. HIDE DEF next
    <3>. QED
      BY <2>3, <2>4
  <2>6. /\ \A k \in low .. m - 1 : g[k] = f[k]
        /\ m \in low .. m /\ g[m] = G[m][f[m - 1]]
    BY <1>3, <1>6, <2>3
  <2>7. Defines(g, m)
    <3>1. SUFFICES ASSUME NEW k \in low .. m
                   PROVE  g[k] = IF k = low THEN first ELSE G[k][g[k - 1]]
      BY DEF Defines
    <3>2. CASE k = m
      <4>1. k # low /\ g[k - 1] = f[k - 1]
        BY <1>6, <2>3, <2>6, <3>2
      <4>. QED
        BY <2>6, <3>2, <4>1
    <3>3. CASE k \in low .. m - 1
      <4>1. g[k] = f[k] /\ (k # low => g[k - 1] = f[k - 1])
        BY <2>3, <2>6, <3>3
      <4>2. f[k] = IF k = low THEN first ELSE G[k][f[k - 1]]
        BY <2>2, <3>3
      <4>. QED
        BY <4>1, <4>2
    <3>. QED
      BY <2>3, <3>2, <3>3
  <2>. QED
    BY <1>3, <2>5, <2>7
<1>. QED
  BY <1>3, <1>4, <1>5, <1>6

-----------------------------------------------------------------------------
(* Strings without the spaces around them.                                 *)

(* A loop that counts n down while what it meets is in S ends at the last  *)
(* number that is not.                                                     *)
LoopEnd(length, size, S) ==
  \A n \in 0 .. size : length[n] = IF n > 0 /\ n \in S THEN length[n - 1] ELSE n

LEMMA LoopsEnd ==
  ASSUME NEW size \in Nat, NEW S
  PROVE  /\ \E g : g = [n \in 0 .. size |-> IF n > 0 /\ n \in S THEN g[n - 1] ELSE n]
         /\ \A g : LoopEnd(g, size, S) =>
              /\ g[size] \in 0 .. size /\ (g[size] \notin S \/ g[size] = 0)
              /\ \A i \in 1 .. size : i > g[size] => i \in S
<1>1. \E g : g = [n \in 0 .. size |-> IF n > 0 /\ n \in S THEN g[n - 1] ELSE n]
  <2>. DEFINE G == [n \in 0 + 1 .. size |-> [v \in Nat |-> IF n \in S THEN v ELSE n]]
  <2>1. G \in [0 + 1 .. size -> [Nat -> Nat]]
    OBVIOUS
  <2>2. PICK g : IsRecursive(g, 0, size, Nat, 0, G)
    <3>. HIDE DEF G
    <3>. QED
      BY <2>1, Recursion
  <2>3. g \in [0 .. size -> Nat] /\ \A n \in 0 .. size : g[n] = IF n = 0 THEN 0 ELSE G[n][g[n - 1]]
    BY <2>2 DEF IsRecursive
  <2>4. ASSUME NEW n \in 0 .. size
        PROVE  g[n] = IF n > 0 /\ n \in S THEN g[n - 1] ELSE n
    <3>1. CASE n = 0
      <4>. HIDE DEF G
      <4>1. ~(n > 0) /\ g[n] = 0
        BY <2>3, <3>1
      <4>. QED
        BY <3>1, <4>1
    <3>2. CASE n # 0
      <4>1. n \in 0 + 1 .. size /\ n - 1 \in 0 .. size /\ n > 0
        BY <3>2
      <4>2. g[n - 1] \in Nat
        BY <2>3, <4>1
      <4>3. G[n][g[n - 1]] = IF n \in S THEN g[n - 1] ELSE n
        BY <4>1, <4>2
      <4>. HIDE DEF G
      <4>. QED
        BY <2>3, <3>2, <4>1, <4>3
    <3>. QED
      BY <3>1, <3>2
  <2>5. g = [n \in 0 .. size |-> g[n]]
    BY <2>3
  <2>6. g = [n \in 0 .. size |-> IF n > 0 /\ n \in S THEN g[n - 1] ELSE n]
    <3>. HIDE DEF G
    <3>. QED
      BY <2>4, <2>5
  <2>. QED
    BY <2>6
<1>2. ASSUME NEW g, LoopEnd(g, size, S)
      PROVE  /\ g[size] \in 0 .. size /\ (g[size] \notin S \/ g[size] = 0)
             /\ \A i \in 1 .. size : i > g[size] => i \in S
  <2>. DEFINE Ends(n) == /\ g[n] \in 0 .. n /\ (g[n] \notin S \/ g[n] = 0)
                         /\ \A i \in 1 .. n : i > g[n] => i \in S
              Wrong == {n \in 0 .. size : ~Ends(n)}
  <2>1. SUFFICES ASSUME Wrong # {}
                 PROVE  FALSE
    BY DEF Ends
  <2>2. PICK n \in Wrong : \A k \in Wrong : n <= k
    <3>1. Wrong \in SUBSET Nat
      OBVIOUS
    <3>. HIDE DEF Wrong
    <3>. QED
      BY <2>1, <3>1, LeastNumber
  <2>3. n \in 0 .. size /\ ~Ends(n)
    BY <2>2
  <2>4. g[n] = IF n > 0 /\ n \in S THEN g[n - 1] ELSE n
    BY <1>2, <2>3 DEF LoopEnd
  <2>5. CASE n > 0 /\ n \in S
    <3>1. n - 1 \in 0 .. size /\ n - 1 \notin Wrong
      BY <2>2, <2>3, <2>5
    <3>2. Ends(n - 1)
      BY <3>1
    <3>3. g[n] = g[n - 1]
      BY <2>4, <2>5
    <3>4. g[n] \in 0 .. n /\ (g[n] \notin S \/ g[n] = 0)
      BY <2>3, <2>5, <3>2, <3>3
    <3>5. \A i \in 1 .. n : i > g[n] => i \in S
      <4>1. \A i \in 1 .. n : i = n \/ i \in 1 .. n - 1
        BY <2>3
      <4>. QED
        BY <2>5, <3>2, <3>3, <4>1
    <3>. QED
      BY <2>3, <3>4, <3>5
  <2>6. CASE ~(n > 0 /\ n \in S)
    <3>1. g[n] = n
      BY <2>4, <2>6
    <3>2. Ends(n)
      BY <2>3, <2>6, <3>1
    <3>. QED
      BY <2>3, <3>2
  <2>. QED
    BY <2>5, <2>6
<1>. QED
  BY <1>1, <1>2

(* A part of a sequence, and the parts of that part.                       *)
LEMMA Slice ==
  ASSUME NEW r \in Seq(Byte), NEW start \in Nat, NEW size \in Nat, start + size <= Len(r),
         NEW s, s = SubSeq(r, start + 1, start + size)
  PROVE  /\ s \in Seq(Byte) /\ Len(s) = size
         /\ \A i \in 1 .. size : s[i] = r[start + i]
         /\ \A i \in 1 .. size + 1, j \in 0 .. size :
              SubSeq(s, i, j) = SubSeq(r, start + i, start + j)
<1>1. s \in Seq(Byte) /\ Len(s) = size
  OBVIOUS
<1>2. \A i \in 1 .. size : s[i] = r[start + i]
  OBVIOUS
<1>3. ASSUME NEW i \in 1 .. size + 1, NEW j \in 0 .. size
      PROVE  SubSeq(s, i, j) = SubSeq(r, start + i, start + j)
  OBVIOUS
<1>. QED
  BY <1>1, <1>2, <1>3

(* A text and the spaces behind it.                                        *)
LEMMA Padding ==
  ASSUME NEW t \in Seq(Byte), NEW size \in Nat, Len(t) <= size
  PROVE  /\ \A i \in 1 .. Len(t) : Padded(t, size)[i] = t[i]
         /\ \A i \in 1 .. size : i > Len(t) => Padded(t, size)[i] = Space
<1>. DEFINE k == size - Len(t)
            spaces == [i \in 1 .. k |-> Space]
<1>1. k \in Nat /\ Len(t) \in Nat /\ Len(t) + k = size /\ Padded(t, size) = t \o spaces
  BY DEF Padded
<1>. HIDE DEF k
<1>2. spaces \in Seq(Byte) /\ Len(spaces) = k /\ \A i \in 1 .. k : spaces[i] = Space
  BY <1>1 DEF Byte, Space
<1>. HIDE DEF spaces
<1>3. \A i \in 1 .. Len(t) + k : Padded(t, size)[i] = IF i <= Len(t) THEN t[i] ELSE spaces[i - Len(t)]
  BY <1>1, <1>2, ConcatProperties
<1>. QED
  BY <1>1, <1>2, <1>3

(* A terminator at the end ends the string where it ended anyway.          *)
LEMMA Terminated ==
  ASSUME NEW t \in Seq(Byte)
  PROVE  CString(Append(t, NUL)) = CString(t)
<1>. DEFINE u == Append(t, NUL)
<1>1. u \in Seq(Byte) /\ Len(u) = Len(t) + 1 /\ u[Len(t) + 1] = NUL /\ \A i \in 1 .. Len(t) : u[i] = t[i]
  BY DEF Byte, NUL
<1>2. PICK n \in 0 .. Len(t) : /\ CString(t) = SubSeq(t, 1, n)
                               /\ \A i \in 1 .. n : t[i] # NUL
                               /\ n < Len(t) => t[n + 1] = NUL
  BY CStringFacts
<1>3. n \in 0 .. Len(u) /\ u[n + 1] = NUL /\ \A i \in 1 .. n : u[i] # NUL
  BY <1>1, <1>2
<1>4. CString(u) = SubSeq(u, 1, n)
  <2>. HIDE DEF u
  <2>. QED
    BY <1>1, <1>3, CStringIsPrefix
<1>5. SubSeq(u, 1, n) = SubSeq(t, 1, n)
  BY <1>1, <1>2
<1>. QED
  BY <1>2, <1>4, <1>5

(* A text has one last byte, and one first, that is no space.              *)
LEMMA LastByteIs ==
  ASSUME NEW s \in Seq(Byte), NEW n \in 0 .. Len(s),
         n # 0 => s[n] # Space, \A i \in 1 .. Len(s) : i > n => s[i] = Space
  PROVE  LastByte(s) = n
<1>. DEFINE last == LastByte(s)
<1>1. /\ last \in 0 .. Len(s) /\ (last # 0 => s[last] # Space)
      /\ \A i \in 1 .. Len(s) : i > last => s[i] = Space
  BY LastByteFacts
<1>2. Len(s) \in Nat
  OBVIOUS
<1>. HIDE DEF last
<1>3. ~(last < n) /\ ~(n < last)
  BY <1>1, <1>2
<1>4. last = n
  BY <1>1, <1>2, <1>3
<1>. QED
  BY <1>4 DEF last

LEMMA FirstByteIs ==
  ASSUME NEW s \in Seq(Byte), NEW n \in 1 .. Len(s) + 1,
         n # Len(s) + 1 => s[n] # Space, \A i \in 1 .. Len(s) : i < n => s[i] = Space
  PROVE  FirstByte(s) = n
<1>. DEFINE first == FirstByte(s)
<1>1. /\ first \in 1 .. Len(s) + 1 /\ (first # Len(s) + 1 => s[first] # Space)
      /\ \A i \in 1 .. Len(s) : i < first => s[i] = Space
  BY FirstByteFacts
<1>2. Len(s) \in Nat
  OBVIOUS
<1>. HIDE DEF first
<1>3. ~(first < n)
  BY <1>1, <1>2
<1>4. ~(n < first)
  BY <1>1, <1>2
<1>5. first = n
  BY <1>1, <1>2, <1>3, <1>4
<1>. QED
  BY <1>5 DEF first

(* The loop from behind ends at the last byte that is no space.            *)
LEMMA LeftJustified ==
  ASSUME record \in Seq(Byte), NEW type, NEW f \in FieldsOf(type),
         NEW s, s = get_bytes_readonly(record, f)
  PROVE  get_left_justified_string(record, f) = SubSeq(s, 1, LastByte(s))
<1>1. /\ f.size \in Nat /\ f.offset \in 1 .. 2 /\ f.offset + f.size <= Len(record)
      /\ s \in Seq(Byte) /\ Len(s) = f.size
  BY FieldBytes
<1>. DEFINE spaces == {n \in 1 .. f.size : record[f.offset + n] = Space}
            Body(g) == [n \in 0 .. f.size |->
                          IF n > 0 /\ record[f.offset + n] = Space THEN g[n - 1] ELSE n]
            length == CHOOSE g : g = Body(g)
<1>2. /\ \A i \in 1 .. f.size : s[i] = record[f.offset + i]
      /\ \A i \in 1 .. f.size + 1, j \in 0 .. f.size :
           SubSeq(s, i, j) = SubSeq(record, f.offset + i, f.offset + j)
  <2>1. f.offset \in Nat /\ f.size \in Nat /\ f.offset + f.size <= Len(record)
    BY <1>1
  <2>2. s = SubSeq(record, f.offset + 1, f.offset + f.size)
    BY DEF get_bytes_readonly
  <2>3. PICK start \in Nat, size \in Nat : start = f.offset /\ size = f.size
    BY <2>1
  <2>4. start + size <= Len(record) /\ s = SubSeq(record, start + 1, start + size)
    BY <2>1, <2>2, <2>3
  <2>5. /\ \A i \in 1 .. size : s[i] = record[start + i]
        /\ \A i \in 1 .. size + 1, j \in 0 .. size :
             SubSeq(s, i, j) = SubSeq(record, start + i, start + j)
    BY <2>4, Slice
  <2>. QED
    BY <2>3, <2>5
<1>3. length = Body(length)
  <2>1. PICK g : g = [n \in 0 .. f.size |-> IF n > 0 /\ n \in spaces THEN g[n - 1] ELSE n]
    <3>. HIDE DEF spaces
    <3>. QED
      BY <1>1, LoopsEnd
  <2>2. \A n \in 0 .. f.size : n > 0 /\ n \in spaces <=> n > 0 /\ record[f.offset + n] = Space
    BY <1>1
  <2>3. g = Body(g)
    <3>. HIDE DEF spaces
    <3>. QED
      BY <2>1, <2>2
  <2>. HIDE DEF Body
  <2>. QED
    BY <2>3
<1>4. get_left_justified_string(record, f) = SubSeq(record, f.offset + 1, f.offset + length[f.size])
  BY DEF get_left_justified_string
<1>. HIDE DEF length
<1>5. LoopEnd(length, f.size, spaces)
  <2>1. \A n \in 0 .. f.size : n > 0 /\ n \in spaces <=> n > 0 /\ record[f.offset + n] = Space
    BY <1>1
  <2>2. \A n \in 0 .. f.size :
          length[n] = IF n > 0 /\ record[f.offset + n] = Space THEN length[n - 1] ELSE n
    BY <1>3
  <2>. HIDE DEF spaces, Body
  <2>. QED
    BY <2>1, <2>2 DEF LoopEnd
<1>. DEFINE last == length[f.size]
<1>6. /\ last \in 0 .. f.size /\ (last \notin spaces \/ last = 0)
      /\ \A i \in 1 .. f.size : i > last => i \in spaces
  <2>. HIDE DEF spaces, Body
  <2>. QED
    BY <1>1, <1>5, LoopsEnd
<1>. HIDE DEF last
<1>7. LastByte(s) = last
  <2>1. last # 0 => s[last] # Space
    BY <1>1, <1>2, <1>6
  <2>2. \A i \in 1 .. Len(s) : i > last => s[i] = Space
    BY <1>1, <1>2, <1>6
  <2>3. last \in 0 .. Len(s)
    BY <1>1, <1>6
  <2>. QED
    BY <1>1, <2>1, <2>2, <2>3, LastByteIs
<1>8. SubSeq(s, 1, last) = SubSeq(record, f.offset + 1, f.offset + last)
  <2>1. 1 \in 1 .. f.size + 1
    BY <1>1
  <2>. QED
    BY <1>2, <1>6, <2>1
<1>. QED
  BY <1>4, <1>7, <1>8 DEF last

(* The loop from the front ends at the first byte that is no space.        *)
LEMMA RightJustifiedString ==
  ASSUME record \in Seq(Byte), NEW type, NEW f \in FieldsOf(type),
         NEW s, s = get_bytes_readonly(record, f)
  PROVE  get_right_justified_string(record, f) = SubSeq(s, FirstByte(s), Len(s))
<1>1. /\ f.size \in Nat /\ f.offset \in 1 .. 2 /\ f.offset + f.size <= Len(record)
      /\ s \in Seq(Byte) /\ Len(s) = f.size /\ Len(record) \in Nat
  BY FieldBytes
<1>. DEFINE end == f.offset + f.size
            spaces == {n \in 1 .. f.size : record[end - n + 1] = Space}
            Body(g) == [n \in 0 .. f.size |->
                          IF n > 0 /\ record[end - n + 1] = Space THEN g[n - 1] ELSE n]
            length == CHOOSE g : g = Body(g)
<1>2. /\ \A i \in 1 .. f.size : s[i] = record[f.offset + i]
      /\ \A i \in 1 .. f.size + 1, j \in 0 .. f.size :
           SubSeq(s, i, j) = SubSeq(record, f.offset + i, f.offset + j)
  <2>1. f.offset \in Nat /\ f.size \in Nat /\ f.offset + f.size <= Len(record)
    BY <1>1
  <2>2. s = SubSeq(record, f.offset + 1, f.offset + f.size)
    BY DEF get_bytes_readonly
  <2>3. PICK start \in Nat, size \in Nat : start = f.offset /\ size = f.size
    BY <2>1
  <2>4. start + size <= Len(record) /\ s = SubSeq(record, start + 1, start + size)
    BY <2>1, <2>2, <2>3
  <2>5. /\ \A i \in 1 .. size : s[i] = record[start + i]
        /\ \A i \in 1 .. size + 1, j \in 0 .. size :
             SubSeq(s, i, j) = SubSeq(record, start + i, start + j)
    BY <2>4, Slice
  <2>. QED
    BY <2>3, <2>5
<1>3. length = Body(length)
  <2>1. PICK g : g = [n \in 0 .. f.size |-> IF n > 0 /\ n \in spaces THEN g[n - 1] ELSE n]
    <3>. HIDE DEF spaces
    <3>. QED
      BY <1>1, LoopsEnd
  <2>2. \A n \in 0 .. f.size : n > 0 /\ n \in spaces <=> n > 0 /\ record[end - n + 1] = Space
    BY <1>1
  <2>3. g = Body(g)
    <3>. HIDE DEF spaces
    <3>. QED
      BY <2>1, <2>2
  <2>. HIDE DEF Body
  <2>. QED
    BY <2>3
<1>4. get_right_justified_string(record, f) = SubSeq(record, end - length[f.size] + 1, end)
  BY DEF get_right_justified_string
<1>. HIDE DEF length
<1>5. LoopEnd(length, f.size, spaces)
  <2>1. \A n \in 0 .. f.size : n > 0 /\ n \in spaces <=> n > 0 /\ record[end - n + 1] = Space
    BY <1>1
  <2>2. \A n \in 0 .. f.size :
          length[n] = IF n > 0 /\ record[end - n + 1] = Space THEN length[n - 1] ELSE n
    BY <1>3
  <2>. HIDE DEF spaces, Body
  <2>. QED
    BY <2>1, <2>2 DEF LoopEnd
<1>. DEFINE left == length[f.size]
            first == f.size - left + 1
<1>6. /\ left \in 0 .. f.size /\ (left \notin spaces \/ left = 0)
      /\ \A i \in 1 .. f.size : i > left => i \in spaces
  <2>. HIDE DEF spaces, Body
  <2>. QED
    BY <1>1, <1>5, LoopsEnd
<1>. HIDE DEF left
<1>7. \A i \in 1 .. f.size : f.size - i + 1 \in 1 .. f.size /\ end - (f.size - i + 1) + 1 = f.offset + i
  BY <1>1
<1>8. FirstByte(s) = first
  <2>1. first # Len(s) + 1 => s[first] # Space
    <3>1. SUFFICES ASSUME left # 0
                   PROVE  s[first] # Space
      BY <1>1, <1>6
    <3>2. left \in 1 .. f.size /\ left \notin spaces
      BY <1>1, <1>6, <3>1
    <3>3. record[end - left + 1] # Space
      BY <3>2
    <3>4. first \in 1 .. f.size /\ f.offset + first = end - left + 1
      BY <1>1, <3>2
    <3>. QED
      BY <1>2, <3>3, <3>4
  <2>2. ASSUME NEW i \in 1 .. Len(s), i < first
        PROVE  s[i] = Space
    <3>. DEFINE k == f.size - i + 1
    <3>1. k \in 1 .. f.size /\ end - k + 1 = f.offset + i /\ k > left
      BY <1>1, <1>6, <1>7, <2>2
    <3>2. k \in spaces
      BY <1>6, <3>1
    <3>. HIDE DEF k
    <3>3. record[end - k + 1] = Space
      BY <3>2
    <3>. QED
      BY <1>1, <1>2, <3>1, <3>3
  <2>3. first \in 1 .. Len(s) + 1
    BY <1>1, <1>6
  <2>. HIDE DEF first
  <2>. QED
    BY <1>1, <2>1, <2>2, <2>3, FirstByteIs
<1>9. SubSeq(s, first, Len(s)) = SubSeq(record, end - left + 1, end)
  <2>1. first \in 1 .. f.size + 1 /\ f.size \in 0 .. f.size /\ f.offset + first = end - left + 1
    <3>1. left \in Nat /\ left <= f.size /\ f.size \in Nat /\ f.offset \in Nat
      BY <1>1, <1>6
    <3>. QED
      BY ONLY <3>1
  <2>. QED
    BY <1>1, <1>2, <2>1
<1>. QED
  BY <1>4, <1>8, <1>9 DEF left

(* The text that is written is there, and the padding behind it.           *)
LEMMA StringCase ==
  ASSUME record \in Seq(Byte)
  PROVE  StringReadsBack
<1>. SUFFICES ASSUME NEW f \in FieldsOf(CHARACTER), NEW n \in 0 .. f.size,
                     NEW t, t = SubSeq(record, f.offset + 1, f.offset + n),
                     ~EndsInSpace(t), dbf_record_bytes(record, f) = Padded(t, f.size)
              PROVE  /\ dbf_record_string(record, f) = t
                     /\ CString(dbf_record_strdup(record, f)) = CString(t)
  BY DEF StringReadsBack
<1>. DEFINE s == get_bytes_readonly(record, f)
<1>1. /\ s \in Seq(Byte) /\ Len(s) = f.size /\ f.size \in Nat
      /\ f.offset \in 1 .. 2 /\ f.offset + f.size <= Len(record)
  BY FieldBytes
<1>2. t \in Seq(Byte) /\ Len(t) = n /\ t = SubSeq(s, 1, n) /\ n \in Nat /\ n <= f.size
  <2>1. n \in Nat /\ n <= f.size /\ f.offset \in Nat /\ f.offset + n <= Len(record) /\ 1 \in 1 .. f.size + 1
    BY <1>1
  <2>2. t \in Seq(Byte) /\ Len(t) = n
    <3>1. PICK start \in Nat : start = f.offset
      BY <2>1
    <3>2. start + n <= Len(record) /\ t = SubSeq(record, start + 1, start + n)
      BY <2>1, <3>1
    <3>3. record \in Seq(Byte) /\ start \in Nat /\ n \in Nat
      BY <2>1
    <3>. QED
      BY ONLY <3>2, <3>3, Slice
  <2>3. s = SubSeq(record, f.offset + 1, f.offset + f.size) /\ n \in 0 .. f.size
    BY DEF get_bytes_readonly
  <2>. HIDE DEF s
  <2>4. SubSeq(s, 1, n) = SubSeq(record, f.offset + 1, f.offset + n)
    <3>1. PICK start \in Nat, size \in Nat : start = f.offset /\ size = f.size
      BY <1>1
    <3>2. start + size <= Len(record) /\ s = SubSeq(record, start + 1, start + size)
      BY <1>1, <2>3, <3>1
    <3>3. \A i \in 1 .. size + 1, j \in 0 .. size :
            SubSeq(s, i, j) = SubSeq(record, start + i, start + j)
      BY <3>2, Slice
    <3>4. 1 \in 1 .. size + 1 /\ n \in 0 .. size
      BY <2>1, <3>1
    <3>. QED
      BY <3>1, <3>3, <3>4
  <2>. QED
    BY <2>1, <2>2, <2>4
<1>3. s = Padded(t, f.size)
  BY DEF dbf_record_bytes
<1>. HIDE DEF s
<1>4. LastByte(s) = n
  <2>1. /\ \A i \in 1 .. n : s[i] = t[i]
        /\ \A i \in 1 .. f.size : i > n => s[i] = Space
    <3>1. f.size \in Nat /\ Len(t) <= f.size /\ t \in Seq(Byte)
      BY <1>1, <1>2
    <3>2. /\ \A i \in 1 .. Len(t) : Padded(t, f.size)[i] = t[i]
          /\ \A i \in 1 .. f.size : i > Len(t) => Padded(t, f.size)[i] = Space
      BY ONLY <3>1, Padding
    <3>. QED
      BY <1>2, <1>3, <3>2
  <2>2. n # 0 => s[n] # Space
    <3>1. n # 0 => t # <<>> /\ n \in 1 .. n
      <4>1. Len(t) = n /\ n \in Nat /\ Len(<<>>) = 0
        BY <1>2
      <4>2. n # 0 => t # <<>>
        BY <4>1, Zenon
      <4>. QED
        BY ONLY <4>1, <4>2
    <3>2. t # <<>> => t[n] # Space
      BY <1>2, Zenon DEF EndsInSpace
    <3>. QED
      BY <2>1, <3>1, <3>2
  <2>3. n \in 0 .. Len(s) /\ \A i \in 1 .. Len(s) : i > n => s[i] = Space
    BY <1>1, <2>1
  <2>. QED
    BY <1>1, <2>2, <2>3, LastByteIs
<1>5. get_left_justified_string(record, f) = t
  BY <1>2, <1>4, LeftJustified DEF s
<1>6. dbf_record_string(record, f) = t /\ dbf_record_strdup(record, f) = Append(t, NUL)
  BY <1>5 DEF dbf_record_string, dbf_record_strdup
<1>. QED
  BY <1>2, <1>6, Terminated

(* The digits from a position on.                                          *)
LEMMA DigitsFromFacts ==
  ASSUME NEW s \in Seq(Byte), NEW i \in 1 .. Len(s) + 1
  PROVE  /\ DigitsFrom(s, i) \in 0 .. Len(s)
         /\ i + DigitsFrom(s, i) <= Len(s) + 1
         /\ \A k \in i .. i + DigitsFrom(s, i) - 1 : k \in 1 .. Len(s) /\ IsDigit(s[k])
         /\ ~(i + DigitsFrom(s, i) \in 1 .. Len(s) /\ IsDigit(s[i + DigitsFrom(s, i)]))
<1>. DEFINE Stops(n) == ~(i + n \in DOMAIN s /\ IsDigit(s[i + n]))
            P(n) == /\ \A k \in i .. i + n - 1 : k \in DOMAIN s /\ IsDigit(s[k])
                    /\ Stops(n)
            S == {n \in Nat : Stops(n)}
<1>1. Len(s) \in Nat /\ DOMAIN s = 1 .. Len(s)
  OBVIOUS
<1>2. Len(s) + 1 - i \in S
  BY <1>1
<1>3. PICK n \in S : \A k \in S : n <= k
  <2>1. S \in SUBSET Nat
    OBVIOUS
  <2>. HIDE DEF S
  <2>. QED
    BY <1>2, <2>1, LeastNumber
<1>4. n \in Nat /\ n <= Len(s) + 1 - i /\ Stops(n)
  BY <1>2, <1>3
<1>5. ASSUME NEW k \in i .. i + n - 1
      PROVE  k \in DOMAIN s /\ IsDigit(s[k])
  <2>1. k - i \in Nat /\ k - i < n /\ i + (k - i) = k
    BY <1>1, <1>4
  <2>2. ~Stops(k - i)
    BY <1>3, <1>4, <2>1
  <2>. QED
    BY <2>1, <2>2
<1>6. n \in 0 .. Len(s) /\ P(n)
  BY <1>1, <1>4, <1>5
<1>7. DigitsFrom(s, i) \in 0 .. Len(s) /\ P(DigitsFrom(s, i))
  <2>1. DigitsFrom(s, i) = CHOOSE m \in 0 .. Len(s) : P(m)
    BY DEF DigitsFrom
  <2>. HIDE DEF P
  <2>. QED
    BY <1>6, <2>1
<1>. DEFINE d == DigitsFrom(s, i)
<1>8. i + d <= Len(s) + 1
  <2>1. d \in 0 .. Len(s) /\ \A k \in i .. i + d - 1 : k \in 1 .. Len(s)
    BY <1>1, <1>7
  <2>. HIDE DEF d
  <2>2. d # 0 => i + d - 1 \in 1 .. Len(s)
    BY <1>1, <2>1
  <2>. QED
    BY <1>1, <2>1, <2>2
<1>. QED
  BY <1>1, <1>7, <1>8

-----------------------------------------------------------------------------
(* Numbers in texts.                                                       *)

(* One step of the sum of the digits, as DigitsValue defines it.           *)
DigitStep(s, i, sums, k) == IF k = 0 THEN 0 ELSE 10 * sums[k - 1] + s[i + k - 1] - 48

(* The sum has a value: its recursive definition defines something.        *)
LEMMA DigitSumsExist ==
  ASSUME NEW s, NEW i, NEW n \in Nat
  PROVE  \E sums : sums = [k \in 0 .. n |-> DigitStep(s, i, sums, k)]
<1>. DEFINE Sums(f, m) == f = [k \in 0 .. m |-> DigitStep(s, i, f, k)]
            Missing == {m \in Nat : ~\E f : Sums(f, m)}
<1>1. SUFFICES ASSUME Missing # {}
               PROVE  FALSE
  OBVIOUS
<1>2. PICK m \in Missing : \A l \in Missing : m <= l
  <2>1. Missing \in SUBSET Nat
    OBVIOUS
  <2>. HIDE DEF Missing
  <2>. QED
    BY <1>1, <2>1, LeastNumber, Zenon
<1>3. m \in Nat /\ ~\E f : Sums(f, m)
  BY <1>2
<1>4. CASE m = 0
  <2>. DEFINE f == [k \in {0} |-> 0]
  <2>1. 0 .. 0 = {0}
    OBVIOUS
  <2>2. f = [k \in 0 .. 0 |-> DigitStep(s, i, f, k)]
    BY <2>1 DEF DigitStep
  <2>. QED
    BY <1>3, <1>4, <2>2
<1>5. CASE m # 0
  <2>1. m - 1 \in Nat /\ m - 1 \notin Missing
    BY <1>2, <1>3, <1>5
  <2>2. PICK f : Sums(f, m - 1)
    BY <2>1
  <2>. DEFINE g == [k \in 0 .. m |-> IF k = m THEN DigitStep(s, i, f, m) ELSE f[k]]
  <2>3. \A k \in 0 .. m - 1 : g[k] = f[k] /\ f[k] = DigitStep(s, i, f, k)
    BY <1>3, <2>2
  <2>4. \A k \in 0 .. m : DigitStep(s, i, g, k) = DigitStep(s, i, f, k)
    <3>1. \A k \in 0 .. m : k # 0 => k - 1 \in 0 .. m - 1
      BY <1>3
    <3>. HIDE DEF g
    <3>. QED
      BY <2>3, <3>1 DEF DigitStep
  <2>5. \A k \in 0 .. m : g[k] = DigitStep(s, i, g, k)
    <3>1. \A k \in 0 .. m : k = m \/ k \in 0 .. m - 1
      BY <1>3
    <3>2. g[m] = DigitStep(s, i, f, m)
      BY <1>3
    <3>. QED
      BY <1>3, <2>3, <2>4, <3>1, <3>2
  <2>6. Sums(g, m)
    <3>1. g = [k \in 0 .. m |-> g[k]]
      OBVIOUS
    <3>. HIDE DEF g
    <3>. QED
      BY <2>5, <3>1
  <2>. QED
    BY <1>3, <2>6
<1>. QED
  BY <1>4, <1>5

(* The value of digits is the last of its sums.                            *)
LEMMA DigitsValueFacts ==
  ASSUME NEW s, NEW i, NEW n \in Nat
  PROVE  \E sums : /\ DigitsValue(s, i, n) = sums[n]
                   /\ \A k \in 0 .. n : sums[k] = DigitStep(s, i, sums, k)
<1>. DEFINE sums == CHOOSE f : f = [k \in 0 .. n |-> DigitStep(s, i, f, k)]
<1>1. sums = [k \in 0 .. n |-> DigitStep(s, i, sums, k)]
  <2>1. \E f : f = [k \in 0 .. n |-> DigitStep(s, i, f, k)]
    BY DigitSumsExist, Zenon
  <2>. QED
    BY <2>1, Zenon
<1>2. DigitsValue(s, i, n) = sums[n]
  BY DEF DigitsValue, DigitStep
<1>. HIDE DEF sums
<1>3. \A k \in 0 .. n : sums[k] = DigitStep(s, i, sums, k)
  BY <1>1
<1>. QED
  BY <1>2, <1>3

(* The value of digits is a natural number.                                *)
LEMMA DigitsValueIsNatural ==
  ASSUME NEW s \in Seq(Byte), NEW i \in Nat, NEW n \in Nat,
         \A k \in i .. i + n - 1 : IsDigit(s[k])
  PROVE  DigitsValue(s, i, n) \in Nat
<1>1. PICK sums : /\ DigitsValue(s, i, n) = sums[n]
                  /\ \A k \in 0 .. n : sums[k] = DigitStep(s, i, sums, k)
  BY DigitsValueFacts
<1>. DEFINE Wrong == {k \in 0 .. n : sums[k] \notin Nat}
<1>2. SUFFICES ASSUME Wrong # {}
               PROVE  FALSE
  BY <1>1
<1>3. PICK k \in Wrong : \A l \in Wrong : k <= l
  <2>1. Wrong \in SUBSET Nat
    OBVIOUS
  <2>. HIDE DEF Wrong
  <2>. QED
    BY <1>2, <2>1, LeastNumber, Zenon
<1>4. k \in 0 .. n /\ sums[k] \notin Nat /\ sums[k] = DigitStep(s, i, sums, k)
  BY <1>1, <1>3
<1>5. k # 0
  BY <1>4 DEF DigitStep
<1>6. k - 1 \in 0 .. n /\ k - 1 \notin Wrong
  BY <1>3, <1>4, <1>5
<1>7. sums[k - 1] \in Nat
  BY <1>6
<1>8. s[i + k - 1] \in 48 .. 57
  <2>1. i + k - 1 \in i .. i + n - 1
    BY <1>4, <1>5
  <2>. QED
    BY <2>1 DEF IsDigit
<1>9. sums[k] = 10 * sums[k - 1] + s[i + k - 1] - 48
  BY <1>4, <1>5 DEF DigitStep
<1>10. \A a \in Nat : \A b \in 48 .. 57 : 10 * a + b - 48 \in Nat
  OBVIOUS
<1>11. sums[k] \in Nat
  BY <1>7, <1>8, <1>9, <1>10, Zenon
<1>. QED
  BY <1>4, <1>11

(* No digits, one and two.                                                 *)
LEMMA FewDigits ==
  ASSUME NEW s, NEW i \in Nat
  PROVE  /\ DigitsValue(s, i, 0) = 0
         /\ s[i] \in Int => DigitsValue(s, i, 1) = s[i] - 48
         /\ s[i] \in Int /\ s[i + 1] \in Int =>
              DigitsValue(s, i, 2) = 10 * (s[i] - 48) + s[i + 1] - 48
<1>1. DigitsValue(s, i, 0) = 0
  <2>1. PICK sums : /\ DigitsValue(s, i, 0) = sums[0]
                    /\ \A k \in 0 .. 0 : sums[k] = DigitStep(s, i, sums, k)
    BY DigitsValueFacts
  <2>. QED
    BY <2>1 DEF DigitStep
<1>2. ASSUME s[i] \in Int
      PROVE  DigitsValue(s, i, 1) = s[i] - 48
  <2>1. PICK sums : /\ DigitsValue(s, i, 1) = sums[1]
                    /\ \A k \in 0 .. 1 : sums[k] = DigitStep(s, i, sums, k)
    BY DigitsValueFacts
  <2>2. sums[0] = 0
    BY <2>1 DEF DigitStep
  <2>3. sums[1] = 10 * sums[1 - 1] + s[i + 1 - 1] - 48
    BY <2>1 DEF DigitStep
  <2>4. 1 - 1 = 0 /\ i + 1 - 1 = i
    OBVIOUS
  <2>. QED
    BY <1>2, <2>1, <2>2, <2>3, <2>4
<1>3. ASSUME s[i] \in Int, s[i + 1] \in Int
      PROVE  DigitsValue(s, i, 2) = 10 * (s[i] - 48) + s[i + 1] - 48
  <2>1. PICK sums : /\ DigitsValue(s, i, 2) = sums[2]
                    /\ \A k \in 0 .. 2 : sums[k] = DigitStep(s, i, sums, k)
    BY DigitsValueFacts
  <2>2. sums[0] = 0
    BY <2>1 DEF DigitStep
  <2>3. sums[1] = 10 * sums[1 - 1] + s[i + 1 - 1] - 48
    BY <2>1 DEF DigitStep
  <2>4. sums[2] = 10 * sums[2 - 1] + s[i + 2 - 1] - 48
    BY <2>1 DEF DigitStep
  <2>5. 1 - 1 = 0 /\ 2 - 1 = 1 /\ i + 1 - 1 = i /\ i + 2 - 1 = i + 1
    OBVIOUS
  <2>6. sums[1] = s[i] - 48
    BY <1>3, <2>2, <2>3, <2>5
  <2>. QED
    BY <1>3, <2>1, <2>4, <2>5, <2>6
<1>. QED
  BY <1>1, <1>2, <1>3

(* A sign is one byte, or none.                                            *)
LEMMA SignFacts ==
  ASSUME NEW s \in Seq(Byte)
  PROVE  /\ SignLength(s) \in {0, 1} /\ Sign(s) \in {-1, 1}
         /\ SignLength(s) + 1 \in 1 .. Len(s) + 1
         /\ s = <<>> => SignLength(s) = 0
<1>1. s # <<>> => Len(s) >= 1
  OBVIOUS
<1>. QED
  BY <1>1 DEF SignLength, Sign

(* What a numeral is made of, and how much of the string it takes.         *)
LEMMA NumeralFacts ==
  ASSUME NEW s \in Seq(Byte)
  PROVE  LET n == DigitsFrom(s, SignLength(s) + 1)
         IN  /\ n \in 0 .. Len(s) /\ SignLength(s) + n <= Len(s)
             /\ Numeral(s).value = DigitsValue(s, SignLength(s) + 1, n)
             /\ Numeral(s).value \in Nat
             /\ Numeral(s).end = IF n = 0 THEN 0 ELSE SignLength(s) + n
<1>. DEFINE i == SignLength(s) + 1
            n == DigitsFrom(s, i)
<1>1. i \in 1 .. Len(s) + 1 /\ SignLength(s) \in Nat
  BY SignFacts
<1>. HIDE DEF i
<1>2. n \in 0 .. Len(s) /\ i + n <= Len(s) + 1 /\ \A k \in i .. i + n - 1 : IsDigit(s[k])
  BY <1>1, DigitsFromFacts
<1>. HIDE DEF n
<1>3. DigitsValue(s, i, n) \in Nat
  BY <1>1, <1>2, DigitsValueIsNatural
<1>4. /\ Numeral(s).value = DigitsValue(s, i, n)
      /\ Numeral(s).end = IF n = 0 THEN 0 ELSE SignLength(s) + n
  BY DEF Numeral, n, i
<1>. QED
  BY <1>1, <1>2, <1>3, <1>4 DEF n, i

(* The text of a number, up to a terminator.                               *)
LEMMA NumberText ==
  ASSUME record \in Seq(Byte), NEW type, NEW f \in FieldsOf(type)
  PROVE  /\ get_right_justified_string(record, f) \in Seq(Byte)
         /\ CString(get_right_justified_string(record, f)) \in Seq(Byte)
<1>. DEFINE s == get_bytes_readonly(record, f)
            t == get_right_justified_string(record, f)
<1>1. s \in Seq(Byte) /\ FirstByte(s) \in 1 .. Len(s) + 1
  BY FieldBytes, FirstByteFacts
<1>2. t = SubSeq(s, FirstByte(s), Len(s))
  BY RightJustifiedString
<1>. HIDE DEF s, t
<1>3. t \in Seq(Byte)
  BY <1>1, <1>2
<1>4. PICK n \in 0 .. Len(t) : CString(t) = SubSeq(t, 1, n)
  BY <1>3, CStringFacts
<1>. QED
  BY <1>3, <1>4 DEF t

(* A text that begins with '*' is no number.                               *)
LEMMA NullNumber ==
  ASSUME NEW s \in Seq(Byte), s = <<>> \/ s[1] = Asterisk, NEW size, NEW max
  PROVE  /\ Converted(s, size, strtol(CString(s), max)).ok = 0
         /\ Converted(s, size, strtoul(CString(s), max)).ok = 0
         /\ Converted(s, size, strtod(CString(s), max)).ok = 0
<1>. DEFINE c == CString(s)
<1>1. CASE s = <<>>
  <2>1. ~FitsBuffer(s, size)
    BY <1>1 DEF FitsBuffer
  <2>. QED
    BY <2>1 DEF Converted, Failed
<1>2. CASE s # <<>>
  <2>1. s[1] = 42 /\ Len(s) >= 1
    BY <1>2 DEF Asterisk
  <2>2. PICK n \in 0 .. Len(s) : c = SubSeq(s, 1, n) /\ (n < Len(s) => s[n + 1] = NUL)
    BY CStringFacts
  <2>3. n # 0
    BY <2>1, <2>2 DEF NUL
  <2>4. c \in Seq(Byte) /\ Len(c) >= 1 /\ c[1] = 42 /\ 1 \in DOMAIN c /\ c # <<>> /\ Len(c) \in Nat
    BY <2>1, <2>2, <2>3
  <2>. HIDE DEF c
  <2>5. SignLength(c) = 0
    BY <2>4 DEF SignLength
  <2>6. DigitsFrom(c, 1) = 0
    <3>1. ~IsDigit(c[1])
      BY <2>4 DEF IsDigit
    <3>2. /\ DigitsFrom(c, 1) \in 0 .. Len(c)
          /\ \A k \in 1 .. 1 + DigitsFrom(c, 1) - 1 : IsDigit(c[k])
      BY <2>4, DigitsFromFacts
    <3>. DEFINE d == DigitsFrom(c, 1)
    <3>3. d \in Nat /\ \A k \in 1 .. 1 + d - 1 : IsDigit(c[k])
      BY <2>4, <3>2
    <3>. HIDE DEF d
    <3>4. d # 0 => 1 \in 1 .. 1 + d - 1
      BY <3>3
    <3>5. d = 0
      BY <3>1, <3>3, <3>4
    <3>. QED
      BY <3>5 DEF d
  <2>7. Numeral(c).end = 0
    <3>1. SignLength(c) + 1 = 1
      BY <2>5
    <3>2. DigitsFrom(c, SignLength(c) + 1) = 0
      BY <2>6, <3>1
    <3>. QED
      BY <3>2 DEF Numeral
  <2>8. strtod(c, max).end = 0
    <3>1. SignLength(c) + 1 = 1 /\ 1 + 0 = 1 /\ 0 + 0 = 0
      BY <2>5
    <3>2. c[1] # Point
      BY <2>4 DEF Point
    <3>. QED
      BY <2>6, <3>1, <3>2 DEF strtod
  <2>9. /\ strtol(c, max).end # Len(c) /\ strtoul(c, max).end # Len(c)
        /\ strtod(c, max).end # Len(c)
    BY <2>4, <2>7, <2>8 DEF strtol, strtoul
  <2>. QED
    BY <2>9 DEF Converted, Failed, c
<1>. QED
  BY <1>1, <1>2

(* Where the digits at the end of a text begin.                            *)
LEMMA TrailingDigitsFacts ==
  ASSUME NEW s \in Seq(Byte)
  PROVE  /\ TrailingDigits(s) \in 0 .. Len(s)
         /\ \A i \in 1 .. Len(s) : i > Len(s) - TrailingDigits(s) => IsDigit(s[i])
         /\ TrailingDigits(s) < Len(s) => ~IsDigit(s[Len(s) - TrailingDigits(s)])
<1>. DEFINE others == {i \in 1 .. Len(s) : ~IsDigit(s[i])}
            last   == CHOOSE i \in others \cup {0} : \A j \in others : j <= i
<1>1. Len(s) \in Nat /\ others \in SUBSET (1 .. Len(s))
  OBVIOUS
<1>2. \E i \in others \cup {0} : \A j \in others : j <= i
  <2>1. CASE others = {}
    BY <2>1
  <2>2. CASE others # {}
    <3>1. \E i \in others : \A j \in others : j <= i
      <4>. HIDE DEF others
      <4>. QED
        BY <1>1, <2>2, FirstAndLast
    <3>. HIDE DEF others
    <3>. QED
      BY <3>1
  <2>. QED
    BY <2>1, <2>2
<1>3. last \in others \cup {0} /\ \A j \in others : j <= last
  <2>. HIDE DEF others
  <2>. QED
    BY <1>2
<1>4. TrailingDigits(s) = Len(s) - last
  BY DEF TrailingDigits
<1>. HIDE DEF last
<1>5. last \in 0 .. Len(s) /\ Len(s) - (Len(s) - last) = last
  BY <1>1, <1>3
<1>. QED
  BY <1>1, <1>3, <1>4, <1>5

(* A text of zeros and spaces is no date.                                  *)
LEMMA NullDate ==
  ASSUME NEW s \in Seq(Byte), is_all(SubSeq(s, 1, LastByte(s)), Zero)
  PROVE  dbf_yyyymmdd_to_tm(s).ok = 0
<1>1. SUFFICES ASSUME AcceptedDate(s)
               PROVE  FALSE
  BY DEF dbf_yyyymmdd_to_tm
<1>2. /\ TrailingDigits(s) = Len(s) /\ Len(s) \in Nat /\ Len(s) >= 8
      /\ TwoDigits(s, 2) \in 1 .. 12
  BY <1>1 DEF AcceptedDate
<1>3. \A i \in 1 .. Len(s) : IsDigit(s[i])
  BY <1>2, TrailingDigitsFacts
<1>4. LastByte(s) = Len(s)
  <2>1. s[Len(s)] # Space
    BY <1>2, <1>3 DEF IsDigit, Space
  <2>. QED
    BY <1>2, <2>1, LastByteFacts
<1>5. \A i \in 1 .. Len(s) : s[i] = 48
  BY <1>2, <1>4 DEF is_all, Zero
<1>6. Digit(s, 2) = 0 /\ Digit(s, 2 + 1) = 0
  BY <1>2, <1>5 DEF Digit
<1>. QED
  BY <1>2, <1>6 DEF TwoDigits

(* No conversion takes what is null.                                       *)
LEMMA NullCase ==
  ASSUME record \in Seq(Byte)
  PROVE  NullHasNoValue
<1>. SUFFICES ASSUME NEW type \in TextTypes, NEW f \in FieldsOf(type), IsNull(record, f)
              PROVE  /\ f.type \in {FLOAT, NUMBER} => \A c \in Conversions(f) : c.ok = 0
                     /\ f.type = DATE => dbf_record_date(record, f).ok = 0
                     /\ f.type = CHARACTER => dbf_record_strdup(record, f) = <<NUL>>
                     /\ f.type = LOGICAL =>
                          /\ dbf_record_logical_is_true(record, f) = 0
                          /\ dbf_record_logical_is_false(record, f) = 0
  BY DEF NullHasNoValue, dbf_record_is_null
<1>. DEFINE s    == get_bytes_readonly(record, f)
            left == get_left_justified_string(record, f)
            right == get_right_justified_string(record, f)
<1>1. s \in Seq(Byte) /\ right \in Seq(Byte)
  BY FieldBytes, NumberText
<1>2. /\ f.type = CHARACTER => left = <<>>
      /\ f.type = DATE => is_all(left, Zero)
      /\ f.type \in {FLOAT, NUMBER} => right = <<>> \/ right[1] = Asterisk
      /\ f.type = LOGICAL => dbf_record_logical(record, f) \notin Logicals
  BY DEF IsNull, CHARACTER, DATE, FLOAT, NUMBER, LOGICAL
<1>3. f.type \in {FLOAT, NUMBER} => \A c \in Conversions(f) : c.ok = 0
  <2>. HIDE DEF right
  <2>1. SUFFICES ASSUME right = <<>> \/ right[1] = Asterisk
                 PROVE  \A c \in Conversions(f) : c.ok = 0
    BY <1>2
  <2>2. \A size, max : /\ Converted(right, size, strtol(CString(right), max)).ok = 0
                       /\ Converted(right, size, strtoul(CString(right), max)).ok = 0
                       /\ Converted(right, size, strtod(CString(right), max)).ok = 0
    BY <1>1, <2>1, NullNumber
  <2>. QED
    BY <2>2, Zenon DEF Conversions, dbf_record_strtol, dbf_record_strtoll, dbf_record_strtoul,
       dbf_record_strtoull, dbf_record_strtod, dbf_record_strtold, right
<1>4. f.type = DATE => dbf_record_date(record, f).ok = 0
  <2>1. left = SubSeq(s, 1, LastByte(s))
    BY LeftJustified
  <2>2. dbf_record_date(record, f) = dbf_yyyymmdd_to_tm(s)
    BY DEF dbf_record_date
  <2>. HIDE DEF s, left
  <2>. QED
    BY <1>1, <1>2, <2>1, <2>2, NullDate
<1>5. f.type = CHARACTER => dbf_record_strdup(record, f) = <<NUL>>
  BY <1>2 DEF dbf_record_strdup
<1>6. ASSUME f.type = LOGICAL
      PROVE  dbf_record_logical_is_true(record, f) = 0 /\ dbf_record_logical_is_false(record, f) = 0
  <2>1. dbf_record_logical(record, f) \notin Logicals
    BY <1>2, <1>6
  <2>2. dbf_record_logical(record, f) \notin Trues /\ dbf_record_logical(record, f) \notin Falses
    BY <2>1 DEF Logicals, Trues, Falses
  <2>. QED
    BY <2>2 DEF dbf_record_logical_is_true, dbf_record_logical_is_false
<1>. QED
  BY <1>3, <1>4, <1>5, <1>6

(* The number that a text stands for, before it is fitted into a type.     *)
LEMMA SignedNumeral ==
  ASSUME NEW c \in Seq(Byte)
  PROVE  LET v == Sign(c) * Numeral(c).value
         IN  /\ v \in Int /\ Numeral(c).value \in Nat
             /\ v = Numeral(c).value \/ v = -Numeral(c).value
             /\ v > 0 => v = Numeral(c).value
<1>1. Numeral(c).value \in Nat /\ Sign(c) \in {-1, 1}
  BY NumeralFacts, SignFacts
<1>. DEFINE n == Numeral(c).value
<1>. HIDE DEF n
<1>2. n \in Nat
  BY <1>1 DEF n
<1>3. CASE Sign(c) = 1
  <2>1. Sign(c) * n = n
    BY <1>2, <1>3
  <2>. QED
    BY <1>2, <2>1 DEF n
<1>4. CASE Sign(c) = -1
  <2>1. Sign(c) * n = -n
    BY <1>2, <1>4
  <2>. QED
    BY <1>2, <2>1 DEF n
<1>. QED
  BY <1>1, <1>3, <1>4

(* An unsigned type takes what is not negative and keeps what fits.        *)
LEMMA UnsignedValue ==
  ASSUME NEW c \in Seq(Byte), NEW max \in Nat, Sign(c) * Numeral(c).value >= 0
  PROVE  strtoul(c, max).value = Between(0, Sign(c) * Numeral(c).value, max)
<1>. DEFINE v == Sign(c) * Numeral(c).value
            n == Numeral(c).value
<1>1. v \in Int /\ n \in Nat /\ (v = n \/ v = -n) /\ v >= 0
  BY SignedNumeral
<1>2. strtoul(c, max).value = IF n > max THEN max ELSE v % (max + 1)
  BY DEF strtoul
<1>. HIDE DEF v, n
<1>3. v = n
  BY <1>1
<1>4. n <= max => n % (max + 1) = n
  BY <1>1
<1>5. strtoul(c, max).value = Between(0, v, max)
  BY <1>1, <1>2, <1>3, <1>4 DEF Between
<1>. QED
  BY <1>5 DEF v

(* A floating-point type takes a whole number that it holds as it is, and  *)
(* takes any other too.                                                    *)
LEMMA WholeDouble ==
  ASSUME NEW c \in Seq(Byte), Numeral(c).end = Len(c), NEW max \in Nat
  PROVE  /\ strtod(c, max).end = Len(c)
         /\ Numeral(c).value <= max =>
              strtod(c, max).value = (Sign(c) * Numeral(c).value) * 10 ^ Places
<1>. DEFINE i == SignLength(c) + 1
            n == DigitsFrom(c, i)
            v == DigitsValue(c, i, n)
            p == 10 ^ Places
<1>1. i \in 1 .. Len(c) + 1 /\ SignLength(c) \in {0, 1} /\ Len(c) \in Nat /\ Sign(c) \in {-1, 1}
  BY SignFacts
<1>2. /\ n \in 0 .. Len(c) /\ v \in Nat /\ Numeral(c).value = v
      /\ Len(c) = IF n = 0 THEN 0 ELSE SignLength(c) + n
  BY NumeralFacts
<1>3. i + n > Len(c) /\ DOMAIN c = 1 .. Len(c)
  BY <1>1, <1>2
<1>4. ~(i + n \in DOMAIN c)
  BY <1>1, <1>2, <1>3
<1>5. DigitsValue(c, i + n + 1, 0) = 0
  <2>1. i + n + 1 \in Nat
    BY <1>1, <1>2
  <2>. QED
    BY <2>1, FewDigits
<1>6. Places \in Nat /\ 0 < Places /\ Places - 0 = Places /\ p \in Int
  BY DbfFieldsAssumption
<1>. HIDE DEF i, n, v, p
<1>7. strtod(c, max) =
        LET kept == IF v > max THEN 0 ELSE IF 0 < Places THEN 0 ELSE Places
        IN  [value |-> Sign(c) * (Held(v, max) * p + DigitsValue(c, i + n + 1, kept) * 10 ^ (Places - kept)),
             end   |-> IF n + 0 = 0 THEN 0 ELSE SignLength(c) + n + 0 + 0]
  BY <1>4, Zenon DEF strtod, i, n, v, p
<1>8. strtod(c, max).end = Len(c)
  <2>1. n = 0 \/ SignLength(c) + n = Len(c)
    BY <1>2
  <2>2. strtod(c, max).end = IF n + 0 = 0 THEN 0 ELSE SignLength(c) + n + 0 + 0
    BY <1>7
  <2>. QED
    BY <1>1, <1>2, <2>1, <2>2
<1>9. ASSUME v <= max
      PROVE  strtod(c, max).value = (Sign(c) * v) * p
  <2>1. Held(v, max) = v
    BY <1>9 DEF Held
  <2>2. strtod(c, max).value = Sign(c) * (v * p + 0 * p)
    <3>1. (IF v > max THEN 0 ELSE IF 0 < Places THEN 0 ELSE Places) = 0
      BY <1>6
    <3>2. strtod(c, max).value =
            Sign(c) * (Held(v, max) * p + DigitsValue(c, i + n + 1, 0) * 10 ^ (Places - 0))
      BY <1>7, <3>1
    <3>. QED
      BY <1>5, <1>6, <2>1, <3>2 DEF p
  <2>4. Sign(c) * (v * p + 0 * p) = (Sign(c) * v) * p
    <3>1. 0 * p = 0 /\ v * p \in Int
      BY <1>2, <1>6
    <3>2. CASE Sign(c) = 1
      BY <1>2, <1>6, <3>1, <3>2
    <3>3. CASE Sign(c) = -1
      BY <1>2, <1>6, <3>1, <3>3
    <3>. QED
      BY <1>1, <3>2, <3>3
  <2>. QED
    BY <2>2, <2>4
<1>. QED
  BY <1>2, <1>8, <1>9 DEF p

(* A type that holds less has the nearest of what a larger one has.        *)
LEMMA NestedBounds ==
  ASSUME NEW v \in Int, NEW low \in Int, NEW high \in Int, NEW low2 \in Int, NEW high2 \in Int,
         low <= low2, low2 <= high2, high2 <= high
  PROVE  /\ Between(low2, v, high2) = Between(low2, Between(low, v, high), high2)
         /\ Between(low, v, high) \in Int
BY DEF Between

(* The six conversions read one numeral, each into its type.               *)
LEMMA NumbersCase ==
  ASSUME record \in Seq(Byte)
  PROVE  NumbersAgree
<1>. SUFFICES ASSUME NEW f \in FieldsOf(NUMBER),
                     NEW whole, whole = dbf_record_strtoll(record, f),
                     NEW natural, natural = dbf_record_strtoull(record, f)
     PROVE
        /\ dbf_record_strtol(record, f) =
             [ok |-> whole.ok, value |-> Between(-LongMax - 1, whole.value, LongMax)]
        /\ dbf_record_strtoul(record, f).ok = whole.ok
        /\ natural.ok = whole.ok
        /\ whole.value >= 0 =>
             /\ whole.value = Between(0, natural.value, LongLongMax)
             /\ dbf_record_strtoul(record, f).value = Between(0, natural.value, 2 * LongMax + 1)
        /\ dbf_record_strtod(record, f).ok = dbf_record_strtold(record, f).ok
        /\ SameNumber(dbf_record_strtod(record, f), whole, DoubleMax)
        /\ SameNumber(dbf_record_strtold(record, f), whole, LongDoubleMax)
  BY DEF NumbersAgree
<1>. DEFINE s == get_right_justified_string(record, f)
            c == CString(s)
            v == Sign(c) * Numeral(c).value
            taken == IF Numeral(c).end = Len(c) THEN 1 ELSE 0
<1>1. s \in Seq(Byte) /\ c \in Seq(Byte)
  BY NumberText
<1>2. /\ LongMax \in Nat \ {0} /\ LongLongMax \in Nat \ {0} /\ LongMax <= LongLongMax
      /\ Places \in Nat /\ DoubleMax \in Nat /\ LongDoubleMax \in Nat
  BY DbfFieldsAssumption
<1>3. /\ whole = Converted(s, BufferSize, strtol(c, LongLongMax))
      /\ natural = Converted(s, BufferSize, strtoul(c, 2 * LongLongMax + 1))
      /\ dbf_record_strtol(record, f) = Converted(s, BufferSize, strtol(c, LongMax))
      /\ dbf_record_strtoul(record, f) = Converted(s, BufferSize, strtoul(c, 2 * LongMax + 1))
      /\ dbf_record_strtod(record, f) = Converted(s, BufferSize, strtod(c, DoubleMax))
      /\ dbf_record_strtold(record, f) = Converted(s, BufferSize, strtod(c, LongDoubleMax))
  BY DEF dbf_record_strtoll, dbf_record_strtoull, dbf_record_strtol, dbf_record_strtoul,
     dbf_record_strtod, dbf_record_strtold
<1>4. v \in Int
  BY <1>1, SignedNumeral
<1>. HIDE DEF s
<1>5. CASE ~FitsBuffer(s, BufferSize)
  <2>1. \A r : Converted(s, BufferSize, r) = [ok |-> 0, value |-> 0]
    BY <1>5 DEF Converted, Failed
  <2>2. /\ Between(-LongMax - 1, 0, LongMax) = 0 /\ Between(0, 0, LongLongMax) = 0
        /\ Between(0, 0, 2 * LongMax + 1) = 0
    BY <1>2 DEF Between
  <2>3. whole.ok = 0 /\ \A double, max : SameNumber(double, whole, max)
    BY <1>3, <2>1 DEF SameNumber
  <2>. QED
    BY <1>3, <2>1, <2>2, <2>3
<1>6. CASE FitsBuffer(s, BufferSize)
  <2>1. \A max : /\ strtol(c, max) = [value |-> Between(-max - 1, v, max), end |-> Numeral(c).end]
                 /\ strtoul(c, max).end = Numeral(c).end
    BY DEF strtol, strtoul
  <2>2. \A r : Converted(s, BufferSize, r) = [ok |-> IF r.end = Len(c) THEN 1 ELSE 0, value |-> r.value]
    BY <1>6 DEF Converted
  <2>. HIDE DEF c, v
  <2>3. /\ whole = [ok |-> taken, value |-> Between(-LongLongMax - 1, v, LongLongMax)]
        /\ dbf_record_strtol(record, f) = [ok |-> taken, value |-> Between(-LongMax - 1, v, LongMax)]
        /\ natural = [ok |-> taken, value |-> strtoul(c, 2 * LongLongMax + 1).value]
        /\ dbf_record_strtoul(record, f) = [ok |-> taken, value |-> strtoul(c, 2 * LongMax + 1).value]
    <3>1. \A max : Converted(s, BufferSize, strtol(c, max)) = [ok |-> taken, value |-> Between(-max - 1, v, max)]
      BY <2>1, <2>2
    <3>2. \A max : Converted(s, BufferSize, strtoul(c, max)) = [ok |-> taken, value |-> strtoul(c, max).value]
      BY <2>1, <2>2
    <3>. HIDE DEF taken
    <3>. QED
      BY <1>3, <3>1, <3>2
  <2>4. Between(-LongMax - 1, v, LongMax) = Between(-LongMax - 1, whole.value, LongMax)
    <3>1. whole.value = Between(-LongLongMax - 1, v, LongLongMax)
      BY <2>3
    <3>. HIDE DEF v
    <3>. QED
      BY <1>2, <1>4, <3>1 DEF Between
  <2>5. ASSUME whole.value >= 0
        PROVE  /\ whole.value = Between(0, natural.value, LongLongMax)
               /\ dbf_record_strtoul(record, f).value = Between(0, natural.value, 2 * LongMax + 1)
    <3>1. v \in Int /\ v >= 0
      BY <1>2, <1>4, <2>3, <2>5 DEF Between, v
    <3>2. /\ natural.value = Between(0, v, 2 * LongLongMax + 1)
          /\ dbf_record_strtoul(record, f).value = Between(0, v, 2 * LongMax + 1)
      BY <1>1, <1>2, <2>3, <3>1, UnsignedValue DEF v, c
    <3>3. whole.value = Between(0, v, LongLongMax)
      BY <1>2, <2>3, <3>1 DEF Between
    <3>. QED
      BY <1>2, <3>1, <3>2, <3>3, NestedBounds
  <2>6. ASSUME NEW max \in Nat, NEW double, double = Converted(s, BufferSize, strtod(c, max))
        PROVE  SameNumber(double, whole, max)
    <3>1. double = [ok |-> IF strtod(c, max).end = Len(c) THEN 1 ELSE 0, value |-> strtod(c, max).value]
      BY <2>2, <2>6
    <3>2. SUFFICES ASSUME whole.ok = 1
                   PROVE  /\ double.ok = 1
                          /\ /\ whole.value \in -max .. max
                             /\ whole.value \in -LongLongMax .. LongLongMax - 1
                             => double.value = whole.value * 10 ^ Places
      BY DEF SameNumber
    <3>3. Numeral(c).end = Len(c)
      BY <2>3, <3>2
    <3>4. /\ strtod(c, max).end = Len(c)
          /\ Numeral(c).value <= max => strtod(c, max).value = v * 10 ^ Places
      BY <1>1, <3>3, WholeDouble DEF v, c
    <3>5. ASSUME whole.value \in -max .. max, whole.value \in -LongLongMax .. LongLongMax - 1
          PROVE  double.value = whole.value * 10 ^ Places
      <4>1. whole.value = Between(-LongLongMax - 1, v, LongLongMax)
        BY <2>3
      <4>2. whole.value = v
        BY <1>2, <1>4, <3>5, <4>1 DEF Between
      <4>3. Numeral(c).value \in Nat /\ (v = Numeral(c).value \/ v = -Numeral(c).value)
        BY <1>1, SignedNumeral DEF v, c
      <4>4. Numeral(c).value <= max
        BY <3>5, <4>2, <4>3
      <4>. QED
        BY <3>1, <3>4, <4>2, <4>4
    <3>. QED
      BY <3>1, <3>4, <3>5
  <2>7. natural.ok = whole.ok /\ dbf_record_strtoul(record, f).ok = whole.ok
    BY <2>3
  <2>8. dbf_record_strtol(record, f) =
          [ok |-> whole.ok, value |-> Between(-LongMax - 1, whole.value, LongMax)]
    BY <2>3, <2>4
  <2>9. /\ SameNumber(dbf_record_strtod(record, f), whole, DoubleMax)
        /\ SameNumber(dbf_record_strtold(record, f), whole, LongDoubleMax)
    BY <1>2, <1>3, <2>6
  <2>10. dbf_record_strtod(record, f).ok = dbf_record_strtold(record, f).ok
    <3>1. strtod(c, DoubleMax).end = strtod(c, LongDoubleMax).end
      BY DEF strtod
    <3>. QED
      BY <1>3, <2>2, <3>1
  <2>. QED
    BY <2>5, <2>7, <2>8, <2>9, <2>10
<1>. QED
  BY <1>5, <1>6

(* Digits up to the end of a string.                                       *)
LEMMA DigitsToEnd ==
  ASSUME NEW s \in Seq(Byte), NEW i \in 1 .. Len(s) + 1,
         \A k \in i .. Len(s) : IsDigit(s[k])
  PROVE  DigitsFrom(s, i) = Len(s) + 1 - i
<1>. DEFINE d == DigitsFrom(s, i)
<1>1. /\ d \in 0 .. Len(s) /\ i + d <= Len(s) + 1
      /\ ~(i + d \in 1 .. Len(s) /\ IsDigit(s[i + d]))
  BY DigitsFromFacts
<1>. HIDE DEF d
<1>2. Len(s) \in Nat
  OBVIOUS
<1>3. ~(i + d <= Len(s))
  BY <1>1, <1>2
<1>4. d = Len(s) + 1 - i
  BY <1>1, <1>2, <1>3
<1>. QED
  BY <1>4 DEF d

(* The digits of a number below 100.                                       *)
LEMMA TextFacts ==
  ASSUME NEW v \in 0 .. 99
  PROVE  \E a \in 48 .. 57, b \in 48 .. 57 :
           \/ Text(v) = <<a>> /\ v = a - 48
           \/ Text(v) = <<a, b>> /\ v = 10 * (a - 48) + b - 48
<1>. DEFINE a == 48 + (v \div 10)
            b == 48 + (v % 10)
<1>1. a \in 48 .. 57 /\ b \in 48 .. 57 /\ v = 10 * (a - 48) + b - 48
  OBVIOUS
<1>. HIDE DEF a, b
<1>2. CASE v < 10
  <2>1. Text(v) = <<48 + v>> /\ 48 + v \in 48 .. 57 /\ v = (48 + v) - 48
    BY <1>2 DEF Text
  <2>. QED
    BY <2>1
<1>3. CASE v >= 10
  <2>1. Text(v) = <<a, b>>
    BY <1>3 DEF Text, a, b
  <2>. QED
    BY <1>1, <2>1
<1>. QED
  BY <1>2, <1>3

(* What the conversions make of a text.                                    *)
IsNumber(t, v) ==
  /\ t \in Seq(Byte) /\ Len(t) \in 1 .. 3
  /\ \A i \in 1 .. Len(t) : t[i] # NUL /\ t[i] # Space
  /\ Numeral(t).end = Len(t)
  /\ Sign(t) * Numeral(t).value = v

(* A text of one digit is its number.                                      *)
LEMMA OneDigit ==
  ASSUME NEW a \in 48 .. 57
  PROVE  IsNumber(<<a>>, a - 48)
<1>. DEFINE t == <<a>>
<1>1. t \in Seq(Byte) /\ Len(t) = 1 /\ t[1] = a /\ t # <<>>
  BY DEF Byte
<1>. HIDE DEF t
<1>2. SignLength(t) = 0 /\ Sign(t) = 1 /\ SignLength(t) + 1 = 1
  BY <1>1 DEF SignLength, Sign
<1>3. DigitsFrom(t, 1) = 1
  <2>1. 1 \in 1 .. Len(t) + 1 /\ Len(t) + 1 - 1 = 1 /\ \A k \in 1 .. Len(t) : IsDigit(t[k])
    BY <1>1 DEF IsDigit
  <2>. QED
    BY <1>1, <2>1, DigitsToEnd
<1>4. DigitsValue(t, 1, 1) = a - 48
  BY <1>1, FewDigits
<1>5. Numeral(t).end = 1 /\ Numeral(t).value = a - 48
  BY <1>2, <1>3, <1>4 DEF Numeral
<1>6. IsNumber(t, a - 48)
  BY <1>1, <1>2, <1>5 DEF IsNumber, NUL, Space
<1>. QED
  BY <1>6 DEF t

(* A text of two digits is their number.                                   *)
LEMMA TwoDigitNumber ==
  ASSUME NEW a \in 48 .. 57, NEW b \in 48 .. 57
  PROVE  IsNumber(<<a, b>>, 10 * (a - 48) + b - 48)
<1>. DEFINE t == <<a, b>>
            n == 10 * (a - 48) + b - 48
<1>1. t \in Seq(Byte) /\ Len(t) = 2 /\ t[1] = a /\ t[2] = b /\ t # <<>>
  BY DEF Byte
<1>. HIDE DEF t
<1>2. SignLength(t) = 0 /\ Sign(t) = 1 /\ SignLength(t) + 1 = 1
  BY <1>1 DEF SignLength, Sign
<1>3. DigitsFrom(t, 1) = 2
  <2>1. 1 \in 1 .. Len(t) + 1 /\ Len(t) + 1 - 1 = 2 /\ \A k \in 1 .. Len(t) : k = 1 \/ k = 2
    BY <1>1
  <2>2. IsDigit(t[1]) /\ IsDigit(t[2])
    BY <1>1 DEF IsDigit
  <2>. QED
    BY <1>1, <2>1, <2>2, DigitsToEnd
<1>4. DigitsValue(t, 1, 2) = n
  <2>1. t[1] \in Int /\ t[1 + 1] = b /\ t[1 + 1] \in Int
    BY <1>1
  <2>. QED
    BY <1>1, <2>1, FewDigits
<1>5. Numeral(t).end = 2 /\ Numeral(t).value = n
  BY <1>2, <1>3, <1>4 DEF Numeral
<1>6. n \in Int
  OBVIOUS
<1>. HIDE DEF n
<1>7. IsNumber(t, n)
  BY <1>1, <1>2, <1>5, <1>6 DEF IsNumber, NUL, Space
<1>. QED
  BY <1>7 DEF t, n

(* A byte before a sequence.                                               *)
LEMMA ByteBefore ==
  ASSUME NEW s \in Seq(Byte), NEW b \in Byte
  PROVE  /\ <<b>> \o s \in Seq(Byte) /\ Len(<<b>> \o s) = Len(s) + 1
         /\ (<<b>> \o s)[1] = b
         /\ \A i \in 1 .. Len(s) : (<<b>> \o s)[i + 1] = s[i]
<1>. DEFINE z == <<b>>
<1>1. z \in Seq(Byte) /\ Len(z) = 1 /\ z[1] = b /\ Len(s) \in Nat
  OBVIOUS
<1>. HIDE DEF z
<1>2. /\ z \o s \in Seq(Byte) /\ Len(z \o s) = Len(z) + Len(s)
      /\ \A i \in 1 .. Len(z) + Len(s) :
           (z \o s)[i] = IF i <= Len(z) THEN z[i] ELSE s[i - Len(z)]
  BY <1>1, ConcatProperties
<1>3. \A i \in 1 .. Len(s) : i + 1 \in 1 .. 1 + Len(s) /\ ~(i + 1 <= 1) /\ (i + 1) - 1 = i
  BY <1>1
<1>. QED
  BY <1>1, <1>2, <1>3 DEF z

(* A sign and a digit.                                                     *)
LEMMA NegativeOneDigit ==
  ASSUME NEW a \in 48 .. 57, NEW t \in Seq(Byte), Len(t) = 2, t[1] = 45, t[2] = a
  PROVE  IsNumber(t, -(a - 48))
<1>1. t # <<>>
  <2>1. Len(<<>>) = 0 /\ Len(t) # 0
    OBVIOUS
  <2>. QED
    BY <2>1, Zenon
<1>2. SignLength(t) = 1 /\ Sign(t) = -1 /\ SignLength(t) + 1 = 2
  BY <1>1 DEF SignLength, Sign
<1>3. DigitsFrom(t, 2) = 1
  <2>1. 2 \in 1 .. Len(t) + 1 /\ Len(t) + 1 - 2 = 1 /\ \A k \in 2 .. Len(t) : IsDigit(t[k])
    BY <1>1 DEF IsDigit
  <2>. QED
    BY <1>1, <2>1, DigitsToEnd
<1>4. DigitsValue(t, 2, 1) = a - 48
  BY <1>1, FewDigits
<1>5. Numeral(t).end = 2 /\ Numeral(t).value = a - 48
  BY <1>2, <1>3, <1>4 DEF Numeral
<1>. QED
  BY <1>1, <1>2, <1>5 DEF IsNumber, NUL, Space

(* A sign and two digits.                                                  *)
LEMMA NegativeTwoDigits ==
  ASSUME NEW a \in 48 .. 57, NEW b \in 48 .. 57,
         NEW t \in Seq(Byte), Len(t) = 3, t[1] = 45, t[2] = a, t[3] = b
  PROVE  IsNumber(t, -(10 * (a - 48) + b - 48))
<1>1. t # <<>>
  <2>1. Len(<<>>) = 0 /\ Len(t) # 0
    OBVIOUS
  <2>. QED
    BY <2>1, Zenon
<1>. DEFINE n == 10 * (a - 48) + b - 48
<1>2. SignLength(t) = 1 /\ Sign(t) = -1 /\ SignLength(t) + 1 = 2
  BY <1>1 DEF SignLength, Sign
<1>3. DigitsFrom(t, 2) = 2
  <2>1. 2 \in 1 .. Len(t) + 1 /\ Len(t) + 1 - 2 = 2 /\ \A k \in 2 .. Len(t) : k = 2 \/ k = 3
    OBVIOUS
  <2>2. IsDigit(t[2]) /\ IsDigit(t[3])
    BY DEF IsDigit
  <2>. QED
    BY <1>1, <2>1, <2>2, DigitsToEnd
<1>4. DigitsValue(t, 2, 2) = n
  <2>1. t[2] = a /\ t[2] \in Int /\ t[2 + 1] = b /\ t[2 + 1] \in Int
    BY <1>1
  <2>2. DigitsValue(t, 2, 2) = 10 * (t[2] - 48) + t[2 + 1] - 48
    BY ONLY <2>1, FewDigits, 2 \in Nat, t \in Seq(Byte)
  <2>. QED
    BY <2>1, <2>2
<1>5. Numeral(t).end = 3 /\ Numeral(t).value = n
  BY <1>2, <1>3, <1>4 DEF Numeral
<1>6. n \in Int
  OBVIOUS
<1>. HIDE DEF n
<1>7. IsNumber(t, -n)
  BY <1>1, <1>2, <1>5, <1>6 DEF IsNumber, NUL, Space
<1>. QED
  BY <1>7 DEF n

(* The text of a number is read as that number.                            *)
LEMMA SignedTextFacts ==
  ASSUME NEW v \in -91 .. 91
  PROVE  IsNumber(SignedText(v), v)
<1>1. CASE v >= 0
  <2>1. SignedText(v) = Text(v) /\ v \in 0 .. 99
    BY <1>1 DEF SignedText
  <2>2. PICK a \in 48 .. 57, b \in 48 .. 57 :
           \/ Text(v) = <<a>> /\ v = a - 48
           \/ Text(v) = <<a, b>> /\ v = 10 * (a - 48) + b - 48
    BY <2>1, TextFacts
  <2>3. IsNumber(<<a>>, a - 48) /\ IsNumber(<<a, b>>, 10 * (a - 48) + b - 48)
    BY OneDigit, TwoDigitNumber
  <2>. QED
    BY <2>1, <2>2, <2>3, Zenon
<1>2. CASE v < 0
  <2>1. SignedText(v) = <<45>> \o Text(-v) /\ -v \in 0 .. 99
    BY <1>2 DEF SignedText
  <2>2. PICK a \in 48 .. 57, b \in 48 .. 57 :
           \/ Text(-v) = <<a>> /\ -v = a - 48
           \/ Text(-v) = <<a, b>> /\ -v = 10 * (a - 48) + b - 48
    BY <2>1, TextFacts
  <2>. DEFINE u == Text(-v)
              t == <<45>> \o u
  <2>3. CASE u = <<a>> /\ -v = a - 48
    <3>0. u = <<a>>
      BY <2>3
    <3>. HIDE DEF u
    <3>1. u \in Seq(Byte) /\ Len(u) = 1 /\ u[1] = a
      BY <3>0 DEF Byte
    <3>2. /\ t \in Seq(Byte) /\ Len(t) = Len(u) + 1 /\ t[1] = 45
          /\ \A i \in 1 .. Len(u) : t[i + 1] = u[i]
      <4>1. 45 \in Byte
        BY DEF Byte
      <4>. QED
        BY <3>1, <4>1, ByteBefore
    <3>3. v = -(a - 48) /\ Len(t) = 2 /\ t[2] = a
      <4>1. 1 \in 1 .. Len(u)
        BY <3>1
      <4>. QED
        BY <2>3, <3>1, <3>2, <4>1
    <3>. HIDE DEF t
    <3>4. IsNumber(t, v)
      BY <3>2, <3>3, NegativeOneDigit
    <3>. QED
      BY <2>1, <3>4 DEF t, u
  <2>4. CASE u = <<a, b>> /\ -v = 10 * (a - 48) + b - 48
    <3>0. u = <<a, b>>
      BY <2>4
    <3>. HIDE DEF u
    <3>1. u \in Seq(Byte) /\ Len(u) = 2 /\ u[1] = a /\ u[2] = b
      BY <3>0 DEF Byte
    <3>2. /\ t \in Seq(Byte) /\ Len(t) = Len(u) + 1 /\ t[1] = 45
          /\ \A i \in 1 .. Len(u) : t[i + 1] = u[i]
      <4>1. 45 \in Byte
        BY DEF Byte
      <4>. QED
        BY <3>1, <4>1, ByteBefore
    <3>. HIDE DEF t
    <3>3. Len(t) = 3 /\ t[2] = a /\ t[3] = b
      <4>1. 1 \in 1 .. Len(u) /\ 2 \in 1 .. Len(u)
        BY <3>1
      <4>2. t[1 + 1] = a /\ t[2 + 1] = b
        BY <3>1, <3>2, <4>1
      <4>. QED
        BY <3>1, <3>2, <4>2
    <3>5. v = -(10 * (a - 48) + b - 48)
      BY <2>4
    <3>4. IsNumber(t, v)
      BY <3>2, <3>3, <3>5, NegativeTwoDigits
    <3>. QED
      BY <2>1, <3>4 DEF t, u
  <2>. QED
    BY <2>2, <2>3, <2>4
<1>. QED
  BY <1>1, <1>2

(* What follows the spaces of a field.                                     *)
LEMMA RightJustified ==
  ASSUME record \in Seq(Byte), NEW type, NEW f \in FieldsOf(type),
         NEW t \in Seq(Byte), Len(t) > 0, t[1] # Space, Written(f, t)
  PROVE  get_right_justified_string(record, f) = t
<1>. DEFINE s == get_bytes_readonly(record, f)
            n == f.size - Len(t)
            spaces == [i \in 1 .. n |-> Space]
<1>1. s \in Seq(Byte) /\ Len(s) = f.size /\ f.size \in Nat /\ Len(t) \in Nat
  BY FieldBytes
<1>2. n \in Nat /\ s = spaces \o t
  BY <1>1 DEF Written, dbf_record_bytes
<1>. HIDE DEF s
<1>3. spaces \in Seq(Byte) /\ Len(spaces) = n /\ \A i \in 1 .. n : spaces[i] = 32
  <2>. HIDE DEF n
  <2>1. n \in Nat /\ Space \in Byte /\ Space = 32
    BY <1>2 DEF Space, Byte
  <2>. QED
    BY <2>1
<1>. HIDE DEF spaces
<1>4. /\ \A i \in 1 .. n : s[i] = Space
      /\ s[n + 1] # Space
      /\ n + 1 \in 1 .. Len(s)
  <2>1. \A i \in 1 .. Len(spaces) + Len(t) :
          s[i] = IF i <= Len(spaces) THEN spaces[i] ELSE t[i - Len(spaces)]
    BY <1>2, <1>3, ConcatProperties
  <2>2. n + Len(t) = f.size /\ n + 1 \in 1 .. f.size
    BY <1>1, <1>2
  <2>. HIDE DEF n
  <2>3. n + 1 - n = 1 /\ ~(n + 1 <= n)
    BY <1>2
  <2>4. s[n + 1] = t[1]
    BY <1>3, <2>1, <2>2, <2>3
  <2>5. \A i \in 1 .. n : s[i] = 32
    BY <1>1, <1>2, <1>3, <2>1, <2>2
  <2>. QED
    BY <1>1, <2>2, <2>4, <2>5 DEF Space
<1>5. FirstByte(s) = n + 1
  <2>. DEFINE first == FirstByte(s)
  <2>1. /\ first \in 1 .. Len(s) + 1
        /\ first # Len(s) + 1 => s[first] # Space
        /\ \A i \in 1 .. Len(s) : i < first => s[i] = Space
    BY <1>1, FirstByteFacts
  <2>. HIDE DEF first, n
  <2>2. ~(n + 1 < first)
    BY <1>4, <2>1
  <2>3. first # Len(s) + 1
    BY <1>1, <1>2, <1>4, <2>1, <2>2
  <2>4. ~(first < n + 1)
    BY <1>1, <1>2, <1>4, <2>1, <2>3
  <2>5. first = n + 1
    BY <1>1, <1>2, <2>1, <2>2, <2>4
  <2>. QED
    BY <2>5 DEF first
<1>6. get_right_justified_string(record, f) = SubSeq(s, n + 1, Len(s))
  BY <1>5, RightJustifiedString DEF s
<1>7. SubSeq(s, n + 1, Len(s)) = t
  <2>1. Len(s) = n + Len(t)
    BY <1>1
  <2>. HIDE DEF n
  <2>. QED
    BY <1>1, <1>2, <1>3, <2>1
<1>. QED
  BY <1>6, <1>7

(* A number behind spaces is read back, if buf holds its text.             *)
LEMMA NumberCase ==
  ASSUME record \in Seq(Byte)
  PROVE  NumberReadsBack
<1>. SUFFICES ASSUME NEW f \in FieldsOf(NUMBER), NEW v \in -91 .. 91,
                     Written(f, SignedText(v))
              PROVE  dbf_record_strtoll(record, f) =
                       IF Len(SignedText(v)) < BufferSize THEN Success(v) ELSE Failed
  BY DEF NumberReadsBack
<1>. DEFINE t == SignedText(v)
<1>1. /\ t \in Seq(Byte) /\ Len(t) \in 1 .. 3
      /\ \A i \in 1 .. Len(t) : t[i] # NUL /\ t[i] # Space
      /\ Numeral(t).end = Len(t)
      /\ Sign(t) * Numeral(t).value = v
  BY SignedTextFacts DEF IsNumber
<1>. HIDE DEF t
<1>2. get_right_justified_string(record, f) = t
  BY <1>1, RightJustified DEF t
<1>3. CString(t) = t
  <2>1. CString(t) = SubSeq(t, 1, Len(t))
    BY <1>1, CStringIsPrefix
  <2>. QED
    BY <1>1, <2>1
<1>4. dbf_record_strtoll(record, f) = Converted(t, BufferSize, strtol(t, LongLongMax))
  BY <1>2, <1>3 DEF dbf_record_strtoll
<1>5. LongLongMax \in Nat /\ LongLongMax >= 91 /\ BufferSize \in Nat
  BY DbfFieldsAssumption, MCDbfFieldsAssumption
<1>6. strtol(t, LongLongMax) = [value |-> v, end |-> Len(t)]
  <2>1. Between(-LongLongMax - 1, v, LongLongMax) = v
    BY <1>5 DEF Between
  <2>. QED
    BY <1>1, <2>1 DEF strtol
<1>7. FitsBuffer(t, BufferSize) <=> Len(t) < BufferSize
  <2>. DEFINE l == Len(t)
  <2>1. FitsBuffer(t, BufferSize) <=> l \in 1 .. BufferSize - 1
    BY DEF FitsBuffer
  <2>2. l \in 1 .. 3
    BY <1>1
  <2>. HIDE DEF l
  <2>3. l \in 1 .. BufferSize - 1 <=> l < BufferSize
    BY <1>5, <2>2
  <2>. QED
    BY <2>1, <2>3 DEF l
<1>. QED
  BY <1>3, <1>4, <1>6, <1>7 DEF Converted, Success, t

-----------------------------------------------------------------------------
(* The time of day.                                                        *)

(* What a cast may make of a quotient: its whole number, or one less of a  *)
(* quotient that is whole and was not computed exactly, but not of 0.      *)
Cast(x, q, r, exact) == x = q \/ (x = q - 1 /\ r = 0 /\ ~exact /\ q > 0)

LEMMA TruncatedFacts ==
  ASSUME NEW d \in {1000, 60000, 3600000}, NEW q \in Nat, NEW r \in Nat, r < d,
         NEW n, n = d * q + r, NEW exact \in BOOLEAN, NEW x \in Truncated(n, d, exact)
  PROVE  Cast(x, q, r, exact)
<1>1. PICK err \in -1 .. 1 : x = cdiv(2 * n + err, 2 * d) /\ (exact => err = 0)
  BY SMT DEF Truncated
<1>2. d \in Nat /\ d >= 1000 /\ r \in Int /\ 0 <= r /\ r < d /\ err \in Int /\ -1 <= err /\ err <= 1
  BY SMT
<1>. DEFINE e == 2 * r + err
<1>3. e \in Int /\ -1 <= e /\ e < 2 * d /\ (e < 0 => r = 0 /\ err = -1)
  BY SMT, <1>2
<1>4. 2 * n + err = 2 * (d * q) + e
  <2>1. d * q \in Int
    BY SMT, <1>2
  <2>. DEFINE w == d * q
  <2>. HIDE DEF w
  <2>2. 2 * (w + r) + err = 2 * w + (2 * r + err)
    BY SMT, <1>2, <2>1 DEF w
  <2>. QED
    BY SMT, <2>2 DEF w
<1>. HIDE DEF e
<1>5. CASE e >= 0
  <2>1. cdiv(2 * (d * q) + e, 2 * d) = q
    <3>1. CASE d = 1000
      BY SMT, <1>3, <1>5, <3>1 DEF cdiv
    <3>2. CASE d = 60000
      BY SMT, <1>3, <1>5, <3>2 DEF cdiv
    <3>3. CASE d = 3600000
      <4>1. 2 * (d * q) + e = 7200000 * q + e /\ 2 * d = 7200000 /\ e < 7200000
        BY SMT, <1>3, <3>3
      <4>2. 7200000 * q + e >= 0 /\ (7200000 * q + e) \div 7200000 = q
        BY SMT, <1>3, <1>5, <4>1
      <4>. QED
        BY SMT, <4>1, <4>2 DEF cdiv
    <3>. QED
      BY SMT, <3>1, <3>2, <3>3
  <2>. QED
    BY SMT, <1>1, <1>4, <2>1 DEF Cast
<1>6. CASE e < 0
  <2>1. r = 0 /\ err = -1 /\ ~exact /\ e = -1
    BY SMT, <1>1, <1>3, <1>6 DEF e
  <2>2. cdiv(2 * (d * q) + e, 2 * d) = IF q = 0 THEN 0 ELSE q - 1
    <3>1. CASE d = 1000
      BY SMT, <2>1, <3>1 DEF cdiv
    <3>2. CASE d = 60000
      BY SMT, <2>1, <3>2 DEF cdiv
    <3>3. CASE d = 3600000
      <4>1. 2 * (d * q) + e = 7200000 * q - 1 /\ 2 * d = 7200000
        BY SMT, <2>1, <3>3
      <4>2. CASE q = 0
        BY SMT, <4>1, <4>2 DEF cdiv
      <4>3. CASE q > 0
        <5>1. 7200000 * q - 1 >= 0 /\ (7200000 * q - 1) \div 7200000 = q - 1
          BY SMT, <4>3
        <5>. QED
          BY SMT, <4>1, <4>3, <5>1 DEF cdiv
      <4>. QED
        BY SMT, <4>2, <4>3
    <3>. QED
      BY SMT, <3>1, <3>2, <3>3
  <2>. QED
    BY SMT, <1>1, <1>4, <2>1, <2>2 DEF Cast
<1>. QED
  BY SMT, <1>3, <1>5, <1>6

(* The hours, minutes, seconds and milliseconds of a time of day.          *)
DayLength == 86400000

TimeOf(h, m, s, u) == 3600000 * h + 60000 * m + 1000 * s + u

IsTime(h, m, s, u) == {h, m, s, u} \subseteq Nat /\ h < 24 /\ m < 60 /\ s < 60 /\ u < 1000

LEMMA TimeParts ==
  ASSUME NEW jt \in Nat, jt < DayLength
  PROVE  \E h, m, s, u : IsTime(h, m, s, u) /\ jt = TimeOf(h, m, s, u)
<1>. DEFINE h == jt \div 3600000
            a == jt - 3600000 * h
            m == a \div 60000
            c == a - 60000 * m
            s == c \div 1000
            u == c - 1000 * s
<1>1. h \in Nat /\ h < 24 /\ a \in Nat /\ a < 3600000
  BY SMT DEF DayLength
<1>. HIDE DEF h
<1>2. jt = 3600000 * h + a /\ a \in Int
  BY SMT, <1>1
<1>. HIDE DEF a
<1>3. m \in Nat /\ m < 60 /\ c \in Nat /\ c < 60000
  BY SMT, <1>1
<1>. HIDE DEF m
<1>4. a = 60000 * m + c /\ c \in Int
  BY SMT, <1>1, <1>3
<1>. HIDE DEF c
<1>5. s \in Nat /\ s < 60 /\ u \in Nat /\ u < 1000
  BY SMT, <1>3
<1>. HIDE DEF s
<1>6. c = 1000 * s + u /\ u \in Int
  BY SMT, <1>3, <1>5
<1>. HIDE DEF u
<1>7. jt = TimeOf(h, m, s, u)
  BY SMT, <1>1, <1>2, <1>3, <1>4, <1>5, <1>6 DEF TimeOf
<1>8. IsTime(h, m, s, u)
  BY SMT, <1>1, <1>3, <1>5 DEF IsTime
<1>. QED
  BY <1>7, <1>8, Zenon

(* The time of day is near, for every number of milliseconds in a day.     *)
LEMMA TimeIsNearFor ==
  ASSUME NEW jt \in Nat, jt < DayLength,
         NEW hour \in tm_hour(jt), NEW min \in tm_min(jt, hour), NEW sec \in tm_sec(jt, hour, min)
  PROVE  /\ hour \in 0 .. 23 /\ min \in 0 .. 59 /\ sec \in 0 .. 60
         /\ sec = 60 => jt % 60000 = 0
         /\ LostSeconds(jt, hour, min, sec) \in
              IF jt % 1000 = 0 /\ jt % 60000 # 0 THEN {0, 1} ELSE {0}
<1>1. PICK h, m, s, u : IsTime(h, m, s, u) /\ jt = TimeOf(h, m, s, u)
  BY TimeParts, Zenon
<1>2. jt = 3600000 * h + 60000 * m + 1000 * s + u
  BY SMT, <1>1 DEF TimeOf
<1>3. /\ h \in Int /\ 0 <= h /\ h <= 23 /\ m \in Int /\ 0 <= m /\ m <= 59
      /\ s \in Int /\ 0 <= s /\ s <= 59 /\ u \in Int /\ 0 <= u /\ u <= 999 /\ jt \in Int
  BY SMT, <1>1 DEF IsTime
<1>4. hour = h
  <2>. DEFINE r == 60000 * m + 1000 * s + u
  <2>1. r \in Nat /\ r < 3600000 /\ jt = 3600000 * h + r /\ h \in Nat
    BY SMT, <1>2, <1>3
  <2>2. r = 0 => h_exact(jt)
    BY SMT, <1>2, <1>3 DEF h_exact
  <2>. HIDE DEF r
  <2>3. h_exact(jt) \in BOOLEAN /\ 3600000 \in {1000, 60000, 3600000}
    BY SMT DEF h_exact
  <2>4. hour \in Truncated(jt, 3600000, h_exact(jt))
    BY SMT DEF tm_hour
  <2>5. Cast(hour, h, r, h_exact(jt))
    BY ONLY SMT, <2>1, <2>3, <2>4, TruncatedFacts
  <2>. QED
    BY ONLY SMT, <2>2, <2>5 DEF Cast
<1>5. min = m \/ (min = m - 1 /\ s = 0 /\ u = 0 /\ m > 0)
  <2>. DEFINE r == 1000 * s + u
              n == jt - 3600000 * hour
  <2>1. r \in Nat /\ r < 60000 /\ n = 60000 * m + r /\ m \in Nat /\ (r = 0 => s = 0 /\ u = 0)
    BY SMT, <1>2, <1>3, <1>4
  <2>2. min \in Truncated(n, 60000, h_exact(jt))
    BY SMT DEF tm_min
  <2>. HIDE DEF r, n
  <2>3. h_exact(jt) \in BOOLEAN /\ 60000 \in {1000, 60000, 3600000}
    BY SMT DEF h_exact
  <2>4. Cast(min, m, r, h_exact(jt))
    BY ONLY SMT, <2>1, <2>2, <2>3, TruncatedFacts
  <2>. QED
    BY ONLY SMT, <2>1, <2>4 DEF Cast
<1>6. /\ jt % 1000 = u /\ jt % 60000 = 1000 * s + u
      /\ jt \div 1000 = 3600 * h + 60 * m + s
  <2>1. jt % 1000 = u /\ jt \div 1000 = 3600 * h + 60 * m + s
    BY SMT, <1>2, <1>3
  <2>2. jt % 60000 = 1000 * s + u
    BY SMT, <1>2, <1>3
  <2>. QED
    BY SMT, <2>1, <2>2
<1>7. m_exact(jt) \in BOOLEAN /\ 1000 \in {1000, 60000, 3600000}
  BY SMT DEF m_exact
<1>8. s = 0 /\ u = 0 => m_exact(jt)
  BY SMT, <1>2, <1>3 DEF m_exact
<1>9. CASE min = m
  <2>. DEFINE n == jt - 3600000 * hour - 60000 * min
  <2>1. n = 1000 * s + u /\ s \in Nat /\ u \in Nat /\ u < 1000
    BY SMT, <1>2, <1>3, <1>4, <1>9
  <2>2. sec \in Truncated(n, 1000, m_exact(jt))
    BY SMT DEF tm_sec
  <2>. HIDE DEF n
  <2>3. Cast(sec, s, u, m_exact(jt))
    BY ONLY SMT, <1>7, <2>1, <2>2, TruncatedFacts
  <2>4. sec = s \/ (sec = s - 1 /\ u = 0 /\ s > 0)
    BY ONLY SMT, <2>3 DEF Cast
  <2>5. LostSeconds(jt, hour, min, sec) = s - sec
    BY SMT, <1>3, <1>4, <1>6, <1>9, <2>4 DEF LostSeconds
  <2>. QED
    BY SMT, <1>3, <1>4, <1>6, <1>9, <2>4, <2>5
<1>10. CASE min = m - 1 /\ s = 0 /\ u = 0 /\ m > 0
  <2>. DEFINE n == jt - 3600000 * hour - 60000 * min
  <2>1. n = 1000 * 60 + 0 /\ 60 \in Nat /\ 0 \in Nat /\ 0 < 1000
    BY SMT, <1>2, <1>3, <1>4, <1>10
  <2>2. sec \in Truncated(n, 1000, m_exact(jt))
    BY SMT DEF tm_sec
  <2>. HIDE DEF n
  <2>3. Cast(sec, 60, 0, m_exact(jt))
    BY ONLY SMT, <1>7, <2>1, <2>2, TruncatedFacts
  <2>4. sec = 60
    BY ONLY SMT, <1>8, <1>10, <2>3 DEF Cast
  <2>5. LostSeconds(jt, hour, min, sec) = 0
    BY SMT, <1>3, <1>4, <1>6, <1>10, <2>4 DEF LostSeconds
  <2>. QED
    BY SMT, <1>3, <1>4, <1>6, <1>10, <2>4, <2>5
<1>. QED
  BY SMT, <1>5, <1>9, <1>10

(* The times of day that a behaviour counts.                               *)
LEMMA TimeCase ==
  ASSUME count \in Nat
  PROVE  TimeIsNear
<1>1. ASSUME NEW jt \in TimesOfDay
      PROVE  jt \in Nat /\ jt < DayLength
  <2>1. PICK unit \in {53, 60, 3600}, ms \in {0, 1, 500, 999} :
          jt = 1000 * ((unit * count) % 86400) + ms
    BY SMT, <1>1 DEF TimesOfDay
  <2>2. (unit * count) % 86400 \in Nat /\ (unit * count) % 86400 < 86400
    <3>1. unit * count \in Nat
      BY SMT
    <3>. QED
      BY SMT, <3>1
  <2>. QED
    BY SMT, <2>1, <2>2 DEF DayLength
<1>2. ASSUME NEW jt \in TimesOfDay, NEW hour \in tm_hour(jt),
             NEW min \in tm_min(jt, hour), NEW sec \in tm_sec(jt, hour, min)
      PROVE  /\ hour \in 0 .. 23 /\ min \in 0 .. 59 /\ sec \in 0 .. 60
             /\ sec = 60 => jt % 60000 = 0
             /\ LostSeconds(jt, hour, min, sec) \in
                  IF jt % 1000 = 0 /\ jt % 60000 # 0 THEN {0, 1} ELSE {0}
  BY SMT, <1>1, TimeIsNearFor
<1>. QED
  BY SMT, <1>2 DEF TimeIsNear

-----------------------------------------------------------------------------
(* Days and their numbers.                                                 *)

(* The number of a day in closed form: years begin in March, so that the   *)
(* leap day is the last, and MonthStart counts the days before a month     *)
(* from 122 days before March on, as dbf_jd_to_tm does.                    *)
ShiftedYear(d) == IF d.month > 2 THEN d.year ELSE d.year - 1

MonthStart == <<428, 459, 122, 153, 183, 214, 244, 275, 306, 336, 367, 397>>

DayInYear(d) == MonthStart[d.month] + d.day

YearStart(k) == (1461 * k) \div 4

JulianNumber(d) == YearStart(ShiftedYear(d) + 4716) + DayInYear(d) - 1524

Centuries(y) == 2 - (y \div 100) + (y \div 400)

DayNumber(d) ==
  JulianNumber(d) + (IF Gregorian(d) THEN Centuries(ShiftedYear(d)) ELSE 0)

(* The days of the calendar, from the first day on.                        *)
IsDate(d) ==
  /\ d = [year |-> d.year, month |-> d.month, day |-> d.day]
  /\ d.year \in Int /\ d.month \in 1 .. 12 /\ d.day \in 1 .. 31
  /\ d.day <= LastOfMonth(d)
  /\ d.year >= -4712
  /\ ~(d.year = 1582 /\ d.month = 10 /\ d.day > 4 /\ d.day < 15)

(* A year has 365 days, and 366 where the fourth one begins.               *)
LEMMA YearLength ==
  ASSUME NEW k \in Int
  PROVE  /\ YearStart(k) \in Int
         /\ YearStart(k) = YearStart(k - 1) + (IF k % 4 = 0 THEN 366 ELSE 365)
<1>. DEFINE q == k \div 4
            r == k % 4
<1>1. q \in Int /\ r \in 0 .. 3 /\ k = 4 * q + r
  BY SMT
<1>. HIDE DEF q, r
<1>2. 1461 * k = 4 * (1461 * q) + 1461 * r
  BY SMT, <1>1
<1>3. 1461 * (k - 1) = 4 * (1461 * q) + 1461 * r - 1461
  BY SMT, <1>1, <1>2
<1>4. (1461 * k) \div 4 = 1461 * q + ((1461 * r) \div 4)
  BY SMT, <1>1, <1>2
<1>5. (1461 * (k - 1)) \div 4 = 1461 * q + ((1461 * r - 1461) \div 4)
  BY SMT, <1>1, <1>3
<1>. QED
  BY SMT, <1>1, <1>4, <1>5 DEF YearStart, r

(* The days of a month.                                                    *)
LEMMA MonthFacts ==
  ASSUME NEW d, IsDate(d)
  PROVE  /\ d.month \notin {2, 4, 6, 9, 11} => LastOfMonth(d) = 31
         /\ d.month \in {4, 6, 9, 11} => LastOfMonth(d) = 30
         /\ d.month = 2 => LastOfMonth(d) = IF LeapYear(d) THEN 29 ELSE 28
BY SMT DEF IsDate, LastOfMonth

(* The days of the year before a month, from the one before.               *)
LEMMA MonthStarts ==
  ASSUME NEW d, IsDate(d)
  PROVE  /\ MonthStart[d.month] \in 122 .. 459
         /\ d.month < 12 /\ d.month # 2 =>
              MonthStart[d.month + 1] = MonthStart[d.month] + LastOfMonth(d)
         /\ MonthStart[1] = MonthStart[12] + 31
         /\ MonthStart[3] = 122 /\ MonthStart[2] = 459
<1>1. d.month \in {1, 2, 3, 4, 5, 6, 7, 8, 9, 10, 11, 12}
  BY DEF IsDate
<1>. QED
  BY SMT, <1>1, MonthFacts DEF MonthStart

(* The 15th of October follows the 4th.                                    *)
LEMMA ReformDay ==
  ASSUME NEW d, d = [year |-> 1582, month |-> 10, day |-> 4]
  PROVE  IsDate(DayAfter(d)) /\ DayNumber(DayAfter(d)) = DayNumber(d) + 1
<1>1. DayAfter(d) = [year |-> 1582, month |-> 10, day |-> 15]
  BY SMT DEF DayAfter
<1>2. IsDate(DayAfter(d))
  BY SMT, <1>1 DEF IsDate, LastOfMonth
<1>3. ~Gregorian(d) /\ Gregorian(DayAfter(d))
  BY SMT, <1>1 DEF Gregorian
<1>4. Centuries(1582) = -10
  BY SMT DEF Centuries
<1>5. ShiftedYear(d) = 1582 /\ ShiftedYear(DayAfter(d)) = 1582
  BY SMT, <1>1 DEF ShiftedYear
<1>6. DayInYear(d) = MonthStart[10] + 4 /\ DayInYear(DayAfter(d)) = MonthStart[10] + 15
  BY SMT, <1>1 DEF DayInYear
<1>7. MonthStart[10] = 336
  BY SMT DEF MonthStart
<1>8. YearStart(1582 + 4716) \in Int
  BY SMT DEF YearStart
<1>. QED
  BY SMT, <1>2, <1>3, <1>4, <1>5, <1>6, <1>7, <1>8 DEF DayNumber, JulianNumber

(* The day after any other, by the length of the month.                    *)
LEMMA DayAfterForms ==
  ASSUME NEW d, IsDate(d), d # [year |-> 1582, month |-> 10, day |-> 4]
  PROVE  \/ /\ d.day < LastOfMonth(d)
            /\ DayAfter(d) = [year |-> d.year, month |-> d.month, day |-> d.day + 1]
         \/ /\ d.day = LastOfMonth(d) /\ d.month < 12
            /\ DayAfter(d) = [year |-> d.year, month |-> d.month + 1, day |-> 1]
         \/ /\ d.day = LastOfMonth(d) /\ d.month = 12
            /\ DayAfter(d) = [year |-> d.year + 1, month |-> 1, day |-> 1]
<1>1. /\ d = [year |-> d.year, month |-> d.month, day |-> d.day]
      /\ d.year \in Int /\ d.month \in 1 .. 12 /\ d.day \in 1 .. 31
      /\ d.day <= LastOfMonth(d)
  BY DEF IsDate
<1>2. LastOfMonth(d) \in Int
  BY SMT, <1>1, MonthFacts
<1>3. [d EXCEPT !.day = d.day + 1] = [year |-> d.year, month |-> d.month, day |-> d.day + 1]
  BY <1>1
<1>5. CASE d.day < LastOfMonth(d)
  <2>1. DayAfter(d) = [d EXCEPT !.day = d.day + 1]
    BY SMT, <1>5 DEF DayAfter
  <2>. QED
    BY <1>3, <1>5, <2>1
<1>6. CASE ~(d.day < LastOfMonth(d)) /\ d.month < 12
  <2>1. DayAfter(d) = [year |-> d.year, month |-> d.month + 1, day |-> 1]
    BY SMT, <1>6 DEF DayAfter
  <2>. QED
    BY <1>1, <1>2, <1>6, <2>1
<1>7. CASE ~(d.day < LastOfMonth(d)) /\ ~(d.month < 12)
  <2>1. DayAfter(d) = [year |-> d.year + 1, month |-> 1, day |-> 1]
    BY SMT, <1>7 DEF DayAfter
  <2>. QED
    BY <1>1, <1>2, <1>7, <2>1
<1>. QED
  BY <1>5, <1>6, <1>7

(* It is of the same calendar.                                             *)
LEMMA SameCalendar ==
  ASSUME NEW d, IsDate(d), d # [year |-> 1582, month |-> 10, day |-> 4]
  PROVE  /\ IsDate(DayAfter(d))
         /\ Gregorian(DayAfter(d)) <=> Gregorian(d)
<1>. DEFINE e == DayAfter(d)
<1>1. /\ d = [year |-> d.year, month |-> d.month, day |-> d.day]
      /\ d.year \in Int /\ d.month \in 1 .. 12 /\ d.day \in 1 .. 31
      /\ d.year >= -4712
      /\ ~(d.year = 1582 /\ d.month = 10 /\ d.day > 4 /\ d.day < 15)
  BY DEF IsDate
<1>2. ~(d.year = 1582 /\ d.month = 10 /\ d.day = 4)
  BY <1>1
<1>3. LastOfMonth(d) \in 28 .. 31 /\ (d.month \in {10, 12} => LastOfMonth(d) = 31)
  BY SMT, <1>1, MonthFacts
<1>4. ASSUME e = [year |-> d.year, month |-> d.month, day |-> d.day + 1], d.day < LastOfMonth(d)
      PROVE  IsDate(e) /\ (Gregorian(e) <=> Gregorian(d))
  <2>. HIDE DEF e
  <2>0. /\ e.year = d.year /\ e.month = d.month /\ e.day = d.day + 1
        /\ e = [year |-> e.year, month |-> e.month, day |-> e.day]
    BY <1>4
  <2>1. Gregorian(e) <=> Gregorian(d)
    BY SMT, <1>1, <1>2, <2>0 DEF Gregorian
  <2>2. LastOfMonth(e) = LastOfMonth(d)
    BY SMT, <2>0, <2>1 DEF LastOfMonth, LeapYear
  <2>. QED
    BY SMT, <1>1, <1>2, <1>3, <1>4, <2>0, <2>1, <2>2 DEF IsDate
<1>5. ASSUME e = [year |-> d.year, month |-> d.month + 1, day |-> 1],
             d.day = LastOfMonth(d), d.month < 12
      PROVE  IsDate(e) /\ (Gregorian(e) <=> Gregorian(d))
  <2>. HIDE DEF e
  <2>0. /\ e.year = d.year /\ e.month = d.month + 1 /\ e.day = 1
        /\ e = [year |-> e.year, month |-> e.month, day |-> e.day]
    BY <1>5
  <2>1. Gregorian(e) <=> Gregorian(d)
    BY SMT, <1>1, <1>3, <1>5, <2>0 DEF Gregorian
  <2>2. LastOfMonth(e) >= 1 /\ LastOfMonth(e) \in Int
    BY SMT, <2>0 DEF LastOfMonth
  <2>. QED
    BY SMT, <1>1, <1>5, <2>0, <2>1, <2>2 DEF IsDate
<1>6. ASSUME e = [year |-> d.year + 1, month |-> 1, day |-> 1],
             d.day = LastOfMonth(d), d.month = 12
      PROVE  IsDate(e) /\ (Gregorian(e) <=> Gregorian(d))
  <2>. HIDE DEF e
  <2>0. /\ e.year = d.year + 1 /\ e.month = 1 /\ e.day = 1
        /\ e = [year |-> e.year, month |-> e.month, day |-> e.day]
    BY <1>6
  <2>1. Gregorian(e) <=> Gregorian(d)
    BY SMT, <1>1, <1>3, <1>6, <2>0 DEF Gregorian
  <2>2. LastOfMonth(e) = 31
    BY SMT, <2>0 DEF LastOfMonth
  <2>. QED
    BY SMT, <1>1, <1>6, <2>0, <2>1, <2>2 DEF IsDate
<1>. HIDE DEF e
<1>7. \/ /\ d.day < LastOfMonth(d)
         /\ e = [year |-> d.year, month |-> d.month, day |-> d.day + 1]
      \/ /\ d.day = LastOfMonth(d) /\ d.month < 12
         /\ e = [year |-> d.year, month |-> d.month + 1, day |-> 1]
      \/ /\ d.day = LastOfMonth(d) /\ d.month = 12
         /\ e = [year |-> d.year + 1, month |-> 1, day |-> 1]
  BY SMT, DayAfterForms DEF e
<1>. QED
  BY <1>4, <1>5, <1>6, <1>7 DEF e

(* Years of the Gregorian calendar: one in four has a leap day, but one    *)
(* century in four only.                                                   *)
CenturyStep(y) == (IF y % 400 = 0 THEN 1 ELSE 0) - (IF y % 100 = 0 THEN 1 ELSE 0)

(* A century is one day short, but every fourth is not.                    *)
LEMMA CenturyLength ==
  ASSUME NEW y \in Int
  PROVE  /\ Centuries(y) \in Int
         /\ Centuries(y) = Centuries(y - 1) + CenturyStep(y)
         /\ (y + 4716) % 4 = y % 4
<1>1. (y \div 100) = ((y - 1) \div 100) + (IF y % 100 = 0 THEN 1 ELSE 0)
  BY SMT
<1>2. (y \div 400) = ((y - 1) \div 400) + (IF y % 400 = 0 THEN 1 ELSE 0)
  BY SMT
<1>3. (y + 4716) % 4 = y % 4
  BY SMT
<1>. QED
  BY SMT, <1>1, <1>2, <1>3 DEF Centuries, CenturyStep

(* The numbers that a day's number is made of.                             *)
LEMMA DayNumberFacts ==
  ASSUME NEW d, IsDate(d)
  PROVE  /\ ShiftedYear(d) \in Int /\ DayInYear(d) \in Int
         /\ YearStart(ShiftedYear(d) + 4716) \in Int
         /\ Centuries(ShiftedYear(d)) \in Int
         /\ DayNumber(d) \in Int /\ JulianNumber(d) \in Int
<1>1. d.year \in Int /\ d.month \in 1 .. 12 /\ d.day \in 1 .. 31
  BY DEF IsDate
<1>2. ShiftedYear(d) \in Int
  BY SMT, <1>1 DEF ShiftedYear
<1>3. DayInYear(d) \in Int
  <2>1. MonthStart[d.month] \in Int
    BY SMT, MonthStarts
  <2>. QED
    BY SMT, <1>1, <2>1 DEF DayInYear
<1>4. YearStart(ShiftedYear(d) + 4716) \in Int
  BY SMT, <1>2, YearLength
<1>5. Centuries(ShiftedYear(d)) \in Int
  BY SMT, <1>2, CenturyLength
<1>. QED
  BY SMT, <1>2, <1>3, <1>4, <1>5 DEF DayNumber, JulianNumber

(* The next day has the next number.                                       *)
LEMMA NextNumber ==
  ASSUME NEW d, IsDate(d)
  PROVE  IsDate(DayAfter(d)) /\ DayNumber(DayAfter(d)) = DayNumber(d) + 1
<1>. DEFINE e == DayAfter(d)
<1>0. CASE d = [year |-> 1582, month |-> 10, day |-> 4]
  BY <1>0, ReformDay
<1>1. CASE d # [year |-> 1582, month |-> 10, day |-> 4]
  <2>1. /\ d.year \in Int /\ d.month \in 1 .. 12 /\ d.day \in 1 .. 31
        /\ LastOfMonth(d) \in Int
    BY SMT, MonthFacts DEF IsDate
  <2>2. IsDate(e) /\ (Gregorian(e) <=> Gregorian(d))
    BY <1>1, SameCalendar
  <2>3. /\ ShiftedYear(d) \in Int /\ DayInYear(d) \in Int
        /\ YearStart(ShiftedYear(d) + 4716) \in Int
        /\ Centuries(ShiftedYear(d)) \in Int
    BY DayNumberFacts
  <2>4. ASSUME ShiftedYear(e) = ShiftedYear(d), DayInYear(e) = DayInYear(d) + 1
        PROVE  DayNumber(e) = DayNumber(d) + 1
    <3>. HIDE DEF e
    <3>. QED
      BY SMT, <2>2, <2>3, <2>4 DEF DayNumber, JulianNumber
  <2>5. CASE d.day < LastOfMonth(d) /\ e = [year |-> d.year, month |-> d.month, day |-> d.day + 1]
    <3>. HIDE DEF e
    <3>1. e.year = d.year /\ e.month = d.month /\ e.day = d.day + 1
      BY <2>5
    <3>2. ShiftedYear(e) = ShiftedYear(d)
      BY SMT, <3>1 DEF ShiftedYear
    <3>3. DayInYear(e) = DayInYear(d) + 1
      <4>1. MonthStart[d.month] \in Int
        BY SMT, MonthStarts
      <4>. QED
        BY SMT, <2>1, <3>1, <4>1 DEF DayInYear
    <3>. QED
      BY <2>2, <2>4, <3>2, <3>3 DEF e
  <2>6. CASE d.day = LastOfMonth(d) /\ d.month < 12 /\ d.month # 2
             /\ e = [year |-> d.year, month |-> d.month + 1, day |-> 1]
    <3>. HIDE DEF e
    <3>1. e.year = d.year /\ e.month = d.month + 1 /\ e.day = 1
      BY <2>6
    <3>2. ShiftedYear(e) = ShiftedYear(d)
      BY SMT, <2>1, <2>6, <3>1 DEF ShiftedYear
    <3>3. DayInYear(e) = DayInYear(d) + 1
      <4>1. MonthStart[d.month + 1] = MonthStart[d.month] + LastOfMonth(d) /\ MonthStart[d.month] \in Int
        BY SMT, <2>6, MonthStarts
      <4>. QED
        BY SMT, <2>1, <2>6, <3>1, <4>1 DEF DayInYear
    <3>. QED
      BY <2>2, <2>4, <3>2, <3>3 DEF e
  <2>7. CASE d.day = LastOfMonth(d) /\ d.month = 2
             /\ e = [year |-> d.year, month |-> d.month + 1, day |-> 1]
    <3>. DEFINE y == d.year
                z == d.year - 1
    <3>. HIDE DEF e
    <3>1. e.year = d.year /\ e.month = 3 /\ e.day = 1
      BY <2>7
    <3>2. ShiftedYear(e) = y /\ ShiftedYear(d) = z
      BY SMT, <2>7, <3>1 DEF ShiftedYear
    <3>3. DayInYear(e) = 123 /\ DayInYear(d) = 459 + LastOfMonth(d)
      BY SMT, <2>7, <3>1, MonthStarts DEF DayInYear
    <3>4. LastOfMonth(d) = IF LeapYear(d) THEN 29 ELSE 28
      BY <2>7, MonthFacts
    <3>5. /\ YearStart(z + 4716) \in Int
          /\ YearStart(y + 4716) = YearStart(z + 4716) + (IF y % 4 = 0 THEN 366 ELSE 365)
      <4>1. (y + 4716) % 4 = y % 4
        BY <2>1, CenturyLength
      <4>2. (y + 4716) - 1 = z + 4716
        BY SMT, <2>1
      <4>. QED
        BY SMT, <2>1, <4>1, <4>2, YearLength
    <3>6. /\ Centuries(z) \in Int
          /\ Centuries(y) = Centuries(z) + CenturyStep(y)
      <4>1. y \in Int /\ z = y - 1
        BY <2>1
      <4>. HIDE DEF y, z
      <4>2. z \in Int
        BY SMT, <4>1
      <4>3. Centuries(z) \in Int
        BY <4>2, CenturyLength
      <4>4. Centuries(y) = Centuries(y - 1) + CenturyStep(y)
        BY <4>1, CenturyLength
      <4>. QED
        BY <4>1, <4>3, <4>4
    <3>7. y % 400 = 0 => y % 100 = 0
      BY SMT, <2>1
    <3>8. y % 100 = 0 => y % 4 = 0
      BY SMT, <2>1
    <3>9. LeapYear(d) <=> y % 4 = 0 /\ (~Gregorian(d) \/ y % 100 # 0 \/ y % 400 = 0)
      BY DEF LeapYear
    <3>. HIDE DEF y, z
    <3>10. /\ JulianNumber(d) = YearStart(z + 4716) + 459 + LastOfMonth(d) - 1524
           /\ JulianNumber(e) = YearStart(y + 4716) + 123 - 1524
      BY SMT, <3>2, <3>3, <3>4, <3>5 DEF JulianNumber
    <3>11. CASE Gregorian(d)
      <4>1. DayNumber(d) = JulianNumber(d) + Centuries(z) /\ DayNumber(e) = JulianNumber(e) + Centuries(y)
        BY <2>2, <3>2, <3>11 DEF DayNumber
      <4>. QED
        BY SMT, <2>2, <3>4, <3>5, <3>6, <3>7, <3>8, <3>9, <3>10, <3>11, <4>1 DEF e, CenturyStep
    <3>12. CASE ~Gregorian(d)
      <4>1. DayNumber(d) = JulianNumber(d) + 0 /\ DayNumber(e) = JulianNumber(e) + 0
        BY <2>2, <3>2, <3>12 DEF DayNumber
      <4>. QED
        BY SMT, <2>2, <3>4, <3>5, <3>9, <3>10, <3>12, <4>1 DEF e
    <3>. QED
      BY <3>11, <3>12
  <2>8. CASE d.day = LastOfMonth(d) /\ d.month = 12
             /\ e = [year |-> d.year + 1, month |-> 1, day |-> 1]
    <3>. HIDE DEF e
    <3>1. e.year = d.year + 1 /\ e.month = 1 /\ e.day = 1
      BY <2>8
    <3>2. ShiftedYear(e) = ShiftedYear(d)
      BY SMT, <2>1, <2>8, <3>1 DEF ShiftedYear
    <3>3. DayInYear(e) = DayInYear(d) + 1
      <4>1. LastOfMonth(d) = 31
        BY SMT, <2>8, MonthFacts
      <4>2. MonthStart[12] \in Int
        BY SMT, <2>8, MonthStarts
      <4>. QED
        BY SMT, <2>8, <3>1, <4>1, <4>2, MonthStarts DEF DayInYear
    <3>. QED
      BY <2>2, <2>4, <3>2, <3>3 DEF e
  <2>. HIDE DEF e
  <2>9. \/ d.day < LastOfMonth(d) /\ e = [year |-> d.year, month |-> d.month, day |-> d.day + 1]
        \/ d.day = LastOfMonth(d) /\ d.month < 12 /\ e = [year |-> d.year, month |-> d.month + 1, day |-> 1]
        \/ d.day = LastOfMonth(d) /\ d.month = 12 /\ e = [year |-> d.year + 1, month |-> 1, day |-> 1]
    BY SMT, <1>1, DayAfterForms DEF e
  <2>10. DayNumber(e) = DayNumber(d) + 1
    <3>1. d.month = 2 => d.month < 12
      BY <2>1
    <3>. QED
      BY SMT, <2>5, <2>6, <2>7, <2>8, <2>9, <3>1 DEF e
  <2>. QED
    BY <2>2, <2>10 DEF e
<1>. QED
  BY <1>0, <1>1

(* The parts of a date and the range of its day in the year; the last of   *)
(* them is a leap day.                                                     *)
LEMMA DayInYearRange ==
  ASSUME NEW d, IsDate(d)
  PROVE  /\ d.year \in Int /\ d.month \in 1 .. 12 /\ d.day \in 1 .. 31
         /\ DayInYear(d) \in 123 .. 488
         /\ DayInYear(d) = 488 => d.month = 2 /\ d.day = 29 /\ LeapYear(d)
         /\ d.month <= 2 => DayInYear(d) >= 429
         /\ d.month > 10 \/ d.month <= 2 => DayInYear(d) >= 368
         /\ d.month = 10 => DayInYear(d) = 336 + d.day
         /\ d.month > 2 /\ d.month < 10 => DayInYear(d) <= 337
<1>1. d.year \in Int /\ d.month \in 1 .. 12 /\ d.day \in 1 .. 31 /\ d.day <= LastOfMonth(d)
  BY DEF IsDate
<1>2. d.month \in {1, 2, 3, 4, 5, 6, 7, 8, 9, 10, 11, 12}
  BY SMT, <1>1
<1>3. DayInYear(d) = MonthStart[d.month] + d.day
  BY DEF DayInYear
<1>4. /\ LastOfMonth(d) \in Int
      /\ d.month = 9 => LastOfMonth(d) = 30
      /\ d.month = 2 => LastOfMonth(d) = (IF LeapYear(d) THEN 29 ELSE 28)
  BY SMT, <1>1, MonthFacts
<1>. QED
  BY SMT, <1>1, <1>2, <1>3, <1>4 DEF MonthStart

(* The month and its day, from the day in the year.                        *)
MonthNumber(n) == (10 * n) \div 306
DayOfMonth(n) == n - ((306 * MonthNumber(n)) \div 10)

(* The month and the day of a date come back from its day in the year, the *)
(* 31st of some months as the 0th of the month after.                      *)
LEMMA MonthOfDay ==
  ASSUME NEW d, IsDate(d)
  PROVE  LET e == MonthNumber(DayInYear(d))
             month == IF e > 13 THEN e - 13 ELSE e - 1
         IN  /\ e \in 4 .. 15
             /\ \/ month = d.month /\ DayOfMonth(DayInYear(d)) = d.day
                \/ /\ month = d.month + 1 /\ DayOfMonth(DayInYear(d)) = 0
                   /\ d.day = 31 /\ d.month \in {1, 3, 8}
<1>1. d.month \in 1 .. 12 /\ d.day \in 1 .. 31 /\ d.day <= LastOfMonth(d)
  BY DEF IsDate
<1>2. /\ LastOfMonth(d) \in Int
      /\ d.month \notin {2, 4, 6, 9, 11} => LastOfMonth(d) = 31
      /\ d.month \in {4, 6, 9, 11} => LastOfMonth(d) = 30
      /\ d.month = 2 => LastOfMonth(d) <= 29
  BY SMT, <1>1, MonthFacts
<1>. DEFINE n == DayInYear(d)
<1>3. n = MonthStart[d.month] + d.day
  BY DEF DayInYear
<1>. HIDE DEF n
<1>4. CASE d.month = 1
  <2>1. n \in 429 .. 459 /\ n = 428 + d.day
    BY SMT, <1>1, <1>2, <1>3, <1>4 DEF MonthStart
  <2>. QED
    BY SMT, <1>1, <1>4, <2>1 DEF MonthNumber, DayOfMonth, n
<1>5. CASE d.month = 2
  <2>1. n \in 460 .. 488 /\ n = 459 + d.day
    BY SMT, <1>1, <1>2, <1>3, <1>5 DEF MonthStart
  <2>. QED
    BY SMT, <1>1, <1>5, <2>1 DEF MonthNumber, DayOfMonth, n
<1>6. CASE d.month = 3
  <2>1. n \in 123 .. 153 /\ n = 122 + d.day
    BY SMT, <1>1, <1>2, <1>3, <1>6 DEF MonthStart
  <2>. QED
    BY SMT, <1>1, <1>6, <2>1 DEF MonthNumber, DayOfMonth, n
<1>7. CASE d.month = 4
  <2>1. n \in 154 .. 183 /\ n = 153 + d.day
    BY SMT, <1>1, <1>2, <1>3, <1>7 DEF MonthStart
  <2>. QED
    BY SMT, <1>1, <1>7, <2>1 DEF MonthNumber, DayOfMonth, n
<1>8. CASE d.month = 5
  <2>1. n \in 184 .. 214 /\ n = 183 + d.day
    BY SMT, <1>1, <1>2, <1>3, <1>8 DEF MonthStart
  <2>. QED
    BY SMT, <1>1, <1>8, <2>1 DEF MonthNumber, DayOfMonth, n
<1>9. CASE d.month = 6
  <2>1. n \in 215 .. 244 /\ n = 214 + d.day
    BY SMT, <1>1, <1>2, <1>3, <1>9 DEF MonthStart
  <2>. QED
    BY SMT, <1>1, <1>9, <2>1 DEF MonthNumber, DayOfMonth, n
<1>10. CASE d.month = 7
  <2>1. n \in 245 .. 275 /\ n = 244 + d.day
    BY SMT, <1>1, <1>2, <1>3, <1>10 DEF MonthStart
  <2>. QED
    BY SMT, <1>1, <1>10, <2>1 DEF MonthNumber, DayOfMonth, n
<1>11. CASE d.month = 8
  <2>1. n \in 276 .. 306 /\ n = 275 + d.day
    BY SMT, <1>1, <1>2, <1>3, <1>11 DEF MonthStart
  <2>. QED
    BY SMT, <1>1, <1>11, <2>1 DEF MonthNumber, DayOfMonth, n
<1>12. CASE d.month = 9
  <2>1. n \in 307 .. 336 /\ n = 306 + d.day
    BY SMT, <1>1, <1>2, <1>3, <1>12 DEF MonthStart
  <2>. QED
    BY SMT, <1>1, <1>12, <2>1 DEF MonthNumber, DayOfMonth, n
<1>13. CASE d.month = 10
  <2>1. n \in 337 .. 367 /\ n = 336 + d.day
    BY SMT, <1>1, <1>2, <1>3, <1>13 DEF MonthStart
  <2>. QED
    BY SMT, <1>1, <1>13, <2>1 DEF MonthNumber, DayOfMonth, n
<1>14. CASE d.month = 11
  <2>1. n \in 368 .. 397 /\ n = 367 + d.day
    BY SMT, <1>1, <1>2, <1>3, <1>14 DEF MonthStart
  <2>. QED
    BY SMT, <1>1, <1>14, <2>1 DEF MonthNumber, DayOfMonth, n
<1>15. CASE d.month = 12
  <2>1. n \in 398 .. 428 /\ n = 397 + d.day
    BY SMT, <1>1, <1>2, <1>3, <1>15 DEF MonthStart
  <2>. QED
    BY SMT, <1>1, <1>15, <2>1 DEF MonthNumber, DayOfMonth, n
<1>. QED
  BY <1>1, <1>4, <1>5, <1>6, <1>7, <1>8, <1>9, <1>10, <1>11, <1>12, <1>13, <1>14, <1>15 DEF n

(* The shifted year of a date, counted from one in which no day is         *)
(* negative, and the leap years among these years.                         *)
LEMMA ShiftedYearFacts ==
  ASSUME NEW d, IsDate(d)
  PROVE  /\ ShiftedYear(d) \in Int /\ ShiftedYear(d) + 4716 >= 3
         /\ ShiftedYear(d) = -4713 => DayInYear(d) >= 429
         /\ DayInYear(d) = 488 =>
              /\ (ShiftedYear(d) + 4716) % 4 = 3
              /\ Gregorian(d) => \/ (ShiftedYear(d) + 1) % 100 # 0
                                 \/ (ShiftedYear(d) + 1) % 400 = 0
         /\ d.year = IF d.month > 2 THEN ShiftedYear(d) ELSE ShiftedYear(d) + 1
<1>1. /\ d.year \in Int /\ d.year >= -4712 /\ d.month \in 1 .. 12
  BY DEF IsDate
<1>2. /\ DayInYear(d) \in Int
      /\ DayInYear(d) = 488 => d.month = 2 /\ LeapYear(d)
      /\ d.month <= 2 => DayInYear(d) >= 429
  BY SMT, DayInYearRange
<1>3. /\ ShiftedYear(d) \in Int /\ ShiftedYear(d) >= -4713
      /\ d.year = IF d.month > 2 THEN ShiftedYear(d) ELSE ShiftedYear(d) + 1
  BY SMT, <1>1 DEF ShiftedYear
<1>4. ASSUME DayInYear(d) = 488
      PROVE  /\ (ShiftedYear(d) + 4716) % 4 = 3
             /\ Gregorian(d) => \/ (ShiftedYear(d) + 1) % 100 # 0
                                \/ (ShiftedYear(d) + 1) % 400 = 0
  <2>1. d.month = 2 /\ LeapYear(d)
    BY <1>2, <1>4
  <2>2. d.year = ShiftedYear(d) + 1
    BY SMT, <1>3, <2>1
  <2>3. (ShiftedYear(d) + 1) % 4 = 0 /\ (~Gregorian(d) \/ d.year % 100 # 0 \/ d.year % 400 = 0)
    BY <2>1, <2>2 DEF LeapYear
  <2>. QED
    BY SMT, <1>3, <2>2, <2>3
<1>. QED
  BY SMT, <1>1, <1>2, <1>3, <1>4

(* A year begins after the days of the years before it.                    *)
LEMMA YearStartFacts ==
  ASSUME NEW k \in Int
  PROVE  /\ YearStart(k) \in Int /\ k % 4 \in 0 .. 3
         /\ 4 * YearStart(k) = 1461 * k - (k % 4)
<1>. DEFINE q == k \div 4
            r == k % 4
<1>1. q \in Int /\ r \in 0 .. 3 /\ k = 4 * q + r
  BY SMT
<1>. HIDE DEF q, r
<1>2. 1461 * k = 4 * (1461 * q) + 1461 * r
  BY SMT, <1>1
<1>3. (1461 * k) \div 4 = 1461 * q + ((1461 * r) \div 4)
  BY SMT, <1>1, <1>2
<1>4. 4 * ((1461 * r) \div 4) = 1461 * r - r
  BY SMT, <1>1
<1>. QED
  BY SMT, <1>1, <1>2, <1>3, <1>4 DEF YearStart, r

(* The year, from the number of a day in the Julian calendar.              *)
LEMMA YearOfDay ==
  ASSUME NEW d, IsDate(d)
  PROVE  LET b == JulianNumber(d) + 1524
             k == ShiftedYear(d) + 4716
         IN  /\ b \in Int /\ cdiv(20 * b - 2442, 7305) = k
             /\ cdiv(1461 * k, 4) = YearStart(k)
             /\ b - YearStart(k) = DayInYear(d)
<1>. DEFINE k == ShiftedYear(d) + 4716
            n == DayInYear(d)
            b == JulianNumber(d) + 1524
            s == YearStart(k)
            r == k % 4
<1>1. /\ k \in Int /\ k >= 3
      /\ n = 488 => r = 3
  BY SMT, ShiftedYearFacts
<1>2. n \in 123 .. 488
  BY DayInYearRange
<1>3. s \in Int /\ r \in 0 .. 3 /\ 4 * s = 1461 * k - r
  BY <1>1, YearStartFacts
<1>4. b = s + n
  BY SMT, <1>2, <1>3 DEF JulianNumber
<1>5. s = cdiv(1461 * k, 4)
  BY SMT, <1>1 DEF cdiv, YearStart
<1>. HIDE DEF k, n, b, s, r
<1>6. 20 * b - 2442 = 7305 * k + (20 * n - 5 * r - 2442)
  BY SMT, <1>1, <1>2, <1>3, <1>4
<1>7. /\ 20 * n - 5 * r - 2442 >= 0
      /\ 20 * n - 5 * r - 2442 < 7305
  BY SMT, <1>1, <1>2, <1>3
<1>8. cdiv(20 * b - 2442, 7305) = k
  <2>1. 20 * b - 2442 >= 0 /\ (20 * b - 2442) \div 7305 = k
    BY SMT, <1>1, <1>2, <1>3, <1>6, <1>7
  <2>. QED
    BY <2>1 DEF cdiv
<1>9. b \in Int /\ b - s = n
  BY SMT, <1>2, <1>3, <1>4
<1>. QED
  BY <1>5, <1>8, <1>9 DEF k, n, b, s

(* The numbers of days of the Gregorian calendar.                          *)
LEMMA GregorianNumbers ==
  ASSUME NEW d, IsDate(d)
  PROVE  /\ DayNumber(d) \in Nat
         /\ Gregorian(d) <=> DayNumber(d) >= 2299161
<1>. DEFINE y == ShiftedYear(d)
            k == y + 4716
            n == DayInYear(d)
            s == YearStart(k)
            c == Centuries(y)
<1>1. /\ y \in Int /\ k \in Int /\ k >= 3 /\ k = y + 4716
      /\ y = -4713 => n >= 429
      /\ d.year = IF d.month > 2 THEN y ELSE y + 1
  BY SMT, ShiftedYearFacts
<1>2. /\ d.year \in Int /\ d.month \in 1 .. 12 /\ d.day \in 1 .. 31
      /\ n \in 123 .. 488
      /\ d.month > 10 \/ d.month <= 2 => n >= 368
      /\ d.month = 10 => n = 336 + d.day
      /\ d.month > 2 /\ d.month < 10 => n <= 337
  BY ONLY IsDate(d), DayInYearRange, SMTT(20)
<1>3. s \in Int /\ k % 4 \in 0 .. 3 /\ 4 * s = 1461 * k - (k % 4)
  BY <1>1, YearStartFacts
<1>4. JulianNumber(d) = s + n - 1524
  BY DEF JulianNumber
<1>5. DayNumber(d) = s + n - 1524 + (IF Gregorian(d) THEN c ELSE 0)
  BY <1>4 DEF DayNumber
<1>6. /\ c \in Int
      /\ y = 1582 => c = -10
      /\ y >= 0 => 100 * c >= 200 - y
  BY SMT, <1>1 DEF Centuries
<1>7. Gregorian(d) <=> \/ d.year > 1582
                       \/ d.year = 1582 /\ d.month > 10
                       \/ d.year = 1582 /\ d.month = 10 /\ d.day >= 15
  BY SMT, <1>2 DEF Gregorian
<1>8. d.year = 1582 /\ d.month = 10 => d.day <= 4 \/ d.day >= 15
  BY SMT, <1>2 DEF IsDate
<1>. HIDE DEF y, k, n, s, c
<1>9. /\ y = 1582 => s = 2300344
      /\ y < 1582 => 4 * s <= 1461 * 6297
      /\ y > 1582 => 4 * s >= 1461 * 6299 + 1461 * (y - 1583) - 3
      /\ 4 * s >= 1461 * k - 3
  BY SMT, <1>1, <1>3
<1>10. CASE Gregorian(d)
  <2>1. DayNumber(d) = s + n - 1524 + c
    BY <1>5, <1>10
  <2>2. y > 1582 \/ (y = 1582 /\ n >= 351)
    BY SMT, <1>1, <1>2, <1>7, <1>10
  <2>3. DayNumber(d) >= 2299161 /\ DayNumber(d) \in Int
    BY SMT, <1>1, <1>2, <1>3, <1>6, <1>9, <2>1, <2>2
  <2>. QED
    BY SMT, <1>10, <2>3
<1>11. CASE ~Gregorian(d)
  <2>1. DayNumber(d) = s + n - 1524 + 0
    BY <1>5, <1>11
  <2>2. y < 1582 \/ (y = 1582 /\ n <= 340)
    BY SMT, <1>1, <1>2, <1>7, <1>8, <1>11
  <2>3. DayNumber(d) < 2299161 /\ DayNumber(d) \in Int
    BY SMT, <1>1, <1>2, <1>3, <1>6, <1>9, <2>1, <2>2
  <2>4. DayNumber(d) >= 0
    <3>1. CASE k = 3
      <4>1. y = -4713 /\ 4 * s >= 4380
        BY SMT, <1>1, <1>3, <1>9, <3>1
      <4>2. n >= 429 /\ s >= 1095
        BY SMT, <1>1, <1>3, <4>1
      <4>. QED
        BY SMT, <1>2, <1>3, <2>1, <4>2
    <3>2. CASE k > 3
      <4>1. s >= 1461
        BY SMT, <1>1, <1>3, <3>2
      <4>. QED
        BY SMT, <1>2, <1>3, <2>1, <4>1
    <3>. QED
      BY SMT, <1>1, <3>1, <3>2
  <2>. QED
    BY SMT, <1>11, <2>3, <2>4
<1>. QED
  BY <1>10, <1>11

(* The number j of the nth day of the year y, which begins at s.           *)
GregorianSum(y, n, s, j) ==
  /\ y \in Int /\ y >= 0 /\ n \in 123 .. 488 /\ s \in Int /\ j \in Int
  /\ 4 * s = 1461 * (y + 4716) - ((y + 4716) % 4)
  /\ j = s + n - 1524 + Centuries(y)
  /\ n = 488 => /\ (y + 4716) % 4 = 3
                /\ (y + 1) % 100 # 0 \/ (y + 1) % 400 = 0

(* The days that the Gregorian calendar leaves out, from the number of the *)
(* day.                                                                    *)
LEMMA CenturyOfDay ==
  ASSUME NEW y, NEW n, NEW s, NEW j, GregorianSum(y, n, s, j)
  PROVE  /\ (4 * j - 7468865) \div 146097 = (y \div 100) - 4
         /\ Centuries(y) = 2 - (y \div 100) + ((y \div 100) \div 4)
<1>0. /\ y \in Int /\ y >= 0 /\ n \in 123 .. 488 /\ s \in Int /\ j \in Int
      /\ 4 * s = 1461 * (y + 4716) - ((y + 4716) % 4)
      /\ j = s + n - 1524 + Centuries(y)
      /\ n = 488 => /\ (y + 4716) % 4 = 3
                    /\ (y + 1) % 100 # 0 \/ (y + 1) % 400 = 0
  BY SMT DEF GregorianSum
<1>. DEFINE h == y \div 100
            g == y % 100
            p == h \div 4
            q == h % 4
            r == (y + 4716) % 4
<1>1. h \in Int /\ g \in 0 .. 99 /\ y = 100 * h + g /\ h >= 0
  BY SMT, <1>0
<1>2. p \in Int /\ q \in 0 .. 3 /\ h = 4 * p + q
  BY SMT, <1>0, <1>1
<1>3. r = g % 4
  BY SMT, <1>0, <1>1
<1>4. y \div 400 = p
  <2>. HIDE DEF h, g, p, q, r
  <2>1. y = 400 * p + (100 * q + g) /\ 100 * q + g >= 0 /\ 100 * q + g < 400
    BY SMT, <1>0, <1>1, <1>2
  <2>. QED
    BY SMT, <1>0, <1>1, <1>2, <2>1
<1>5. Centuries(y) = 2 - h + p
  BY SMT, <1>0, <1>4 DEF Centuries
<1>6. n = 488 => r = 3 /\ (g # 99 \/ q = 3)
  <2>1. (y + 1) % 100 = (g + 1) % 100
    <3>. HIDE DEF h, g, p, q, r
    <3>. QED
      BY SMT, <1>0, <1>1
  <2>2. g = 99 /\ (y + 1) % 400 = 0 => q = 3
    <3>. HIDE DEF h, g, p, q, r
    <3>1. ASSUME g = 99 PROVE y + 1 = 400 * p + 100 * (q + 1)
      BY SMT, <1>0, <1>1, <1>2, <3>1
    <3>. QED
      BY SMT, <1>0, <1>1, <1>2, <3>1
  <2>. HIDE DEF h, g, p, q, r
  <2>3. g = 99 => (g + 1) % 100 = 0
    BY SMT, <1>0
  <2>. QED
    BY SMT, <1>0, <2>1, <2>2, <2>3 DEF r
<1>7. r \in 0 .. 3 /\ (g = 0 => r = 0) /\ (g = 99 => r = 3)
  BY SMT, <1>0, <1>1, <1>3
<1>. DEFINE rest == 1461 * g + 4 * n - r - q - 489
<1>8. 4 * j - 7468865 = 146097 * (h - 4) + rest
  <2>1. 4 * s = 1461 * (y + 4716) - r
    BY SMT, <1>0
  <2>. HIDE DEF h, g, p, q, r
  <2>2. 4 * j = 4 * s + 4 * n - 6096 + 4 * (2 - h + p)
    BY SMT, <1>0, <1>1, <1>2, <1>5
  <2>. QED
    BY SMT, <1>0, <1>1, <1>2, <1>7, <2>1, <2>2
<1>9. rest \in Int /\ rest >= 0 /\ rest < 146097
  <2>. HIDE DEF h, g, p, q, r
  <2>. QED
    BY SMT, <1>0, <1>1, <1>2, <1>6, <1>7
<1>10. (4 * j - 7468865) \div 146097 = h - 4
  <2>. HIDE DEF h, g, p, q, r, rest
  <2>. QED
    BY SMT, <1>0, <1>1, <1>8, <1>9
<1>. QED
  BY SMT, <1>0, <1>5, <1>10

(* From the number of a day, the same day's number in the Julian calendar. *)
LEMMA GregorianDayIsJulian ==
  ASSUME NEW d, IsDate(d)
  PROVE  GregorianDay(DayNumber(d)) = JulianNumber(d)
<1>. DEFINE j == DayNumber(d)
            y == ShiftedYear(d)
            n == DayInYear(d)
            s == YearStart(y + 4716)
<1>1. j \in Nat /\ (Gregorian(d) <=> j >= 2299161)
  BY SMT, GregorianNumbers
<1>2. JulianNumber(d) \in Int /\ y \in Int
  BY SMT, DayNumberFacts
<1>3. CASE ~Gregorian(d)
  <2>1. j = JulianNumber(d) + 0
    BY SMT, <1>3 DEF DayNumber
  <2>. HIDE DEF j
  <2>2. ~(j >= 2299161)
    BY SMT, <1>1, <1>3
  <2>3. GregorianDay(j) = j
    BY SMT, <2>2 DEF GregorianDay, GregorianFrom
  <2>. QED
    BY SMT, <1>2, <2>1, <2>3 DEF j
<1>4. CASE Gregorian(d)
  <2>1. j = s + n - 1524 + Centuries(y)
    BY SMT, <1>4 DEF DayNumber, JulianNumber
  <2>2. n \in 123 .. 488
    BY SMT, DayInYearRange
  <2>3. s \in Int /\ 4 * s = 1461 * (y + 4716) - ((y + 4716) % 4)
    <3>1. y + 4716 \in Int
      BY SMT, <1>2
    <3>. QED
      BY SMT, <3>1, YearStartFacts
  <2>4. n = 488 => /\ (y + 4716) % 4 = 3
                   /\ (y + 1) % 100 # 0 \/ (y + 1) % 400 = 0
    BY SMT, <1>4, ShiftedYearFacts
  <2>5. y >= 0
    <3>1. d.year >= 1582 /\ d.year \in Int
      <4>1. d.year \in Int /\ d.month \in 1 .. 12 /\ d.day \in 1 .. 31
        BY SMT, DayInYearRange
      <4>. QED
        BY SMT, <1>4, <4>1 DEF Gregorian
    <3>. QED
      BY SMT, <3>1 DEF ShiftedYear
  <2>6. JulianNumber(d) = s + n - 1524
    BY SMT DEF JulianNumber
  <2>. HIDE DEF j, y, n, s
  <2>7. j \in Int
    BY SMT, <1>1
  <2>8. /\ (4 * j - 7468865) \div 146097 = (y \div 100) - 4
        /\ Centuries(y) = 2 - (y \div 100) + ((y \div 100) \div 4)
    <3>1. GregorianSum(y, n, s, j)
      BY SMT, <1>2, <2>1, <2>2, <2>3, <2>4, <2>5, <2>7 DEF GregorianSum
    <3>. QED
      BY SMT, <3>1, CenturyOfDay
  <2>9. j >= 2299161 /\ 4 * j - 7468865 >= 0
    BY SMT, <1>1, <1>4
  <2>10. cdiv(4 * j - 7468865, 146097) = (y \div 100) - 4
    BY SMT, <2>8, <2>9 DEF cdiv
  <2>11. ((y \div 100) - 4) \div 4 = ((y \div 100) \div 4) - 1
    BY SMT, <1>2
  <2>12. GregorianDay(j) = j + 1 + ((y \div 100) - 4) - (((y \div 100) \div 4) - 1)
    BY SMT, <2>9, <2>10, <2>11 DEF GregorianDay, GregorianFrom
  <2>13. y \div 100 \in Int /\ (y \div 100) \div 4 \in Int
    BY SMT, <1>2
  <2>. QED
    BY SMT, <1>2, <2>1, <2>2, <2>3, <2>6, <2>7, <2>8, <2>12, <2>13 DEF j
<1>. QED
  BY SMT, <1>3, <1>4

(* What dbf_jd_to_tm computes of the number of a day: its date, or the 0th *)
(* of the month after.                                                     *)
LEMMA JulianDateForms ==
  ASSUME NEW d, IsDate(d)
  PROVE  \/ julian_date(DayNumber(d)) = d
         \/ /\ julian_date(DayNumber(d)) = [year |-> d.year, month |-> d.month + 1, day |-> 0]
            /\ d.day = 31 /\ d.month \in {1, 3, 8}
<1>. DEFINE k == ShiftedYear(d) + 4716
            n == DayInYear(d)
            b == GregorianDay(DayNumber(d)) + 1524
            e == MonthNumber(n)
            month == IF e > 13 THEN e - 13 ELSE e - 1
            day == IF month = 2 /\ DayOfMonth(n) > 28 THEN 29 ELSE DayOfMonth(n)
            year == IF (month = 2 /\ day = 29 /\ e = 3) \/ month > 2 THEN k - 4716 ELSE k - 4715
<1>1. /\ d = [year |-> d.year, month |-> d.month, day |-> d.day]
      /\ d.year \in Int /\ d.month \in 1 .. 12 /\ d.day \in 1 .. 31
      /\ d.day <= LastOfMonth(d)
  BY DEF IsDate
<1>2. /\ e \in 4 .. 15
      /\ \/ month = d.month /\ DayOfMonth(n) = d.day
         \/ month = d.month + 1 /\ DayOfMonth(n) = 0 /\ d.day = 31 /\ d.month \in {1, 3, 8}
  BY MonthOfDay
<1>3. /\ ShiftedYear(d) \in Int /\ k \in Int
      /\ d.year = IF d.month > 2 THEN k - 4716 ELSE k - 4715
  <2>1. ShiftedYear(d) \in Int /\ d.year = IF d.month > 2 THEN ShiftedYear(d) ELSE ShiftedYear(d) + 1
    BY ShiftedYearFacts
  <2>. QED
    BY SMT, <1>1, <2>1
<1>4. /\ cdiv(20 * b - 2442, 7305) = k
      /\ cdiv(1461 * k, 4) = YearStart(k)
      /\ b - YearStart(k) = n
  BY GregorianDayIsJulian, YearOfDay
<1>5. cdiv(10 * n, 306) = e
  <2>1. 10 * n >= 0
    BY SMT, DayInYearRange
  <2>. QED
    BY <2>1 DEF cdiv, MonthNumber
<1>6. n - cdiv(306 * e, 10) = DayOfMonth(n)
  <2>1. 306 * e >= 0
    BY SMT, <1>2
  <2>. QED
    BY <2>1 DEF cdiv, DayOfMonth
<1>7. julian_date(DayNumber(d)) = [year |-> year, month |-> month, day |-> day]
  <2>. HIDE DEF k, n, e
  <2>. QED
    BY <1>4, <1>5, <1>6 DEF julian_date
<1>8. d.month = 2 => d.day <= 29
  BY SMT, <1>1, MonthFacts
<1>9. CASE month = d.month /\ DayOfMonth(n) = d.day
  <2>. HIDE DEF k, n, e
  <2>1. day = d.day
    BY SMT, <1>1, <1>8, <1>9
  <2>2. year = d.year
    BY SMT, <1>1, <1>2, <1>3, <1>9, <2>1
  <2>. QED
    BY <1>1, <1>7, <1>9, <2>1, <2>2
<1>10. CASE month = d.month + 1 /\ DayOfMonth(n) = 0 /\ d.day = 31 /\ d.month \in {1, 3, 8}
  <2>. HIDE DEF k, n, e
  <2>1. day = 0
    BY SMT, <1>10
  <2>2. year = d.year
    BY SMT, <1>1, <1>2, <1>3, <1>10, <2>1
  <2>. QED
    BY <1>7, <1>10, <2>1, <2>2
<1>. QED
  BY <1>2, <1>9, <1>10

(* The day that dbf_jd_to_tm computes is the day of that number.           *)
LEMMA SameDayCase ==
  ASSUME NEW d, IsDate(d)
  PROVE  SameDay(julian_date(DayNumber(d))) = d
<1>. DEFINE r == julian_date(DayNumber(d))
<1>1. /\ d = [year |-> d.year, month |-> d.month, day |-> d.day]
      /\ d.year \in Int /\ d.month \in 1 .. 12 /\ d.day \in 1 .. 31
  BY DEF IsDate
<1>2. CASE r = d
  <2>. QED
    BY SMT, <1>1, <1>2 DEF SameDay
<1>3. CASE r = [year |-> d.year, month |-> d.month + 1, day |-> 0] /\ d.day = 31 /\ d.month \in {1, 3, 8}
  <2>. HIDE DEF r
  <2>1. r.year = d.year /\ r.month - 1 = d.month /\ ~(r.day > 0)
    BY SMT, <1>1, <1>3
  <2>2. [r EXCEPT !.month = r.month - 1] = [year |-> d.year, month |-> d.month, day |-> 0]
    BY SMT, <1>1, <1>3
  <2>3. LastOfMonth([r EXCEPT !.month = r.month - 1]) = 31
    BY SMT, <1>3, <2>2 DEF LastOfMonth
  <2>4. SameDay(r) = [year |-> d.year, month |-> d.month, day |-> 31]
    BY <2>1, <2>3 DEF SameDay
  <2>. QED
    BY <1>1, <1>3, <2>4 DEF r
<1>. QED
  BY <1>2, <1>3, JulianDateForms

(* The days of the year that tm_yday counts: the 1st of January is the     *)
(* 0th, and the day after has the number after.                            *)
LEMMA NextYearDay ==
  ASSUME NEW d, IsDate(d), d.year > 1582
  PROVE  /\ tm_yday(d) \in Int
         /\ DayAfter(d).year = d.year => tm_yday(DayAfter(d)) = tm_yday(d) + 1
         /\ DayAfter(d).year \in {d.year, d.year + 1}
<1>1. /\ d.year \in Int /\ d.month \in 1 .. 12 /\ d.day \in 1 .. 31
      /\ d.day <= LastOfMonth(d) /\ LastOfMonth(d) \in Int
  BY SMT, MonthFacts DEF IsDate
<1>2. Gregorian(d)
  BY SMT, <1>1 DEF Gregorian
<1>3. is_leap_year(d.year) <=> LeapYear(d)
  BY <1>2 DEF is_leap_year, LeapYear
<1>. DEFINE before == <<0, 31, 59, 90, 120, 151, 181, 212, 243, 273, 304, 334>>
            leap == IF is_leap_year(d.year) THEN 1 ELSE 0
            e == DayAfter(d)
<1>4. d.month \in {1, 2, 3, 4, 5, 6, 7, 8, 9, 10, 11, 12}
  BY SMT, <1>1
<1>5. before[d.month] \in Int
  BY SMT, <1>4
<1>6. leap \in {0, 1}
  OBVIOUS
<1>7. d.month < 12 =>
        before[d.month + 1] + (IF d.month + 1 > 2 THEN leap ELSE 0)
          = before[d.month] + (IF d.month > 2 THEN leap ELSE 0) + LastOfMonth(d)
  <2>1. d.month = 2 => LastOfMonth(d) = 28 + leap
    BY SMT, <1>3, MonthFacts
  <2>2. /\ d.month \notin {2, 4, 6, 9, 11} => LastOfMonth(d) = 31
        /\ d.month \in {4, 6, 9, 11} => LastOfMonth(d) = 30
    BY SMT, MonthFacts
  <2>. HIDE DEF leap
  <2>. QED
    BY SMT, <1>4, <1>6, <2>1, <2>2
<1>. HIDE DEF before
<1>8. ASSUME NEW c, c.month \in 1 .. 12, c.year = d.year
      PROVE  tm_yday(c) = (before[c.month] + (IF c.month > 2 THEN leap ELSE 0) + c.day) - 1
  <2>1. (IF is_leap_year(c.year) /\ c.month > 2 THEN 1 ELSE 0) = (IF c.month > 2 THEN leap ELSE 0)
    BY <1>8
  <2>2. day_of_year(c.day, c.month, c.year)
          = before[c.month] + (IF is_leap_year(c.year) /\ c.month > 2 THEN 1 ELSE 0) + c.day
    BY DEF day_of_year, before
  <2>3. tm_yday(c) = day_of_year(c.day, c.month, c.year) - 1
    BY DEF tm_yday
  <2>. QED
    BY <2>1, <2>2, <2>3
<1>9. tm_yday(d) = (before[d.month] + (IF d.month > 2 THEN leap ELSE 0) + d.day) - 1
  BY <1>1, <1>8
<1>. HIDE DEF leap
<1>10. tm_yday(d) \in Int
  BY SMT, <1>1, <1>5, <1>6, <1>9
<1>11. d # [year |-> 1582, month |-> 10, day |-> 4]
  BY SMT
<1>12. \/ d.day < LastOfMonth(d) /\ e = [year |-> d.year, month |-> d.month, day |-> d.day + 1]
       \/ d.day = LastOfMonth(d) /\ d.month < 12 /\ e = [year |-> d.year, month |-> d.month + 1, day |-> 1]
       \/ d.day = LastOfMonth(d) /\ d.month = 12 /\ e = [year |-> d.year + 1, month |-> 1, day |-> 1]
  BY SMT, <1>11, DayAfterForms
<1>. HIDE DEF e
<1>13. CASE d.day < LastOfMonth(d) /\ e = [year |-> d.year, month |-> d.month, day |-> d.day + 1]
  <2>1. e.year = d.year /\ e.month = d.month /\ e.day = d.day + 1
    BY <1>13
  <2>2. tm_yday(e) = (before[d.month] + (IF d.month > 2 THEN leap ELSE 0) + (d.day + 1)) - 1
    BY <1>1, <1>8, <2>1
  <2>. QED
    BY SMT, <1>1, <1>5, <1>6, <1>9, <1>10, <2>1, <2>2 DEF e
<1>14. CASE d.day = LastOfMonth(d) /\ d.month < 12 /\ e = [year |-> d.year, month |-> d.month + 1, day |-> 1]
  <2>1. e.year = d.year /\ e.month = d.month + 1 /\ e.day = 1 /\ d.month + 1 \in 1 .. 12
    BY SMT, <1>1, <1>14
  <2>2. tm_yday(e) = (before[d.month + 1] + (IF d.month + 1 > 2 THEN leap ELSE 0) + 1) - 1
    BY <1>8, <2>1
  <2>3. tm_yday(e) = (before[d.month] + (IF d.month > 2 THEN leap ELSE 0) + LastOfMonth(d) + 1) - 1
    BY <1>7, <1>14, <2>2
  <2>. QED
    BY SMT, <1>1, <1>5, <1>6, <1>9, <1>10, <1>14, <2>1, <2>3 DEF e
<1>15. CASE d.day = LastOfMonth(d) /\ d.month = 12 /\ e = [year |-> d.year + 1, month |-> 1, day |-> 1]
  <2>1. e.year = d.year + 1
    BY <1>15
  <2>. QED
    BY SMT, <1>1, <1>10, <2>1 DEF e
<1>. QED
  BY <1>12, <1>13, <1>14, <1>15

(* The number in the year is that of the date, also where dbf_jd_to_tm has *)
(* the 0th of a month.                                                     *)
LEMMA YearDayCase ==
  ASSUME NEW d, IsDate(d)
  PROVE  tm_yday(julian_date(DayNumber(d))) = tm_yday(d)
<1>. DEFINE r == julian_date(DayNumber(d))
<1>1. d.year \in Int /\ d.month \in 1 .. 12 /\ d.day \in 1 .. 31
  BY DEF IsDate
<1>2. CASE r = [year |-> d.year, month |-> d.month + 1, day |-> 0] /\ d.day = 31 /\ d.month \in {1, 3, 8}
  <2>. HIDE DEF r
  <2>1. r.year = d.year /\ r.month = d.month + 1 /\ r.day = 0
    BY <1>2
  <2>. QED
    BY SMT, <1>1, <1>2, <2>1 DEF tm_yday, day_of_year, r
<1>. QED
  BY <1>2, JulianDateForms

(* The day of the week that day_of_week computes is the one that follows   *)
(* from the number of the day.                                             *)
LEMMA WeekDayCase ==
  ASSUME NEW d, IsDate(d), d.year > 1582
  PROVE  day_of_week(d.day, d.month, d.year) = (DayNumber(d) + 1) % 7
<1>1. /\ d.year \in Int /\ d.month \in 1 .. 12 /\ d.day \in 1 .. 31
  BY DEF IsDate
<1>2. Gregorian(d)
  BY SMT, <1>1 DEF Gregorian
<1>. DEFINE y == IF d.month < 3 THEN d.year - 1 ELSE d.year
            q == y \div 4
            h == y \div 100
            p == y \div 400
            t == <<0, 3, 2, 5, 0, 3, 5, 1, 4, 6, 2, 4>>[d.month]
            m == MonthStart[d.month]
            w == y + q - h + p + t + d.day
<1>3. y \in Int /\ y >= 1582 /\ y = ShiftedYear(d)
  BY SMT, <1>1 DEF ShiftedYear
<1>4. q \in Int /\ h \in Int /\ p \in Int /\ q - h >= 0 /\ p >= 0
  BY SMT, <1>3
<1>5. YearStart(y + 4716) = 365 * y + 1721340 + q + 1179
  <2>. DEFINE x == y % 4
  <2>1. x \in 0 .. 3 /\ y = 4 * q + x
    BY SMT, <1>3
  <2>. HIDE DEF y, q, x
  <2>2. 1461 * (y + 4716) = 4 * (1461 * (q + 1179)) + 1461 * x
    BY SMT, <1>3, <1>4, <2>1
  <2>3. (1461 * (y + 4716)) \div 4 = 1461 * (q + 1179) + ((1461 * x) \div 4)
    BY SMT, <1>3, <1>4, <2>1, <2>2
  <2>4. (1461 * x) \div 4 = 365 * x
    BY SMT, <2>1
  <2>. QED
    BY SMT, <1>3, <1>4, <2>1, <2>3, <2>4 DEF YearStart
<1>6. d.month \in {1, 2, 3, 4, 5, 6, 7, 8, 9, 10, 11, 12}
  BY SMT, <1>1
<1>7. /\ t \in 0 .. 6 /\ m \in Int
      /\ m - t \in {428, 456, 120, 148, 183, 211, 239, 274, 302, 330, 365, 393}
  <2>. HIDE DEF y, q, h, p
  <2>. QED
    BY SMT, <1>6 DEF MonthStart
<1>8. DayNumber(d) = YearStart(y + 4716) + (m + d.day) - 1524 + (2 - h + p)
  BY <1>2, <1>3 DEF DayNumber, JulianNumber, DayInYear, Centuries
<1>9. day_of_week(d.day, d.month, d.year) = w % 7
  <2>1. /\ cdiv(y, 4) = q /\ cdiv(y, 100) = h /\ cdiv(y, 400) = p
    <3>. HIDE DEF y
    <3>. QED
      BY SMT, <1>3 DEF cdiv
  <2>2. day_of_week(d.day, d.month, d.year) = cmod(y + q - h + p + t + d.day, 7)
    BY <2>1 DEF day_of_week
  <2>. HIDE DEF y, q, h, p, t
  <2>3. w \in Int /\ w >= 0
    BY SMT, <1>1, <1>3, <1>4, <1>7
  <2>. HIDE DEF w
  <2>4. cmod(w, 7) = w % 7
    BY SMT, <2>3 DEF cmod, cdiv
  <2>. QED
    BY <2>2, <2>4 DEF w
<1>. HIDE DEF y, q, h, p, t, m
<1>10. DayNumber(d) + 1 = w + (364 * y + 1720998 + (m - t)) /\ w \in Int
  BY SMT, <1>1, <1>3, <1>4, <1>5, <1>7, <1>8
<1>11. PICK z \in Int : 364 * y + 1720998 + (m - t) = 7 * z
  <2>. DEFINE g == m - t
  <2>1. g \in {428, 456, 120, 148, 183, 211, 239, 274, 302, 330, 365, 393}
    BY <1>7
  <2>. HIDE DEF g
  <2>2. (1720998 + g) % 7 = 0 /\ g \in Int
    BY SMT, <2>1
  <2>3. 1720998 + g = 7 * ((1720998 + g) \div 7) /\ (1720998 + g) \div 7 \in Int
    BY SMT, <2>2
  <2>4. 364 * y + 1720998 + g = 7 * (52 * y + ((1720998 + g) \div 7))
    BY SMT, <1>3, <2>2, <2>3
  <2>5. 52 * y + ((1720998 + g) \div 7) \in Int
    BY SMT, <1>3, <2>3
  <2>. QED
    BY SMT, <2>4, <2>5 DEF g
<1>. HIDE DEF w
<1>12. (w + 7 * z) % 7 = w % 7
  BY SMT, <1>10, <1>11
<1>. QED
  BY SMT, <1>9, <1>10, <1>11, <1>12

-----------------------------------------------------------------------------
(* Dates in texts.                                                         *)

(* An int of 16 bits or more, and a size_t, hold the number of a year of   *)
(* four digits.                                                            *)
LEMMA YearFits ==
  /\ 10000 < SizeModulus /\ SizeModulus \in Nat
  /\ \A v \in Nat : v <= 10000 => v % SizeModulus = v /\ int(v) = v
<1>1. IntMax \in Nat /\ SizeModulus \in Nat \ {0} /\ SizeModulus % (2 * (IntMax + 1)) = 0
  BY DbfDatesAssumption
<1>2. IntMax >= 32767
  BY SMT, MCDbfDatesAssumption
<1>. DEFINE m == 2 * (IntMax + 1)
<1>3. m \in Nat /\ m > 10000 /\ SizeModulus % m = 0 /\ 10000 <= IntMax
  BY SMT, <1>1, <1>2
<1>4. \A v \in Nat : int(v) = (IF v % m > IntMax THEN (v % m) - m ELSE v % m)
  BY DEF int
<1>. HIDE DEF m
<1>5. \A v \in Nat, w \in Nat : v < w => v % w = v
  BY SMT
<1>6. ~(SizeModulus < m)
  BY SMT, <1>1, <1>3, <1>5
<1>7. ASSUME NEW v \in Nat, v <= 10000
      PROVE  v % SizeModulus = v /\ int(v) = v
  <2>1. v < m /\ v < SizeModulus /\ ~(v > IntMax)
    BY SMT, <1>1, <1>3, <1>6, <1>7
  <2>2. v % m = v /\ v % SizeModulus = v
    BY SMT, <1>1, <1>3, <1>5, <2>1
  <2>. QED
    BY <1>4, <2>1, <2>2
<1>. QED
  BY SMT, <1>1, <1>3, <1>6, <1>7

(* The digits of a text that is all digits.                                *)
LEMMA AllDigits ==
  ASSUME NEW s \in Seq(Byte), \A i \in 1 .. Len(s) : IsDigit(s[i])
  PROVE  /\ TrailingDigits(s) = Len(s)
         /\ \A k \in Nat : k < Len(s) => Digit(s, k) = s[Len(s) - k] - 48
<1>. DEFINE others == {i \in 1 .. Len(s) : ~IsDigit(s[i])}
<1>1. others = {}
  OBVIOUS
<1>2. TrailingDigits(s) = Len(s) - (CHOOSE i \in others \cup {0} : \A j \in others : j <= i)
  BY DEF TrailingDigits
<1>. HIDE DEF others
<1>3. (CHOOSE i \in others \cup {0} : \A j \in others : j <= i) = 0
  BY <1>1
<1>4. TrailingDigits(s) = Len(s)
  <2>1. Len(s) - 0 = Len(s)
    OBVIOUS
  <2>. QED
    BY <1>2, <1>3, <2>1
<1>. QED
  BY <1>4 DEF Digit

(* The value of the digits of a year and the place of the next digit.      *)
YearStep(text, before, k) ==
  [value |-> int((before.value + before.z * Digit(text, k)) % SizeModulus),
   z     |-> (before.z * 10) % SizeModulus]

(* The year of a text comes digit by digit.                                *)
LEMMA YearOfFacts ==
  ASSUME NEW s, \A k \in Nat : Digit(s, k) \in Int,
         NEW n \in Nat, n = TrailingDigits(s), n >= 5
  PROVE  \E f : /\ YearOf(s) = f[n - 1].value
                /\ \A k \in 3 .. n : f[k] = IF k = 3 THEN [value |-> 0, z |-> 1]
                                            ELSE YearStep(s, f[k - 1], k)
<1>. DEFINE V == [value : Int, z : Int]
            first == [value |-> 0, z |-> 1]
            Year(f) == f = [k \in 3 .. n |-> IF k = 3 THEN first ELSE YearStep(s, f[k - 1], k)]
            years == CHOOSE f : Year(f)
            G == [k \in 3 + 1 .. n |-> [v \in V |-> YearStep(s, v, k)]]
<1>1. \A k \in 3 + 1 .. n : \A v \in V : YearStep(s, v, k) \in V
  <2>1. SUFFICES ASSUME NEW k \in 3 + 1 .. n, NEW v \in V
                 PROVE  YearStep(s, v, k) \in V
    OBVIOUS
  <2>2. k \in Nat /\ v.value \in Int /\ v.z \in Int
    OBVIOUS
  <2>3. \A a \in Int : a % SizeModulus \in Int
    BY DbfDatesAssumption
  <2>4. \A a \in Int : int(a) \in Int
    <3>1. 2 * (IntMax + 1) \in Nat \ {0} /\ IntMax \in Nat
      BY DbfDatesAssumption
    <3>2. \A a \in Int : a % (2 * (IntMax + 1)) \in Int
      BY <3>1
    <3>. QED
      BY <3>1, <3>2 DEF int
  <2>5. v.value + v.z * Digit(s, k) \in Int
    <3>1. Digit(s, k) \in Int
      BY <2>2
    <3>. QED
      BY SMT, <2>2, <3>1
  <2>6. v.z * 10 \in Int
    BY <2>2
  <2>. QED
    BY <2>3, <2>4, <2>5, <2>6 DEF YearStep
<1>2. G \in [3 + 1 .. n -> [V -> V]] /\ first \in V
  <2>1. first \in V
    OBVIOUS
  <2>. HIDE DEF V, first
  <2>. QED
    BY <1>1, <2>1
<1>3. \E f : Year(f)
  <2>1. PICK f \in [3 .. n -> V] : \A k \in 3 .. n : f[k] = IF k = 3 THEN first ELSE G[k][f[k - 1]]
    <3>1. 3 \in Nat
      OBVIOUS
    <3>. HIDE DEF V, first, G
    <3>2. \E f : IsRecursive(f, 3, n, V, first, G)
      BY <1>2, <3>1, Recursion
    <3>. QED
      BY <3>2 DEF IsRecursive
  <2>2. ASSUME NEW k \in 3 .. n
        PROVE  f[k] = IF k = 3 THEN first ELSE YearStep(s, f[k - 1], k)
    <3>1. CASE k = 3
      BY <2>1, <3>1
    <3>2. CASE k # 3
      <4>1. k \in 3 + 1 .. n /\ k - 1 \in 3 .. n
        BY <3>2
      <4>2. f[k - 1] \in V
        <5>. HIDE DEF V, G
        <5>. QED
          BY <2>1, <4>1
      <4>3. f[k] = G[k][f[k - 1]]
        <5>. HIDE DEF V, G, first
        <5>. QED
          BY <2>1, <3>2
      <4>. HIDE DEF V
      <4>. QED
        BY <3>2, <4>1, <4>2, <4>3
    <3>. QED
      BY <3>1, <3>2
  <2>3. f = [k \in 3 .. n |-> f[k]]
    <3>. HIDE DEF V
    <3>. QED
      BY <2>1
  <2>. HIDE DEF first
  <2>4. Year(f)
    BY <2>2, <2>3
  <2>. QED
    BY <2>4
<1>4. Year(years)
  <2>. HIDE DEF Year
  <2>. QED
    BY <1>3
<1>5. YearOf(s) = years[n - 1].value
  <2>1. YearOf(s) = IF n < 5 THEN 0 ELSE years[n - 1].value
    BY DEF YearOf, YearStep
  <2>. HIDE DEF years
  <2>. QED
    BY <2>1
<1>. HIDE DEF years, first
<1>6. \A k \in 3 .. n : years[k] = IF k = 3 THEN first ELSE YearStep(s, years[k - 1], k)
  BY <1>4
<1>. QED
  BY <1>5, <1>6 DEF first

(* One more digit of a year of four digits.                                *)
LEMMA YearDigit ==
  ASSUME NEW s, NEW k, NEW before, NEW v \in Nat, NEW z \in Nat,
         before = [value |-> v, z |-> z],
         v + z * Digit(s, k) \in Nat, v + z * Digit(s, k) <= 10000
  PROVE  /\ YearStep(s, before, k).value = v + z * Digit(s, k)
         /\ z * 10 <= 10000 => YearStep(s, before, k) = [value |-> v + z * Digit(s, k), z |-> z * 10]
<1>1. before.value = v /\ before.z = z
  OBVIOUS
<1>. DEFINE w == v + z * Digit(s, k)
<1>2. w \in Nat /\ w <= 10000
  OBVIOUS
<1>3. YearStep(s, before, k) = [value |-> int(w % SizeModulus), z |-> (z * 10) % SizeModulus]
  BY <1>1 DEF YearStep
<1>. HIDE DEF w
<1>4. int(w % SizeModulus) = w
  BY <1>2, YearFits
<1>5. z * 10 <= 10000 => (z * 10) % SizeModulus = z * 10
  BY YearFits
<1>. QED
  BY <1>3, <1>4, <1>5 DEF w

(* The year is the number that its four digits write.                      *)
LEMMA YearValue ==
  ASSUME NEW s, \A k \in Nat : Digit(s, k) \in 0 .. 9,
         TrailingDigits(s) \in {8, 9}, TrailingDigits(s) = 9 => Digit(s, 8) = 0
  PROVE  YearOf(s) = 1000 * Digit(s, 7) + 100 * Digit(s, 6) + 10 * Digit(s, 5) + Digit(s, 4)
<1>. DEFINE n == TrailingDigits(s)
            a == Digit(s, 7)
            b == Digit(s, 6)
            c == Digit(s, 5)
            e == Digit(s, 4)
<1>1. a \in 0 .. 9 /\ b \in 0 .. 9 /\ c \in 0 .. 9 /\ e \in 0 .. 9
  OBVIOUS
<1>2. n \in {8, 9} /\ n \in Nat /\ n >= 5 /\ (n = 9 => Digit(s, 8) = 0)
  OBVIOUS
<1>3. PICK f : /\ YearOf(s) = f[n - 1].value
               /\ \A k \in 3 .. n : f[k] = IF k = 3 THEN [value |-> 0, z |-> 1]
                                           ELSE YearStep(s, f[k - 1], k)
  <2>1. \A k \in Nat : Digit(s, k) \in Int
    OBVIOUS
  <2>. QED
    BY <1>2, <2>1, YearOfFacts
<1>. HIDE DEF n, a, b, c, e
<1>4. f[3] = [value |-> 0, z |-> 1]
  BY <1>2, <1>3
<1>5. \A k \in 4 .. n : f[k] = YearStep(s, f[k - 1], k)
  BY <1>2, <1>3
<1>6. f[4] = [value |-> e, z |-> 10]
  <2>1. f[4] = YearStep(s, f[3], 4)
    <3>1. 4 \in 4 .. n /\ 4 - 1 = 3
      BY <1>2
    <3>. QED
      BY <1>5, <3>1
  <2>2. 0 + 1 * e \in Nat /\ 0 + 1 * e <= 10000 /\ 0 + 1 * e = e /\ 1 * 10 = 10
    BY <1>1
  <2>3. YearStep(s, f[3], 4) = [value |-> 0 + 1 * Digit(s, 4), z |-> 1 * 10]
    BY <1>4, <2>2, YearDigit DEF e
  <2>. QED
    BY <2>1, <2>2, <2>3 DEF e
<1>7. f[5] = [value |-> e + 10 * c, z |-> 100]
  <2>1. f[5] = YearStep(s, f[4], 5)
    <3>1. 5 \in 4 .. n /\ 5 - 1 = 4
      BY <1>2
    <3>. QED
      BY <1>5, <3>1
  <2>2. e \in Nat /\ e + 10 * c \in Nat /\ e + 10 * c <= 10000 /\ 10 * 10 = 100
    BY <1>1
  <2>3. YearStep(s, f[4], 5) = [value |-> e + 10 * Digit(s, 5), z |-> 10 * 10]
    BY <1>6, <2>2, YearDigit DEF c
  <2>. QED
    BY <2>1, <2>2, <2>3 DEF c
<1>8. f[6] = [value |-> e + 10 * c + 100 * b, z |-> 1000]
  <2>1. f[6] = YearStep(s, f[5], 6)
    <3>1. 6 \in 4 .. n /\ 6 - 1 = 5
      BY <1>2
    <3>. QED
      BY <1>5, <3>1
  <2>. DEFINE v == e + 10 * c
  <2>2. v \in Nat /\ v + 100 * b \in Nat /\ v + 100 * b <= 10000
    BY <1>1
  <2>. HIDE DEF v
  <2>3. YearStep(s, f[5], 6) = [value |-> v + 100 * Digit(s, 6), z |-> 100 * 10]
    BY <1>7, <2>2, YearDigit DEF b, v
  <2>. QED
    BY <2>1, <2>3 DEF b, v
<1>9. f[7] = [value |-> e + 10 * c + 100 * b + 1000 * a, z |-> 10000]
  <2>1. f[7] = YearStep(s, f[6], 7)
    <3>1. 7 \in 4 .. n /\ 7 - 1 = 6
      BY <1>2
    <3>. QED
      BY <1>5, <3>1
  <2>. DEFINE v == e + 10 * c + 100 * b
  <2>2. v \in Nat /\ v + 1000 * a \in Nat /\ v + 1000 * a <= 10000
    BY <1>1
  <2>. HIDE DEF v
  <2>3. YearStep(s, f[6], 7) = [value |-> v + 1000 * Digit(s, 7), z |-> 1000 * 10]
    BY <1>8, <2>2, YearDigit DEF a, v
  <2>. QED
    BY <2>1, <2>3 DEF a, v
<1>. DEFINE v == e + 10 * c + 100 * b + 1000 * a
<1>10. v \in Nat /\ v <= 10000 /\ v = 1000 * a + 100 * b + 10 * c + e
  BY <1>1
<1>11. CASE n = 8
  BY <1>3, <1>9, <1>10, <1>11 DEF a, b, c, e
<1>12. CASE n = 9
  <2>1. f[8] = YearStep(s, f[7], 8)
    <3>1. 8 \in 4 .. n /\ 8 - 1 = 7
      BY <1>12
    <3>. QED
      BY <1>5, <3>1
  <2>. HIDE DEF v
  <2>2. v + 10000 * Digit(s, 8) = v
    BY <1>2, <1>10, <1>12
  <2>3. YearStep(s, f[7], 8).value = v + 10000 * Digit(s, 8)
    BY <1>9, <1>10, <2>2, YearDigit DEF v
  <2>4. YearOf(s) = f[8].value
    BY <1>3, <1>12
  <2>. QED
    BY <1>10, <2>1, <2>2, <2>3, <2>4 DEF a, b, c, e, v
<1>. QED
  BY <1>2, <1>11, <1>12

(* A digit of a number of four digits, and its two of two.                 *)
LEMMA DecimalDigits ==
  /\ \A y \in 0 .. 9999 :
       /\ y \div 1000 \in 0 .. 9 /\ (y \div 100) % 10 \in 0 .. 9
       /\ (y \div 10) % 10 \in 0 .. 9 /\ y % 10 \in 0 .. 9
       /\ y = 1000 * (y \div 1000) + 100 * ((y \div 100) % 10) + 10 * ((y \div 10) % 10) + (y % 10)
  /\ \A n \in 0 .. 99 : n \div 10 \in 0 .. 9 /\ n % 10 \in 0 .. 9 /\ n = 10 * (n \div 10) + (n % 10)
<1>1. ASSUME NEW n \in 0 .. 99
      PROVE  n \div 10 \in 0 .. 9 /\ n % 10 \in 0 .. 9 /\ n = 10 * (n \div 10) + (n % 10)
  BY SMT
<1>2. ASSUME NEW y \in Nat, y <= 9999
      PROVE  /\ y \div 1000 \in 0 .. 9 /\ (y \div 100) % 10 \in 0 .. 9
             /\ (y \div 10) % 10 \in 0 .. 9 /\ y % 10 \in 0 .. 9
             /\ y = 1000 * (y \div 1000) + 100 * ((y \div 100) % 10) + 10 * ((y \div 10) % 10) + (y % 10)
  <2>1. /\ y \div 10 \in Nat /\ y = 10 * (y \div 10) + (y % 10) /\ y % 10 \in 0 .. 9
    BY SMT, <1>2
  <2>2. /\ y \div 100 \in Nat /\ y \div 10 = 10 * (y \div 100) + ((y \div 10) % 10)
        /\ (y \div 10) % 10 \in 0 .. 9
    BY SMT, <1>2
  <2>3. /\ y \div 1000 \in 0 .. 9 /\ y \div 100 = 10 * (y \div 1000) + ((y \div 100) % 10)
        /\ (y \div 100) % 10 \in 0 .. 9
    BY SMT, <1>2
  <2>. QED
    BY SMT, <2>1, <2>2, <2>3
<1>. QED
  BY SMT, <1>1, <1>2

(* The text of a date is read as its numbers.                              *)
ReadsAs(s, year, month, day) ==
  /\ s \in Seq(Byte) /\ Len(s) = 8 /\ TrailingDigits(s) = 8
  /\ \A i \in 1 .. 8 : s[i] \in 48 .. 57
  /\ \A k \in Nat : Digit(s, k) \in 0 .. 9
  /\ TwoDigits(s, 0) = day /\ TwoDigits(s, 2) = month /\ YearOf(s) = year

Writable(year, month, day) == year \in Nat /\ year <= 9999 /\ month \in 0 .. 99 /\ day \in 0 .. 99

(* The text of three numbers that can be written is read as these numbers. *)
LEMMA DateText ==
  ASSUME NEW year, NEW month, NEW day, Writable(year, month, day)
  PROVE  ReadsAs(TextOf(year, month, day), year, month, day)
<1>. DEFINE s == TextOf(year, month, day)
            a == year \div 1000
            b == (year \div 100) % 10
            c == (year \div 10) % 10
            e == year % 10
            f == month \div 10
            g == month % 10
            h == day \div 10
            i == day % 10
<1>1. /\ a \in 0 .. 9 /\ b \in 0 .. 9 /\ c \in 0 .. 9 /\ e \in 0 .. 9
      /\ f \in 0 .. 9 /\ g \in 0 .. 9 /\ h \in 0 .. 9 /\ i \in 0 .. 9
      /\ year = 1000 * a + 100 * b + 10 * c + e
      /\ month = 10 * f + g /\ day = 10 * h + i
  BY SMT, DecimalDigits DEF Writable
<1>2. s = <<48 + a, 48 + b, 48 + c, 48 + e, 48 + f, 48 + g, 48 + h, 48 + i>>
  BY DEF TextOf
<1>. HIDE DEF s, a, b, c, e, f, g, h, i
<1>3. /\ Len(s) = 8
      /\ s[1] = 48 + a /\ s[2] = 48 + b /\ s[3] = 48 + c /\ s[4] = 48 + e
      /\ s[5] = 48 + f /\ s[6] = 48 + g /\ s[7] = 48 + h /\ s[8] = 48 + i
  BY SMT, <1>2
<1>4. s \in Seq(Byte)
  <2>. DEFINE B == Byte
  <2>1. /\ 48 + a \in B /\ 48 + b \in B /\ 48 + c \in B /\ 48 + e \in B
        /\ 48 + f \in B /\ 48 + g \in B /\ 48 + h \in B /\ 48 + i \in B
    BY SMT, <1>1 DEF Byte
  <2>. HIDE DEF B
  <2>2. s \in Seq(B)
    BY <1>2, <2>1
  <2>. QED
    BY <2>2 DEF B
<1>5. \A j \in 1 .. 8 : s[j] \in 48 .. 57
  BY SMT, <1>1, <1>3
<1>6. /\ TrailingDigits(s) = 8
      /\ \A k \in Nat : k < 8 => Digit(s, k) = s[8 - k] - 48
  <2>1. \A j \in 1 .. Len(s) : IsDigit(s[j])
    BY <1>3, <1>5 DEF IsDigit
  <2>2. /\ TrailingDigits(s) = Len(s)
        /\ \A k \in Nat : k < Len(s) => Digit(s, k) = s[Len(s) - k] - 48
    BY <1>4, <2>1, AllDigits
  <2>. QED
    BY <1>3, <2>2
<1>7. /\ Digit(s, 0) = i /\ Digit(s, 1) = h /\ Digit(s, 2) = g /\ Digit(s, 3) = f
      /\ Digit(s, 4) = e /\ Digit(s, 5) = c /\ Digit(s, 6) = b /\ Digit(s, 7) = a
  BY SMT, <1>1, <1>3, <1>6
<1>8. \A k \in Nat : Digit(s, k) \in 0 .. 9
  <2>1. SUFFICES ASSUME NEW k \in Nat PROVE Digit(s, k) \in 0 .. 9
    OBVIOUS
  <2>2. CASE k < 8
    BY SMT, <1>5, <1>6, <2>2
  <2>3. CASE ~(k < 8)
    <3>1. Digit(s, k) = 0
      BY <1>6, <2>3 DEF Digit
    <3>. QED
      BY <3>1
  <2>. QED
    BY <2>2, <2>3
<1>9. TwoDigits(s, 0) = day /\ TwoDigits(s, 2) = month
  <2>1. TwoDigits(s, 0) = i + 10 * h /\ TwoDigits(s, 2) = g + 10 * f
    <3>1. 0 + 1 = 1 /\ 2 + 1 = 3
      OBVIOUS
    <3>. QED
      BY <1>7, <3>1 DEF TwoDigits
  <2>. QED
    BY SMT, <1>1, <2>1
<1>10. YearOf(s) = year
  <2>1. YearOf(s) = 1000 * a + 100 * b + 10 * c + e
    BY <1>6, <1>7, <1>8, YearValue
  <2>. QED
    BY SMT, <1>1, <2>1
<1>. QED
  BY <1>3, <1>4, <1>5, <1>6, <1>8, <1>9, <1>10 DEF ReadsAs, s

(* dbf_yyyymmdd_to_tm accepts a month of the year and a day that           *)
(* days_in_month gives it.                                                 *)
Acceptable(year, month, day) == month \in 1 .. 12 /\ day \in 1 .. days_in_month(month, year)

(* What dbf_yyyymmdd_to_tm makes of the text of a date.                    *)
LEMMA TextResult ==
  ASSUME NEW year, NEW month, NEW day, Writable(year, month, day)
  PROVE  LET text == dbf_yyyymmdd_to_tm(TextOf(year, month, day))
             d == [year |-> year, month |-> month, day |-> day]
         IN  /\ text.ok = 1 <=> Acceptable(year, month, day)
             /\ text.ok = 1 => text = [ok |-> 1, date |-> d, wday |-> day_of_week(day, month, year),
                                       yday |-> tm_yday(d)]
<1>. DEFINE s == TextOf(year, month, day)
<1>1. /\ Len(s) = 8 /\ TrailingDigits(s) = 8
      /\ TwoDigits(s, 0) = day /\ TwoDigits(s, 2) = month /\ YearOf(s) = year
  <2>1. ReadsAs(s, year, month, day)
    BY DateText
  <2>. HIDE DEF s
  <2>. QED
    BY <2>1 DEF ReadsAs
<1>. HIDE DEF s
<1>2. AcceptedDate(s) <=> Acceptable(year, month, day)
  BY <1>1 DEF AcceptedDate, Acceptable
<1>. QED
  BY <1>1, <1>2 DEF dbf_yyyymmdd_to_tm, s

(* The days of a month, one fewer in July than it has.                     *)
LEMMA DaysInMonth ==
  ASSUME NEW d, IsDate(d), Gregorian(d)
  PROVE  /\ days_in_month(d.month, d.year) = IF d.month = 7 THEN 30 ELSE LastOfMonth(d)
         /\ LastOfMonth(d) \in 28 .. 31
         /\ d.month = 7 => LastOfMonth(d) = 31
<1>1. d.month \in {1, 2, 3, 4, 5, 6, 7, 8, 9, 10, 11, 12}
  BY SMT DEF IsDate
<1>2. is_leap_year(d.year) <=> LeapYear(d)
  BY DEF is_leap_year, LeapYear
<1>3. /\ d.month \notin {2, 4, 6, 9, 11} => LastOfMonth(d) = 31
      /\ d.month \in {4, 6, 9, 11} => LastOfMonth(d) = 30
      /\ d.month = 2 => LastOfMonth(d) = IF LeapYear(d) THEN 29 ELSE 28
  BY MonthFacts
<1>. QED
  BY SMT, <1>1, <1>2, <1>3 DEF days_in_month

(* A byte behind a sequence.                                               *)
LEMMA ByteBehind ==
  ASSUME NEW s \in Seq(Byte), NEW b \in Byte
  PROVE  /\ Append(s, b) \in Seq(Byte) /\ Len(Append(s, b)) = Len(s) + 1
         /\ Append(s, b)[Len(s) + 1] = b
  OBVIOUS

(* A text with something before or behind its digits, or with too few.     *)
LEMMA NoDateText ==
  ASSUME NEW s \in Seq(Byte), Len(s) = 8
  PROVE  /\ dbf_yyyymmdd_to_tm(<<32>> \o s).ok # 1
         /\ dbf_yyyymmdd_to_tm(Append(s, 32)).ok # 1
         /\ dbf_yyyymmdd_to_tm(Tail(s)).ok # 1
<1>1. ASSUME NEW t, ~AcceptedDate(t)
      PROVE  dbf_yyyymmdd_to_tm(t).ok # 1
  <2>1. dbf_yyyymmdd_to_tm(t)
          = [ok |-> 0, date |-> [year |-> 0, month |-> 0, day |-> 0], wday |-> 0, yday |-> 0]
    BY <1>1 DEF dbf_yyyymmdd_to_tm
  <2>. QED
    BY <2>1
<1>2. ASSUME NEW t \in Seq(Byte), NEW i \in 1 .. Len(t), t[i] = 32
      PROVE  ~AcceptedDate(t)
  <2>1. ~IsDigit(t[i])
    BY <1>2 DEF IsDigit
  <2>2. TrailingDigits(t) # Len(t)
    BY <2>1, TrailingDigitsFacts
  <2>. QED
    BY <2>2 DEF AcceptedDate
<1>3. /\ <<32>> \o s \in Seq(Byte) /\ Len(<<32>> \o s) = 9 /\ (<<32>> \o s)[1] = 32
  <2>1. 32 \in Byte
    BY DEF Byte
  <2>2. /\ <<32>> \o s \in Seq(Byte) /\ Len(<<32>> \o s) = Len(s) + 1
        /\ (<<32>> \o s)[1] = 32
    BY <2>1, ByteBefore
  <2>. QED
    BY <2>2
<1>4. Append(s, 32) \in Seq(Byte) /\ Len(Append(s, 32)) = 9 /\ Append(s, 32)[9] = 32
  <2>1. 32 \in Byte
    BY DEF Byte
  <2>2. /\ Append(s, 32) \in Seq(Byte) /\ Len(Append(s, 32)) = Len(s) + 1
        /\ Append(s, 32)[Len(s) + 1] = 32
    BY <2>1, ByteBehind
  <2>. QED
    BY <2>2
<1>5. ~AcceptedDate(Tail(s))
  <2>. DEFINE u == Tail(s)
  <2>1. Len(u) = 7
    OBVIOUS
  <2>. HIDE DEF u
  <2>2. ~(Len(u) >= 8)
    BY <2>1
  <2>3. ~AcceptedDate(u)
    BY <2>2 DEF AcceptedDate
  <2>. QED
    BY <2>3 DEF u
<1>6. ~AcceptedDate(<<32>> \o s)
  <2>. DEFINE u == <<32>> \o s
  <2>1. u \in Seq(Byte) /\ 1 \in 1 .. Len(u) /\ u[1] = 32
    BY <1>3
  <2>. HIDE DEF u
  <2>2. ~AcceptedDate(u)
    BY <1>2, <2>1
  <2>. QED
    BY <2>2 DEF u
<1>7. ~AcceptedDate(Append(s, 32))
  <2>. DEFINE u == Append(s, 32)
  <2>1. u \in Seq(Byte) /\ 9 \in 1 .. Len(u) /\ u[9] = 32
    BY <1>4
  <2>. HIDE DEF u
  <2>2. ~AcceptedDate(u)
    BY <1>2, <2>1
  <2>. QED
    BY <2>2 DEF u
<1>. QED
  BY <1>1, <1>5, <1>6, <1>7, Zenon

(* A zero before the digits changes nothing.                               *)
LEMMA ZeroBefore ==
  ASSUME NEW s \in Seq(Byte), Len(s) = 8, \A i \in 1 .. 8 : s[i] \in 48 .. 57
  PROVE  dbf_yyyymmdd_to_tm(<<48>> \o s).ok = dbf_yyyymmdd_to_tm(s).ok
<1>. DEFINE t == <<48>> \o s
<1>1. 48 \in Byte
  BY DEF Byte
<1>2. /\ t \in Seq(Byte) /\ Len(t) = Len(s) + 1 /\ t[1] = 48
      /\ \A i \in 1 .. Len(s) : t[i + 1] = s[i]
  BY <1>1, ByteBefore
<1>. HIDE DEF t
<1>3. /\ Len(t) = 9 /\ t[1] = 48
      /\ \A i \in 1 .. 8 : t[i + 1] = s[i]
  BY <1>2
<1>4. \A i \in 1 .. 9 : t[i] \in 48 .. 57
  <2>1. SUFFICES ASSUME NEW i \in 1 .. 9 PROVE t[i] \in 48 .. 57
    OBVIOUS
  <2>2. CASE i = 1
    BY <1>3, <2>2
  <2>3. CASE i # 1
    <3>1. i - 1 \in 1 .. 8 /\ (i - 1) + 1 = i
      BY <2>3
    <3>2. t[i] = s[i - 1]
      BY <1>3, <3>1
    <3>. QED
      BY <3>1, <3>2
  <2>. QED
    BY <2>2, <2>3
<1>5. /\ TrailingDigits(t) = 9
      /\ \A k \in Nat : k < 9 => Digit(t, k) = t[9 - k] - 48
  <2>1. \A j \in 1 .. Len(t) : IsDigit(t[j])
    BY <1>3, <1>4 DEF IsDigit
  <2>2. /\ TrailingDigits(t) = Len(t)
        /\ \A k \in Nat : k < Len(t) => Digit(t, k) = t[Len(t) - k] - 48
    BY <1>2, <2>1, AllDigits
  <2>. QED
    BY <1>3, <2>2
<1>6. /\ TrailingDigits(s) = 8
      /\ \A k \in Nat : k < 8 => Digit(s, k) = s[8 - k] - 48
  <2>1. \A j \in 1 .. Len(s) : IsDigit(s[j])
    BY DEF IsDigit
  <2>2. /\ TrailingDigits(s) = Len(s)
        /\ \A k \in Nat : k < Len(s) => Digit(s, k) = s[Len(s) - k] - 48
    BY <2>1, AllDigits
  <2>. QED
    BY <2>2
<1>7. /\ \A k \in 0 .. 7 : Digit(t, k) = Digit(s, k)
      /\ Digit(t, 8) = 0
  <2>1. ASSUME NEW k \in 0 .. 7
        PROVE  Digit(t, k) = Digit(s, k)
    <3>1. 9 - k = (8 - k) + 1 /\ 8 - k \in 1 .. 8 /\ k \in Nat /\ k < 8 /\ k < 9
      OBVIOUS
    <3>2. t[9 - k] = s[8 - k]
      BY <1>3, <3>1
    <3>. QED
      BY <1>5, <1>6, <3>1, <3>2
  <2>2. Digit(t, 8) = t[1] - 48
    BY <1>5
  <2>. QED
    BY <1>3, <2>1, <2>2
<1>8. /\ \A k \in Nat : Digit(t, k) \in 0 .. 9
      /\ \A k \in Nat : Digit(s, k) \in 0 .. 9
  <2>1. \A k \in Nat : Digit(s, k) \in 0 .. 9
    <3>1. SUFFICES ASSUME NEW k \in Nat PROVE Digit(s, k) \in 0 .. 9
      OBVIOUS
    <3>2. CASE k < 8
      <4>1. 8 - k \in 1 .. 8 /\ Digit(s, k) = s[8 - k] - 48
        BY <1>6, <3>2
      <4>2. s[8 - k] \in 48 .. 57
        BY <4>1
      <4>. QED
        BY <4>1, <4>2
    <3>3. CASE ~(k < 8)
      <4>1. Digit(s, k) = 0
        BY <1>6, <3>3 DEF Digit
      <4>. QED
        BY <4>1
    <3>. QED
      BY <3>2, <3>3
  <2>2. \A k \in Nat : Digit(t, k) \in 0 .. 9
    <3>1. SUFFICES ASSUME NEW k \in Nat PROVE Digit(t, k) \in 0 .. 9
      OBVIOUS
    <3>2. CASE k < 9
      <4>1. 9 - k \in 1 .. 9 /\ Digit(t, k) = t[9 - k] - 48
        BY <1>5, <3>2
      <4>2. t[9 - k] \in 48 .. 57
        BY <1>4, <4>1
      <4>. QED
        BY <4>1, <4>2
    <3>3. CASE ~(k < 9)
      <4>1. Digit(t, k) = 0
        BY <1>5, <3>3 DEF Digit
      <4>. QED
        BY <4>1
    <3>. QED
      BY <3>2, <3>3
  <2>. QED
    BY <2>1, <2>2
<1>9. YearOf(t) = YearOf(s)
  <2>1. YearOf(t) = 1000 * Digit(t, 7) + 100 * Digit(t, 6) + 10 * Digit(t, 5) + Digit(t, 4)
    BY <1>5, <1>7, <1>8, YearValue
  <2>2. YearOf(s) = 1000 * Digit(s, 7) + 100 * Digit(s, 6) + 10 * Digit(s, 5) + Digit(s, 4)
    BY <1>6, <1>8, YearValue
  <2>. QED
    BY <1>7, <2>1, <2>2
<1>10. TwoDigits(t, 0) = TwoDigits(s, 0) /\ TwoDigits(t, 2) = TwoDigits(s, 2)
  BY <1>7 DEF TwoDigits
<1>11. AcceptedDate(t) <=> AcceptedDate(s)
  BY <1>3, <1>5, <1>6, <1>9, <1>10 DEF AcceptedDate
<1>12. dbf_yyyymmdd_to_tm(t).ok = dbf_yyyymmdd_to_tm(s).ok
  BY <1>11 DEF dbf_yyyymmdd_to_tm
<1>. QED
  BY <1>12 DEF t

-----------------------------------------------------------------------------
(* The calendar that is counted.                                           *)

(* What holds of the calendar.                                             *)
DaysInv ==
  /\ IsDate(date) /\ jdn = DayNumber(date) /\ wday = (jdn + 1) % 7
  /\ date.year > 1582 => yday = tm_yday(date)
  /\ count \in Nat

(* The days that are known are days of the calendar.                       *)
LEMMA KnownDay ==
  ASSUME NEW y \in {-4712, -1000, 1582, 1600, 1900, 2000}, NEW j, NEW w,
         NEW d, d = [year |-> y, month |-> 1, day |-> 1],
         j = IF y = -4712 THEN 0 ELSE IF y = -1000 THEN 1355808 ELSE IF y = 1582 THEN 2298884
             ELSE IF y = 1600 THEN 2305448 ELSE IF y = 1900 THEN 2415021 ELSE 2451545,
         w = IF y \in {-1000} THEN 0 ELSE IF y \in {1600, 2000} THEN 6 ELSE 1
  PROVE  IsDate(d) /\ j = DayNumber(d) /\ w = (j + 1) % 7 /\ tm_yday(d) = 0
<1>1. d.year = y /\ d.month = 1 /\ d.day = 1 /\ d = [year |-> d.year, month |-> d.month, day |-> d.day]
  BY SMT
<1>2. IsDate(d)
  BY SMT, <1>1 DEF IsDate, LastOfMonth
<1>3. tm_yday(d) = 0
  BY SMT, <1>1 DEF tm_yday, day_of_year
<1>4. w = (j + 1) % 7
  BY SMT
<1>5. Gregorian(d) <=> y \in {1600, 1900, 2000}
  BY SMT, <1>1 DEF Gregorian
<1>6. ShiftedYear(d) = y - 1 /\ DayInYear(d) = 429
  BY SMT, <1>1 DEF ShiftedYear, DayInYear, MonthStart
<1>7. DayNumber(d) = YearStart(y - 1 + 4716) + 429 - 1524 + (IF y \in {1600, 1900, 2000} THEN Centuries(y - 1) ELSE 0)
  BY SMT, <1>5, <1>6 DEF DayNumber, JulianNumber
<1>8. /\ y = -4712 => YearStart(y - 1 + 4716) = 1095
      /\ y = -1000 => YearStart(y - 1 + 4716) = 1356903
      /\ y = 1582 => YearStart(y - 1 + 4716) = 2299979
      /\ y = 1600 => YearStart(y - 1 + 4716) = 2306553
      /\ y = 1900 => YearStart(y - 1 + 4716) = 2416128
      /\ y = 2000 => YearStart(y - 1 + 4716) = 2452653
  BY SMT DEF YearStart
<1>9. /\ y = 1600 => Centuries(y - 1) = -10
      /\ y = 1900 => Centuries(y - 1) = -12
      /\ y = 2000 => Centuries(y - 1) = -13
  BY SMT DEF Centuries
<1>10. j = DayNumber(d)
  BY SMT, <1>7, <1>8, <1>9
<1>. QED
  BY SMT, <1>2, <1>3, <1>4, <1>10

(* The known days have their numbers, so the invariant of the calendar     *)
(* holds at first.                                                         *)
LEMMA DaysInit ==
  ASSUME Init
  PROVE  DaysInv
<1>1. PICK a \in KnownDays : jdn = a.jdn /\ date = a.date /\ wday = a.wday /\ yday = a.yday /\ count = 0
  BY SMT, MCDbfDatesAssumption DEF Init
<1>2. PICK y \in {-4712, -1000, 1582, 1600, 1900, 2000} :
        /\ a.date = [year |-> y, month |-> 1, day |-> 1] /\ a.yday = 0
        /\ a.jdn = IF y = -4712 THEN 0 ELSE IF y = -1000 THEN 1355808 ELSE IF y = 1582 THEN 2298884
             ELSE IF y = 1600 THEN 2305448 ELSE IF y = 1900 THEN 2415021 ELSE 2451545
        /\ a.wday = IF y \in {-1000} THEN 0 ELSE IF y \in {1600, 2000} THEN 6 ELSE 1
  BY SMT DEF KnownDays, Anchor
<1>3. /\ IsDate(a.date) /\ a.jdn = DayNumber(a.date) /\ a.wday = (a.jdn + 1) % 7 /\ tm_yday(a.date) = 0
  BY SMT, <1>2, KnownDay
<1>. QED
  BY SMT, <1>1, <1>2, <1>3 DEF DaysInv

(* Another day keeps the invariant of the calendar.                        *)
LEMMA DaysNext ==
  ASSUME DaysInv, NextDay
  PROVE  DaysInv'
<1>1. /\ IsDate(date) /\ jdn = DayNumber(date) /\ wday = (jdn + 1) % 7
      /\ date.year > 1582 => yday = tm_yday(date)
      /\ count \in Nat
  BY DEF DaysInv
<1>2. /\ jdn' = jdn + 1 /\ date' = DayAfter(date) /\ wday' = (wday + 1) % 7
      /\ yday' = IF date'.year # date.year THEN 0 ELSE yday + 1
      /\ count' = count + 1
  BY DEF NextDay
<1>3. IsDate(date') /\ DayNumber(date') = DayNumber(date) + 1
  BY <1>1, <1>2, NextNumber
<1>4. jdn' = DayNumber(date')
  BY <1>1, <1>2, <1>3
<1>5. wday' = (jdn' + 1) % 7
  <2>1. jdn \in Int
    BY <1>1, DayNumberFacts
  <2>2. (((jdn + 1) % 7) + 1) % 7 = ((jdn + 1) + 1) % 7
    BY SMT, <2>1
  <2>. QED
    BY <1>1, <1>2, <2>2
<1>6. ASSUME date'.year > 1582
      PROVE  yday' = tm_yday(date')
  <2>1. CASE date'.year = date.year
    <3>1. DayAfter(date).year = date.year
      BY <1>2, <2>1
    <3>2. tm_yday(DayAfter(date)) = tm_yday(date) + 1
      BY <1>1, <1>2, <1>6, <2>1, <3>1, NextYearDay
    <3>3. yday = tm_yday(date) /\ yday' = yday + 1
      BY <1>1, <1>2, <1>6, <2>1
    <3>. QED
      BY <1>2, <3>2, <3>3
  <2>2. CASE date'.year # date.year
    <3>1. date # [year |-> 1582, month |-> 10, day |-> 4]
      <4>1. ASSUME date = [year |-> 1582, month |-> 10, day |-> 4]
            PROVE  DayAfter(date) = [year |-> 1582, month |-> 10, day |-> 15]
        BY SMT, <4>1 DEF DayAfter
      <4>. QED
        BY <1>2, <2>2, <4>1
    <3>2. date' = [year |-> date.year + 1, month |-> 1, day |-> 1]
      BY <1>1, <1>2, <2>2, <3>1, DayAfterForms
    <3>3. tm_yday(date') = 0
      BY SMT, <3>2 DEF tm_yday, day_of_year
    <3>. QED
      BY <1>2, <2>2, <3>3
  <2>. QED
    BY <2>1, <2>2
<1>7. count' \in Nat
  BY <1>1, <1>2
<1>. QED
  BY <1>3, <1>4, <1>5, <1>6, <1>7 DEF DaysInv

(* dbf_jd_to_tm gives the day that is counted.                             *)
LEMMA JulianDateCase ==
  ASSUME DaysInv
  PROVE  JulianDateIsSameDay
BY SameDayCase DEF DaysInv, JulianDateIsSameDay

(* The text of a date is the text of three numbers.                        *)
LEMMA DateIsWritable ==
  ASSUME NEW d, IsDate(d), HasText(d)
  PROVE  /\ Gregorian(d) /\ Writable(d.year, d.month, d.day)
         /\ \A n \in 0 .. 99 : Writable(d.year, n, d.day) /\ Writable(d.year, d.month, n)
<1>1. d.year \in Int /\ d.month \in 1 .. 12 /\ d.day \in 1 .. 31
  BY DEF IsDate
<1>2. Gregorian(d)
  BY DEF HasText
<1>3. d.year \in Nat /\ d.year <= 9999
  BY SMT, <1>1, <1>2 DEF Gregorian, HasText
<1>4. d.month \in 0 .. 99 /\ d.day \in 0 .. 99
  BY <1>1
<1>5. ASSUME NEW n \in 0 .. 99
      PROVE  Writable(d.year, n, d.day) /\ Writable(d.year, d.month, n)
  BY SMT, <1>3, <1>4 DEF Writable
<1>6. Writable(d.year, d.month, d.day)
  BY SMT, <1>3, <1>4 DEF Writable
<1>. QED
  BY <1>2, <1>5, <1>6

(* The day of the week and of the year that the two conversions give are   *)
(* those that the behaviour has counted.                                   *)
LEMMA WeekAndYearCase ==
  ASSUME DaysInv
  PROVE  WeekAndYearDay
<1>. DEFINE s == TextOf(date.year, date.month, date.day)
            text == dbf_yyyymmdd_to_tm(s)
<1>1. SUFFICES ASSUME date.year > 1582
               PROVE  /\ tm_wday(jdn) = wday
                      /\ tm_yday(julian_date(jdn)) = yday
                      /\ HasText(date) /\ text.ok = 1 => text.wday = wday /\ text.yday = yday
  BY DEF WeekAndYearDay
<1>2. /\ IsDate(date) /\ jdn = DayNumber(date) /\ wday = (jdn + 1) % 7 /\ yday = tm_yday(date)
  BY <1>1 DEF DaysInv
<1>3. tm_wday(jdn) = wday
  <2>1. jdn \in Nat
    BY <1>2, GregorianNumbers
  <2>2. cmod(jdn + 1, 7) = (jdn + 1) % 7
    BY SMT, <2>1 DEF cmod, cdiv
  <2>. QED
    BY <1>2, <2>2 DEF tm_wday
<1>4. tm_yday(julian_date(jdn)) = yday
  BY <1>2, YearDayCase
<1>5. ASSUME HasText(date), text.ok = 1
      PROVE  text.wday = wday /\ text.yday = yday
  <2>1. Writable(date.year, date.month, date.day)
    BY <1>2, <1>5, DateIsWritable
  <2>. DEFINE d == [year |-> date.year, month |-> date.month, day |-> date.day]
  <2>2. text = [ok |-> 1, date |-> d, wday |-> day_of_week(date.day, date.month, date.year),
                yday |-> tm_yday(d)]
    BY <1>5, <2>1, TextResult
  <2>3. d = date
    BY <1>2 DEF IsDate
  <2>4. day_of_week(date.day, date.month, date.year) = (DayNumber(date) + 1) % 7
    BY <1>1, <1>2, WeekDayCase
  <2>. HIDE DEF text, d
  <2>. QED
    BY <1>2, <2>2, <2>3, <2>4
<1>. QED
  BY <1>3, <1>4, <1>5

(* The days that dbf_yyyymmdd_to_tm accepts, and the texts that it does    *)
(* not.                                                                    *)
LEMMA AcceptsCase ==
  ASSUME DaysInv
  PROVE  AcceptsDates
<1>. DEFINE accepts(t) == dbf_yyyymmdd_to_tm(t).ok = 1
            s == TextOf(date.year, date.month, date.day)
<1>1. SUFFICES ASSUME HasText(date)
               PROVE  /\ ~July31(date) => dbf_yyyymmdd_to_tm(s).date = date
                      /\ \A day \in {0, LastOfMonth(date) + 1, 32, 99} :
                           ~accepts(TextOf(date.year, date.month, day))
                      /\ \A month \in {0, 13, 20, 99} : ~accepts(TextOf(date.year, month, date.day))
                      /\ ~accepts(<<32>> \o s) /\ ~accepts(Append(s, 32)) /\ ~accepts(Tail(s))
                      /\ accepts(<<48>> \o s) = accepts(s)
  BY DEF AcceptsDates
<1>2. /\ IsDate(date) /\ date = [year |-> date.year, month |-> date.month, day |-> date.day]
      /\ date.month \in 1 .. 12 /\ date.day \in 1 .. 31 /\ date.day <= LastOfMonth(date)
  BY DEF DaysInv, IsDate
<1>3. /\ Gregorian(date) /\ Writable(date.year, date.month, date.day)
      /\ \A n \in 0 .. 99 : Writable(date.year, n, date.day) /\ Writable(date.year, date.month, n)
  BY <1>1, <1>2, DateIsWritable
<1>4. /\ days_in_month(date.month, date.year) = IF date.month = 7 THEN 30 ELSE LastOfMonth(date)
      /\ LastOfMonth(date) \in 28 .. 31
      /\ date.month = 7 => LastOfMonth(date) = 31
  BY <1>2, <1>3, DaysInMonth
<1>5. ASSUME ~July31(date)
      PROVE  dbf_yyyymmdd_to_tm(s).date = date
  <2>1. Acceptable(date.year, date.month, date.day)
    BY <1>2, <1>4, <1>5 DEF Acceptable, July31
  <2>2. dbf_yyyymmdd_to_tm(s) =
          [ok |-> 1, date |-> [year |-> date.year, month |-> date.month, day |-> date.day],
           wday |-> day_of_week(date.day, date.month, date.year),
           yday |-> tm_yday([year |-> date.year, month |-> date.month, day |-> date.day])]
    BY <1>3, <2>1, TextResult
  <2>3. dbf_yyyymmdd_to_tm(s).date = [year |-> date.year, month |-> date.month, day |-> date.day]
    BY <2>2
  <2>. QED
    BY <1>2, <2>3
<1>6. ASSUME NEW day \in {0, LastOfMonth(date) + 1, 32, 99}
      PROVE  ~accepts(TextOf(date.year, date.month, day))
  <2>1. day \in 0 .. 99 /\ ~Acceptable(date.year, date.month, day)
    BY SMT, <1>4 DEF Acceptable
  <2>2. Writable(date.year, date.month, day)
    BY <1>3, <2>1
  <2>. DEFINE t == TextOf(date.year, date.month, day)
  <2>3. dbf_yyyymmdd_to_tm(t).ok = 1 <=> Acceptable(date.year, date.month, day)
    BY <2>2, TextResult
  <2>. HIDE DEF t
  <2>4. ~accepts(t)
    BY <2>1, <2>3
  <2>. QED
    BY <2>4 DEF t
<1>7. ASSUME NEW month \in {0, 13, 20, 99}
      PROVE  ~accepts(TextOf(date.year, month, date.day))
  <2>1. month \in 0 .. 99 /\ ~Acceptable(date.year, month, date.day)
    BY DEF Acceptable
  <2>2. Writable(date.year, month, date.day)
    BY <1>3, <2>1
  <2>. DEFINE t == TextOf(date.year, month, date.day)
  <2>3. dbf_yyyymmdd_to_tm(t).ok = 1 <=> Acceptable(date.year, month, date.day)
    BY <2>2, TextResult
  <2>. HIDE DEF t
  <2>4. ~accepts(t)
    BY <2>1, <2>3
  <2>. QED
    BY <2>4 DEF t
<1>8. s \in Seq(Byte) /\ Len(s) = 8 /\ (\A i \in 1 .. 8 : s[i] \in 48 .. 57)
  <2>1. ReadsAs(s, date.year, date.month, date.day)
    BY <1>3, DateText
  <2>. HIDE DEF s
  <2>. QED
    BY <2>1 DEF ReadsAs
<1>. HIDE DEF s
<1>9. ~accepts(<<32>> \o s) /\ ~accepts(Append(s, 32)) /\ ~accepts(Tail(s))
  BY <1>8, NoDateText
<1>10. accepts(<<48>> \o s) = accepts(s)
  BY <1>8, ZeroBefore
<1>. QED
  BY <1>5, <1>6, <1>7, <1>9, <1>10 DEF s

-----------------------------------------------------------------------------
(* Numbers of bytes.                                                       *)

Octet == 0 .. Radix - 1

(* The sums of the first of the terms t, one after the other.              *)
SumsUp(sums, n, t) ==
  \A i \in 0 .. n : sums[i] = IF i = 0 THEN 0 ELSE sums[i - 1] + t[i]

IsSum(sums, n, t) == sums \in [0 .. n -> Nat] /\ SumsUp(sums, n, t)

(* The sums of any terms exist: the recursive definition defines them.     *)
LEMMA SumExists ==
  ASSUME NEW n \in Nat, NEW t \in [1 .. n -> Nat]
  PROVE  \E sums : IsSum(sums, n, t)
<1>. DEFINE G == [k \in 0 + 1 .. n |-> [v \in Nat |-> v + t[k]]]
<1>1. G \in [0 + 1 .. n -> [Nat -> Nat]] /\ 0 \in Nat
  <2>1. \A k \in 0 + 1 .. n : \A v \in Nat : v + t[k] \in Nat
    <3>1. SUFFICES ASSUME NEW k \in 0 + 1 .. n, NEW v \in Nat PROVE v + t[k] \in Nat
      OBVIOUS
    <3>2. t[k] \in Nat
      OBVIOUS
    <3>. QED
      BY <3>2
  <2>. QED
    BY <2>1
<1>2. \E f : IsRecursive(f, 0, n, Nat, 0, G)
  <2>. HIDE DEF G
  <2>. QED
    BY <1>1, Recursion
<1>3. PICK f : IsRecursive(f, 0, n, Nat, 0, G)
  BY <1>2
<1>4. ASSUME NEW i \in 0 .. n
      PROVE  f[i] = IF i = 0 THEN 0 ELSE f[i - 1] + t[i]
  <2>1. CASE i = 0
    BY <1>3, <2>1 DEF IsRecursive
  <2>2. CASE i # 0
    <3>1. i \in 0 + 1 .. n /\ i - 1 \in 0 .. n
      BY <2>2
    <3>2. f[i] = G[i][f[i - 1]] /\ f[i - 1] \in Nat
      <4>. HIDE DEF G
      <4>. QED
        BY <1>3, <2>2, <3>1 DEF IsRecursive
    <3>. QED
      BY <2>2, <3>1, <3>2
  <2>. QED
    BY <2>1, <2>2
<1>5. f \in [0 .. n -> Nat]
  BY <1>3 DEF IsRecursive
<1>. QED
  BY <1>4, <1>5 DEF IsSum, SumsUp

(* Where the terms are the same, so are the sums.                          *)
LEMMA SameSums ==
  ASSUME NEW n \in Nat, NEW m \in Nat, m <= n, NEW s, NEW r, NEW t, NEW u,
         SumsUp(s, n, t), SumsUp(r, m, u), \A i \in 1 .. m : t[i] = u[i]
  PROVE  s[m] = r[m]
<1>. DEFINE Differ == {i \in 0 .. m : s[i] # r[i]}
<1>1. SUFFICES ASSUME Differ # {}
               PROVE  FALSE
  <2>1. m \in 0 .. m
    OBVIOUS
  <2>. QED
    BY <2>1
<1>2. PICK i \in Differ : \A j \in Differ : i <= j
  <2>1. Differ \in SUBSET Nat
    OBVIOUS
  <2>. HIDE DEF Differ
  <2>. QED
    BY <1>1, <2>1, LeastNumber, Zenon
<1>3. i \in 0 .. m /\ i \in 0 .. n /\ s[i] # r[i]
  BY <1>2
<1>4. /\ s[i] = IF i = 0 THEN 0 ELSE s[i - 1] + t[i]
      /\ r[i] = IF i = 0 THEN 0 ELSE r[i - 1] + u[i]
  BY <1>3 DEF IsSum, SumsUp
<1>5. CASE i = 0
  BY <1>3, <1>4, <1>5
<1>6. CASE i # 0
  <2>1. i - 1 \in 0 .. m /\ i - 1 \notin Differ /\ i \in 1 .. m
    BY <1>2, <1>3, <1>6
  <2>2. s[i - 1] = r[i - 1] /\ t[i] = u[i]
    BY <2>1
  <2>. QED
    BY <1>3, <1>4, <1>6, <2>2
<1>. QED
  BY <1>5, <1>6

(* The powers of the radix.                                                *)
LEMMA PowerExists ==
  ASSUME NEW n \in Nat
  PROVE  \E f : /\ f \in [0 .. n -> Nat \ {0}] /\ Little!Power(n) = f[n]
                /\ \A i \in 0 .. n : f[i] = IF i = 0 THEN 1 ELSE Radix * f[i - 1]
<1>. DEFINE V == Nat \ {0}
            G == [k \in 0 + 1 .. n |-> [v \in V |-> Radix * v]]
            IsPower(f) == f = [i \in 0 .. n |-> IF i = 0 THEN 1 ELSE Radix * f[i - 1]]
            power == CHOOSE f : IsPower(f)
<1>1. G \in [0 + 1 .. n -> [V -> V]] /\ 0 \in Nat /\ 1 \in V
  <2>1. \A v \in V : Radix * v \in V
    BY SMT, MCByteOrderAssumption
  <2>. QED
    BY <2>1
<1>2. \E f : IsRecursive(f, 0, n, V, 1, G)
  <2>. HIDE DEF G, V
  <2>. QED
    BY <1>1, Recursion
<1>3. PICK f : IsRecursive(f, 0, n, V, 1, G)
  BY <1>2
<1>4. f \in [0 .. n -> V]
  BY <1>3 DEF IsRecursive
<1>5. ASSUME NEW i \in 0 .. n
      PROVE  f[i] = IF i = 0 THEN 1 ELSE Radix * f[i - 1]
  <2>1. CASE i = 0
    BY <1>3, <2>1 DEF IsRecursive
  <2>2. CASE i # 0
    <3>1. i \in 0 + 1 .. n /\ i - 1 \in 0 .. n
      BY <2>2
    <3>2. f[i] = G[i][f[i - 1]] /\ f[i - 1] \in V
      <4>. HIDE DEF G, V
      <4>. QED
        BY <1>3, <2>2, <3>1 DEF IsRecursive
    <3>. HIDE DEF V
    <3>. QED
      BY <2>2, <3>1, <3>2
  <2>. QED
    BY <2>1, <2>2
<1>6. IsPower(f)
  <2>1. f = [i \in 0 .. n |-> f[i]]
    BY <1>4
  <2>. QED
    BY <1>5, <2>1
<1>7. IsPower(power)
  <2>. HIDE DEF IsPower
  <2>. QED
    BY <1>6
<1>8. Little!Power(n) = power[n]
  BY DEF Little!Power
<1>. HIDE DEF power
<1>9. \A i \in 0 .. n : power[i] = IF i = 0 THEN 1 ELSE Radix * power[i - 1]
  BY <1>7
<1>10. \A i \in 0 .. n : power[i] = f[i]
  <2>. DEFINE Differ == {i \in 0 .. n : power[i] # f[i]}
  <2>1. SUFFICES ASSUME Differ # {}
                 PROVE  FALSE
    OBVIOUS
  <2>2. PICK i \in Differ : \A j \in Differ : i <= j
    <3>1. Differ \in SUBSET Nat
      OBVIOUS
    <3>. HIDE DEF Differ
    <3>. QED
      BY <2>1, <3>1, LeastNumber, Zenon
  <2>3. i \in 0 .. n /\ power[i] # f[i]
    BY <2>2
  <2>4. i # 0
    BY <1>5, <1>9, <2>3
  <2>5. i - 1 \in 0 .. n /\ i - 1 \notin Differ
    BY <2>2, <2>3, <2>4
  <2>6. power[i - 1] = f[i - 1]
    BY <2>5
  <2>. QED
    BY <1>5, <1>9, <2>3, <2>4, <2>6
<1>11. power \in [0 .. n -> V]
  <2>1. power = [i \in 0 .. n |-> power[i]]
    BY <1>7
  <2>2. power = f
    BY <1>4, <1>10, <2>1
  <2>. QED
    BY <1>4, <2>2
<1>. QED
  BY <1>8, <1>9, <1>11

(* A power is the radix times the one before, and so an even number.       *)
LEMMA PowerFacts ==
  ASSUME NEW n \in Nat
  PROVE  /\ Little!Power(n) \in Nat \ {0} /\ Big!Power(n) = Little!Power(n)
         /\ Little!Power(0) = 1
         /\ Little!Power(n + 1) = Radix * Little!Power(n)
<1>1. PICK f : /\ f \in [0 .. n -> Nat \ {0}] /\ Little!Power(n) = f[n]
               /\ \A i \in 0 .. n : f[i] = IF i = 0 THEN 1 ELSE Radix * f[i - 1]
  BY PowerExists
<1>2. n + 1 \in Nat /\ 0 \in Nat
  OBVIOUS
<1>3. PICK g : /\ g \in [0 .. n + 1 -> Nat \ {0}] /\ Little!Power(n + 1) = g[n + 1]
               /\ \A i \in 0 .. n + 1 : g[i] = IF i = 0 THEN 1 ELSE Radix * g[i - 1]
  BY <1>2, PowerExists
<1>4. Little!Power(0) = 1
  <2>1. PICK h : /\ h \in [0 .. 0 -> Nat \ {0}] /\ Little!Power(0) = h[0]
                 /\ \A i \in 0 .. 0 : h[i] = IF i = 0 THEN 1 ELSE Radix * h[i - 1]
    BY <1>2, PowerExists
  <2>. QED
    BY <2>1
<1>5. f[n] = g[n]
  <2>. DEFINE Differ == {i \in 0 .. n : f[i] # g[i]}
  <2>1. SUFFICES ASSUME Differ # {}
                 PROVE  FALSE
    <3>1. n \in 0 .. n
      OBVIOUS
    <3>. QED
      BY <3>1
  <2>2. PICK i \in Differ : \A j \in Differ : i <= j
    <3>1. Differ \in SUBSET Nat
      OBVIOUS
    <3>. HIDE DEF Differ
    <3>. QED
      BY <2>1, <3>1, LeastNumber, Zenon
  <2>3. i \in 0 .. n /\ i \in 0 .. n + 1 /\ f[i] # g[i]
    BY <2>2
  <2>4. i # 0
    BY <1>1, <1>3, <2>3
  <2>5. i - 1 \in 0 .. n /\ i - 1 \notin Differ
    BY <2>2, <2>3, <2>4
  <2>6. f[i - 1] = g[i - 1]
    BY <2>5
  <2>. QED
    BY <1>1, <1>3, <2>3, <2>4, <2>6
<1>6. g[n + 1] = Radix * g[n]
  <2>1. n + 1 \in 0 .. n + 1 /\ n + 1 # 0 /\ (n + 1) - 1 = n
    OBVIOUS
  <2>. QED
    BY <1>3, <2>1
<1>7. Little!Power(n) \in Nat \ {0}
  <2>1. n \in 0 .. n
    OBVIOUS
  <2>. QED
    BY <1>1, <2>1
<1>8. Big!Power(n) = Little!Power(n)
  BY DEF Little!Power, Big!Power
<1>. QED
  BY <1>1, <1>3, <1>4, <1>5, <1>6, <1>7, <1>8

(* An unsigned number is the sum of its bytes, each in its place.          *)
LittleTerms(mem) == [i \in 1 .. Len(mem) |-> mem[i] * Little!Power(i - 1)]
BigTerms(mem) == [i \in 1 .. Len(mem) |-> mem[i] * Little!Power(Len(mem) - i)]

(* The terms are natural numbers.                                          *)
LEMMA TermsAreNumbers ==
  ASSUME NEW mem \in Seq(Octet)
  PROVE  /\ LittleTerms(mem) \in [1 .. Len(mem) -> Nat]
         /\ BigTerms(mem) \in [1 .. Len(mem) -> Nat]
<1>. DEFINE n == Len(mem)
<1>0. n \in Nat
  OBVIOUS
<1>1. ASSUME NEW i \in 1 .. n
      PROVE  mem[i] \in Nat
  BY MCByteOrderAssumption DEF Octet
<1>2. \A a \in Nat, b \in Nat : a * b \in Nat
  BY SMT
<1>. HIDE DEF n
<1>3. ASSUME NEW i \in 1 .. n
      PROVE  mem[i] * Little!Power(i - 1) \in Nat /\ mem[i] * Little!Power(n - i) \in Nat
  <2>1. i - 1 \in Nat /\ n - i \in Nat
    BY <1>0
  <2>2. Little!Power(i - 1) \in Nat /\ Little!Power(n - i) \in Nat
    BY <2>1, PowerFacts
  <2>. QED
    BY <1>1, <1>2, <2>2
<1>. QED
  BY <1>3 DEF LittleTerms, BigTerms, n

(* The number that a little-endian machine has in a variable is a sum.     *)
LEMMA LittleUnsigned ==
  ASSUME NEW mem \in Seq(Octet)
  PROVE  \E s : IsSum(s, Len(mem), LittleTerms(mem)) /\ Little!unsigned(mem) = s[Len(mem)]
<1>. DEFINE n == Len(mem)
            t == LittleTerms(mem)
            Adds(f) == f = [i \in 0 .. n |->
                              IF i = 0 THEN 0
                              ELSE f[i - 1] + mem[i] * Little!Power(Little!Significance(mem, i))]
            sum == CHOOSE f : Adds(f)
<1>1. n \in Nat /\ t \in [1 .. n -> Nat] /\ \A i \in 0 .. n : i # 0 => i \in 1 .. n
  BY TermsAreNumbers
<1>2. \A i \in 1 .. n : t[i] = mem[i] * Little!Power(Little!Significance(mem, i))
  BY DEF LittleTerms, Little!Significance
<1>3. Little!unsigned(mem) = sum[n]
  BY DEF Little!unsigned
<1>4. PICK s : IsSum(s, n, t)
  BY <1>1, SumExists
<1>. HIDE DEF n, t
<1>5. Adds(s)
  <2>1. s = [i \in 0 .. n |-> s[i]]
    BY <1>4 DEF IsSum
  <2>2. \A i \in 0 .. n : s[i] = IF i = 0 THEN 0
                                 ELSE s[i - 1] + mem[i] * Little!Power(Little!Significance(mem, i))
    BY <1>1, <1>2, <1>4 DEF IsSum, SumsUp
  <2>. QED
    BY <2>1, <2>2
<1>6. Adds(sum)
  <2>. HIDE DEF Adds
  <2>. QED
    BY <1>5
<1>. HIDE DEF sum
<1>7. SumsUp(sum, n, t)
  <2>1. \A i \in 0 .. n : sum[i] = IF i = 0 THEN 0
                          ELSE sum[i - 1] + mem[i] * Little!Power(Little!Significance(mem, i))
    BY <1>6
  <2>. QED
    BY <1>1, <1>2, <2>1 DEF SumsUp
<1>. HIDE DEF Adds
<1>8. sum[n] = s[n]
  <2>1. n <= n /\ \A i \in 1 .. n : t[i] = t[i]
    BY <1>1
  <2>2. SumsUp(s, n, t)
    BY <1>4 DEF IsSum
  <2>. QED
    BY <1>1, <1>7, <2>1, <2>2, SameSums
<1>. QED
  BY <1>3, <1>4, <1>8 DEF n, t

(* The number that a big-endian machine has in a variable is a sum.        *)
LEMMA BigUnsigned ==
  ASSUME NEW mem \in Seq(Octet)
  PROVE  \E s : IsSum(s, Len(mem), BigTerms(mem)) /\ Big!unsigned(mem) = s[Len(mem)]
<1>. DEFINE n == Len(mem)
            t == BigTerms(mem)
            Adds(f) == f = [i \in 0 .. n |->
                              IF i = 0 THEN 0
                              ELSE f[i - 1] + mem[i] * Big!Power(Big!Significance(mem, i))]
            sum == CHOOSE f : Adds(f)
<1>1. n \in Nat /\ t \in [1 .. n -> Nat] /\ \A i \in 0 .. n : i # 0 => i \in 1 .. n
  BY TermsAreNumbers
<1>2. \A i \in 1 .. n : t[i] = mem[i] * Big!Power(Big!Significance(mem, i))
  <2>1. \A i \in 1 .. n : t[i] = mem[i] * Little!Power(n - i)
    BY DEF BigTerms
  <2>2. \A i \in 1 .. n : Big!Significance(mem, i) = n - i
    BY DEF Big!Significance
  <2>3. \A i \in 1 .. n : n - i \in Nat
    BY <1>1
  <2>. HIDE DEF n, t
  <2>4. \A i \in 1 .. n : Big!Power(Big!Significance(mem, i)) = Little!Power(n - i)
    BY <2>2, <2>3, PowerFacts
  <2>. QED
    BY <2>1, <2>4
<1>3. Big!unsigned(mem) = sum[n]
  BY DEF Big!unsigned
<1>4. PICK s : IsSum(s, n, t)
  BY <1>1, SumExists
<1>. HIDE DEF n, t
<1>5. Adds(s)
  <2>1. s = [i \in 0 .. n |-> s[i]]
    BY <1>4 DEF IsSum
  <2>2. \A i \in 0 .. n : s[i] = IF i = 0 THEN 0
                                 ELSE s[i - 1] + mem[i] * Big!Power(Big!Significance(mem, i))
    BY <1>1, <1>2, <1>4 DEF IsSum, SumsUp
  <2>. QED
    BY <2>1, <2>2
<1>6. Adds(sum)
  <2>. HIDE DEF Adds
  <2>. QED
    BY <1>5
<1>. HIDE DEF sum
<1>7. SumsUp(sum, n, t)
  <2>1. \A i \in 0 .. n : sum[i] = IF i = 0 THEN 0
                          ELSE sum[i - 1] + mem[i] * Big!Power(Big!Significance(mem, i))
    BY <1>6
  <2>. QED
    BY <1>1, <1>2, <2>1 DEF SumsUp
<1>. HIDE DEF Adds
<1>8. sum[n] = s[n]
  <2>1. n <= n /\ \A i \in 1 .. n : t[i] = t[i]
    BY <1>1
  <2>2. SumsUp(s, n, t)
    BY <1>4 DEF IsSum
  <2>. QED
    BY <1>1, <1>7, <2>1, <2>2, SameSums
<1>. QED
  BY <1>3, <1>4, <1>8 DEF n, t

(* A byte more, in the next place.                                         *)
LEMMA AppendByte ==
  ASSUME NEW mem \in Seq(Octet), NEW d \in Octet
  PROVE  /\ Append(mem, d) \in Seq(Octet) /\ Len(Append(mem, d)) = Len(mem) + 1
         /\ Little!unsigned(mem) \in Nat
         /\ Little!unsigned(Append(mem, d)) = Little!unsigned(mem) + d * Little!Power(Len(mem))
<1>. DEFINE n == Len(mem)
            next == Append(mem, d)
            t == LittleTerms(mem)
            u == LittleTerms(next)
<1>1. /\ n \in Nat /\ next \in Seq(Octet) /\ Len(next) = n + 1
      /\ next[n + 1] = d /\ \A i \in 1 .. n : next[i] = mem[i]
  OBVIOUS
<1>2. /\ \A i \in 1 .. n : t[i] = u[i]
      /\ u[n + 1] = d * Little!Power((n + 1) - 1)
  <2>1. /\ \A i \in 1 .. n : t[i] = mem[i] * Little!Power(i - 1)
        /\ \A i \in 1 .. Len(next) : u[i] = next[i] * Little!Power(i - 1)
    BY DEF LittleTerms
  <2>2. n + 1 \in 1 .. n + 1 /\ \A i \in 1 .. n : i \in 1 .. n + 1
    BY <1>1
  <2>. HIDE DEF n, next, t, u
  <2>. QED
    BY <1>1, <2>1, <2>2
<1>3. PICK s : IsSum(s, n, t) /\ Little!unsigned(mem) = s[n]
  BY LittleUnsigned
<1>4. PICK r : IsSum(r, n + 1, u) /\ Little!unsigned(next) = r[n + 1]
  <2>1. \E r : IsSum(r, Len(next), LittleTerms(next)) /\ Little!unsigned(next) = r[Len(next)]
    <3>. HIDE DEF next
    <3>. QED
      BY <1>1, LittleUnsigned
  <2>. QED
    BY <1>1, <2>1
<1>. HIDE DEF n, next, t, u
<1>5. /\ s[n] \in Nat
      /\ r[n + 1] = r[(n + 1) - 1] + u[n + 1]
      /\ (n + 1) - 1 = n
  <2>1. n \in 0 .. n /\ n + 1 \in 0 .. n + 1 /\ n + 1 # 0 /\ (n + 1) - 1 = n
    BY <1>1
  <2>. QED
    BY <1>3, <1>4, <2>1 DEF IsSum, SumsUp
<1>6. r[n] = s[n]
  <2>1. n + 1 \in Nat /\ n <= n + 1
    BY <1>1
  <2>2. SumsUp(s, n, t) /\ SumsUp(r, n + 1, u) /\ \A i \in 1 .. n : u[i] = t[i]
    BY <1>2, <1>3, <1>4 DEF IsSum
  <2>. QED
    BY <1>1, <2>1, <2>2, SameSums
<1>7. Little!unsigned(next) = Little!unsigned(mem) + d * Little!Power(n)
  BY <1>2, <1>3, <1>4, <1>5, <1>6
<1>. QED
  BY <1>1, <1>3, <1>5, <1>7 DEF n, next

(* The sum of two, four and eight terms.                                   *)
LEMMA FewTerms ==
  ASSUME NEW n \in Nat, NEW s, NEW t \in [1 .. n -> Nat], IsSum(s, n, t)
  PROVE  /\ n = 2 => s[n] = t[1] + t[2]
         /\ n = 4 => s[n] = t[1] + t[2] + t[3] + t[4]
         /\ n = 8 => s[n] = t[1] + t[2] + t[3] + t[4] + t[5] + t[6] + t[7] + t[8]
<1>1. \A i \in 1 .. n : t[i] \in Nat
  OBVIOUS
<1>2. s[0] = 0 /\ \A i \in 1 .. n : s[i] = s[i - 1] + t[i]
  BY DEF IsSum, SumsUp
<1>3. \A i \in 0 .. n : s[i] \in Nat
  BY DEF IsSum
<1>4. n >= 2 => s[2] = t[1] + t[2]
  <2>1. SUFFICES ASSUME n >= 2 PROVE s[2] = t[1] + t[2]
    OBVIOUS
  <2>2. s[1] = s[1 - 1] + t[1] /\ 1 - 1 = 0 /\ t[1] \in Nat
    BY <1>1, <1>2, <2>1
  <2>3. s[2] = s[2 - 1] + t[2] /\ 2 - 1 = 1 /\ t[2] \in Nat
    BY <1>1, <1>2, <2>1
  <2>. QED
    BY <1>2, <2>2, <2>3
<1>5. n >= 4 => s[4] = t[1] + t[2] + t[3] + t[4]
  <2>1. SUFFICES ASSUME n >= 4 PROVE s[4] = t[1] + t[2] + t[3] + t[4]
    OBVIOUS
  <2>2. s[3] = s[3 - 1] + t[3] /\ 3 - 1 = 2
    BY <1>2, <2>1
  <2>3. s[4] = s[4 - 1] + t[4] /\ 4 - 1 = 3
    BY <1>2, <2>1
  <2>4. t[1] \in Nat /\ t[2] \in Nat /\ t[3] \in Nat /\ t[4] \in Nat
    BY <1>1, <2>1
  <2>. QED
    BY <1>4, <2>1, <2>2, <2>3, <2>4
<1>6. n >= 8 => s[8] = t[1] + t[2] + t[3] + t[4] + t[5] + t[6] + t[7] + t[8]
  <2>1. SUFFICES ASSUME n >= 8 PROVE s[8] = t[1] + t[2] + t[3] + t[4] + t[5] + t[6] + t[7] + t[8]
    OBVIOUS
  <2>2. s[5] = s[5 - 1] + t[5] /\ 5 - 1 = 4
    <3>1. 5 \in 1 .. n
      BY <2>1
    <3>. QED
      BY <1>2, <3>1
  <2>3. s[6] = s[6 - 1] + t[6] /\ 6 - 1 = 5
    <3>1. 6 \in 1 .. n
      BY <2>1
    <3>. QED
      BY <1>2, <3>1
  <2>4. s[7] = s[7 - 1] + t[7] /\ 7 - 1 = 6
    <3>1. 7 \in 1 .. n
      BY <2>1
    <3>. QED
      BY <1>2, <3>1
  <2>5. s[8] = s[8 - 1] + t[8] /\ 8 - 1 = 7
    <3>1. 8 \in 1 .. n
      BY <2>1
    <3>. QED
      BY <1>2, <3>1
  <2>6. /\ t[1] \in Nat /\ t[2] \in Nat /\ t[3] \in Nat /\ t[4] \in Nat
        /\ t[5] \in Nat /\ t[6] \in Nat /\ t[7] \in Nat /\ t[8] \in Nat
    BY <1>1, <2>1
  <2>7. s[4] = t[1] + t[2] + t[3] + t[4]
    BY <1>5, <2>1
  <2>. QED
    BY <2>2, <2>3, <2>4, <2>5, <2>6, <2>7
<1>. QED
  BY <1>4, <1>5, <1>6

(* The bytes the other way round stand for the same number on the other    *)
(* machine.                                                                *)
IsMirror(m, mem) ==
  /\ m \in Seq(Octet) /\ Len(m) = Len(mem)
  /\ \A i \in 1 .. Len(mem) : m[i] = mem[Len(mem) + 1 - i]

(* The sum of the bytes the other way round has the same terms, in the     *)
(* opposite order.                                                         *)
LEMMA MirrorUnsigned ==
  ASSUME NEW mem \in Seq(Octet), NEW m, IsMirror(m, mem), Len(mem) \in {2, 4, 8}
  PROVE  Big!unsigned(m) = Little!unsigned(mem)
<1>. DEFINE n == Len(mem)
            t == LittleTerms(mem)
            u == BigTerms(m)
<1>1. /\ m \in Seq(Octet) /\ Len(m) = n /\ n \in {2, 4, 8} /\ n \in Nat
      /\ \A i \in 1 .. n : m[i] = mem[n + 1 - i]
  <2>1. m \in Seq(Octet) /\ Len(m) = n /\ \A i \in 1 .. n : m[i] = mem[n + 1 - i]
    BY DEF IsMirror
  <2>2. n \in {2, 4, 8} /\ n \in Nat
    OBVIOUS
  <2>. QED
    BY <2>1, <2>2
<1>2. t \in [1 .. n -> Nat] /\ u \in [1 .. n -> Nat]
  <2>1. t \in [1 .. n -> Nat]
    BY TermsAreNumbers
  <2>2. u \in [1 .. Len(m) -> Nat]
    BY <1>1, TermsAreNumbers
  <2>. QED
    BY <1>1, <2>1, <2>2
<1>3. PICK s : IsSum(s, n, t) /\ Little!unsigned(mem) = s[n]
  BY LittleUnsigned
<1>4. PICK r : IsSum(r, n, u) /\ Big!unsigned(m) = r[n]
  <2>1. \E r : IsSum(r, Len(m), BigTerms(m)) /\ Big!unsigned(m) = r[Len(m)]
    BY <1>1, BigUnsigned
  <2>. QED
    BY <1>1, <2>1
<1>5. ASSUME NEW i \in 1 .. n
      PROVE  u[i] = t[n + 1 - i]
  <2>1. u[i] = m[i] * Little!Power(n - i)
    BY <1>1 DEF BigTerms
  <2>2. n + 1 - i \in 1 .. n /\ (n + 1 - i) - 1 = n - i
    BY <1>1
  <2>3. t[n + 1 - i] = mem[n + 1 - i] * Little!Power((n + 1 - i) - 1)
    BY <2>2 DEF LittleTerms
  <2>. QED
    BY <1>1, <2>1, <2>2, <2>3
<1>. HIDE DEF n, t, u
<1>6. \A i \in 1 .. n : t[i] \in Nat /\ u[i] \in Nat
  BY <1>2
<1>7. CASE n = 2
  <2>1. u[1] = t[2] /\ u[2] = t[1] /\ t[1] \in Nat /\ t[2] \in Nat
    BY <1>5, <1>6, <1>7
  <2>2. s[n] = t[1] + t[2] /\ r[n] = u[1] + u[2]
    BY <1>1, <1>2, <1>3, <1>4, <1>7, FewTerms
  <2>. QED
    BY <1>3, <1>4, <2>1, <2>2
<1>8. CASE n = 4
  <2>1. u[1] = t[4] /\ u[2] = t[3] /\ u[3] = t[2] /\ u[4] = t[1]
    BY <1>5, <1>8
  <2>2. t[1] \in Nat /\ t[2] \in Nat /\ t[3] \in Nat /\ t[4] \in Nat
    BY <1>6, <1>8
  <2>3. s[n] = t[1] + t[2] + t[3] + t[4] /\ r[n] = u[1] + u[2] + u[3] + u[4]
    BY <1>1, <1>2, <1>3, <1>4, <1>8, FewTerms
  <2>. QED
    BY <1>3, <1>4, <2>1, <2>2, <2>3
<1>9. CASE n = 8
  <2>1. /\ u[1] = t[8] /\ u[2] = t[7] /\ u[3] = t[6] /\ u[4] = t[5]
        /\ u[5] = t[4] /\ u[6] = t[3] /\ u[7] = t[2] /\ u[8] = t[1]
    BY <1>5, <1>9
  <2>2. /\ t[1] \in Nat /\ t[2] \in Nat /\ t[3] \in Nat /\ t[4] \in Nat
        /\ t[5] \in Nat /\ t[6] \in Nat /\ t[7] \in Nat /\ t[8] \in Nat
    BY <1>6, <1>9
  <2>3. /\ s[n] = t[1] + t[2] + t[3] + t[4] + t[5] + t[6] + t[7] + t[8]
        /\ r[n] = u[1] + u[2] + u[3] + u[4] + u[5] + u[6] + u[7] + u[8]
    BY <1>1, <1>2, <1>3, <1>4, <1>9, FewTerms
  <2>4. PICK a1 \in Nat, a2 \in Nat, a3 \in Nat, a4 \in Nat :
          t[1] = a1 /\ t[2] = a2 /\ t[3] = a3 /\ t[4] = a4
    BY <2>2
  <2>5. PICK a5 \in Nat, a6 \in Nat, a7 \in Nat, a8 \in Nat :
          t[5] = a5 /\ t[6] = a6 /\ t[7] = a7 /\ t[8] = a8
    BY <2>2
  <2>6. s[n] = a1 + a2 + a3 + a4 + a5 + a6 + a7 + a8
    BY <2>3, <2>4, <2>5
  <2>7. r[n] = a8 + a7 + a6 + a5 + a4 + a3 + a2 + a1
    BY <2>1, <2>3, <2>4, <2>5
  <2>. QED
    BY <1>3, <1>4, <2>6, <2>7
<1>. QED
  BY <1>1, <1>7, <1>8, <1>9

(* The bytes one by one to the other end.                                  *)
LEMMA SwappedIsMirror ==
  ASSUME NEW mem \in Seq(Octet)
  PROVE  /\ Len(mem) = 2 => IsMirror(Big!Swapped2(mem), mem)
         /\ Len(mem) = 4 => IsMirror(Big!Swapped4(mem), mem)
         /\ Len(mem) = 8 => IsMirror(Big!Swapped8(mem), mem)
<1>1. \A i \in 1 .. Len(mem) : mem[i] \in Octet
  OBVIOUS
<1>2. ASSUME Len(mem) = 2
      PROVE  IsMirror(Big!Swapped2(mem), mem)
  <2>. DEFINE m == Big!Swapped2(mem)
  <2>1. m = <<mem[2], mem[1]>>
    BY DEF Big!Swapped2
  <2>2. mem[1] \in Octet /\ mem[2] \in Octet
    BY <1>1, <1>2
  <2>. HIDE DEF m
  <2>3. m \in Seq(Octet) /\ Len(m) = 2 /\ m[1] = mem[2] /\ m[2] = mem[1]
    BY <2>1, <2>2
  <2>4. \A i \in 1 .. 2 : m[i] = mem[2 + 1 - i]
    BY <2>3
  <2>. QED
    BY <1>2, <2>3, <2>4 DEF IsMirror, m
<1>3. ASSUME Len(mem) = 4
      PROVE  IsMirror(Big!Swapped4(mem), mem)
  <2>. DEFINE m == Big!Swapped4(mem)
  <2>1. m = <<mem[4], mem[3], mem[2], mem[1]>>
    BY DEF Big!Swapped4
  <2>2. mem[1] \in Octet /\ mem[2] \in Octet /\ mem[3] \in Octet /\ mem[4] \in Octet
    BY <1>1, <1>3
  <2>. HIDE DEF m
  <2>3. m \in Seq(Octet) /\ Len(m) = 4 /\ m[1] = mem[4] /\ m[2] = mem[3] /\ m[3] = mem[2] /\ m[4] = mem[1]
    BY <2>1, <2>2
  <2>4. \A i \in 1 .. 4 : m[i] = mem[4 + 1 - i]
    BY <2>3
  <2>. QED
    BY <1>3, <2>3, <2>4 DEF IsMirror, m
<1>4. ASSUME Len(mem) = 8
      PROVE  IsMirror(Big!Swapped8(mem), mem)
  <2>. DEFINE m == Big!Swapped8(mem)
  <2>1. m = <<mem[8], mem[7], mem[6], mem[5], mem[4], mem[3], mem[2], mem[1]>>
    BY DEF Big!Swapped8
  <2>2. /\ mem[1] \in Octet /\ mem[2] \in Octet /\ mem[3] \in Octet /\ mem[4] \in Octet
        /\ mem[5] \in Octet /\ mem[6] \in Octet /\ mem[7] \in Octet /\ mem[8] \in Octet
    BY <1>1, <1>4
  <2>. HIDE DEF m
  <2>3. /\ m \in Seq(Octet) /\ Len(m) = 8
        /\ m[1] = mem[8] /\ m[2] = mem[7] /\ m[3] = mem[6] /\ m[4] = mem[5]
        /\ m[5] = mem[4] /\ m[6] = mem[3] /\ m[7] = mem[2] /\ m[8] = mem[1]
    BY <2>1, <2>2
  <2>4. \A i \in 1 .. 8 : m[i] = mem[8 + 1 - i]
    BY <2>3
  <2>. QED
    BY <1>4, <2>3, <2>4 DEF IsMirror, m
<1>. QED
  BY <1>2, <1>3, <1>4

(* The signed number of the same bytes.                                    *)
SignedOf(n, u, p) == -p <= 2 * n /\ 2 * n < p /\ (u - n) % p = 0

(* The signed number is in the range of its width and differs by a         *)
(* multiple of the modulus.                                                *)
LEMMA SignedRange ==
  ASSUME NEW u \in Nat, NEW p \in Nat \ {0}, u < p,
         NEW n, n = IF 2 * u >= p THEN u - p ELSE u
  PROVE  SignedOf(n, u, p)
<1>1. -p <= 2 * n /\ 2 * n < p
  BY SMT
<1>2. 0 % p = 0 /\ p % p = 0
  BY SMT
<1>3. u - n = 0 \/ u - n = p
  BY SMT
<1>. QED
  BY <1>1, <1>2, <1>3 DEF SignedOf

(* A machine of either order reads the same number.                        *)
LEMMA SameSigned ==
  ASSUME NEW mem \in Seq(Octet), NEW m, IsMirror(m, mem), Len(mem) \in {2, 4, 8}
  PROVE  /\ Big!unsigned(m) = Little!unsigned(mem)
         /\ Big!signed(m) = Little!signed(mem)
<1>1. Big!unsigned(m) = Little!unsigned(mem)
  BY MirrorUnsigned
<1>2. Len(m) = Len(mem) /\ Len(mem) \in Nat
  BY DEF IsMirror
<1>3. Big!Power(Len(m)) = Little!Power(Len(mem))
  BY <1>2, PowerFacts
<1>. QED
  BY <1>1, <1>3 DEF Big!signed, Little!signed

-----------------------------------------------------------------------------
(* Numbers that are written byte by byte.                                  *)

(* What holds of the bytes that have been written.                         *)
StoreInv ==
  /\ bytes \in Seq(Octet) /\ Len(bytes) <= 8
  /\ number = Little!unsigned(bytes) /\ number \in Nat
  /\ number < Little!Power(Len(bytes))

(* Nothing written is zero.                                                *)
LEMMA StoreInit ==
  ASSUME NoBytes
  PROVE  StoreInv
<1>1. bytes = <<>> /\ number = 0 /\ Len(bytes) = 0 /\ bytes \in Seq(Octet)
  BY DEF NoBytes
<1>2. Little!unsigned(bytes) = 0
  <2>1. PICK s : IsSum(s, Len(bytes), LittleTerms(bytes)) /\ Little!unsigned(bytes) = s[Len(bytes)]
    BY <1>1, LittleUnsigned
  <2>. QED
    BY <1>1, <2>1 DEF IsSum, SumsUp
<1>3. Little!Power(0) = 1
  <2>1. 0 \in Nat
    OBVIOUS
  <2>. QED
    BY <2>1, PowerFacts
<1>. QED
  BY <1>1, <1>2, <1>3 DEF StoreInv

(* The number stays below the power that its next byte is multiplied with. *)
LEMMA NextPlace ==
  ASSUME NEW v \in Nat, NEW p \in Nat, v < p, NEW d \in 0 .. Radix - 1
  PROVE  v + d * p \in Nat /\ v + d * p < Radix * p
<1>1. Radix \in Nat
  BY MCByteOrderAssumption
<1>2. \A a \in Nat, b \in Nat, c \in Nat : a <= b => a * c <= b * c
  BY SMT
<1>3. d \in Nat /\ Radix - 1 \in Nat /\ d <= Radix - 1
  BY <1>1
<1>4. d * p <= (Radix - 1) * p
  BY <1>2, <1>3
<1>5. (Radix - 1) * p = Radix * p - p /\ d * p \in Nat /\ Radix * p \in Nat
  BY SMT, <1>1, <1>3
<1>. QED
  BY <1>4, <1>5

(* A byte more keeps the invariant of what has been written.               *)
LEMMA StoreNext ==
  ASSUME StoreInv, NEW d \in Digits, WriteByte(d)
  PROVE  StoreInv'
<1>1. /\ bytes \in Seq(Octet) /\ Len(bytes) < 8
      /\ number = Little!unsigned(bytes) /\ number \in Nat /\ number < Little!Power(Len(bytes))
      /\ bytes' = Append(bytes, d) /\ number' = number + d * Little!Power(Len(bytes))
  BY DEF StoreInv, WriteByte
<1>2. d \in Octet
  BY MCByteOrderAssumption DEF Octet
<1>3. Len(bytes) \in Nat
  BY <1>1
<1>4. /\ bytes' \in Seq(Octet) /\ Len(bytes') = Len(bytes) + 1
      /\ Little!unsigned(bytes') = number'
  BY <1>1, <1>2, AppendByte
<1>5. Little!Power(Len(bytes) + 1) = Radix * Little!Power(Len(bytes)) /\ Little!Power(Len(bytes)) \in Nat
  BY <1>3, PowerFacts
<1>. DEFINE p == Little!Power(Len(bytes))
<1>6. number + d * p \in Nat /\ number + d * p < Radix * p
  <2>1. p \in Nat /\ number \in Nat /\ number < p /\ d \in 0 .. Radix - 1
    BY <1>1, <1>2, <1>5 DEF Octet
  <2>. HIDE DEF p
  <2>. QED
    BY <2>1, NextPlace
<1>7. number' \in Nat /\ number' < Little!Power(Len(bytes'))
  BY <1>1, <1>4, <1>5, <1>6
<1>8. Len(bytes') <= 8
  BY <1>1, <1>3, <1>4
<1>. QED
  BY <1>4, <1>7, <1>8 DEF StoreInv

(* The signed number of what has been written.                             *)
LEMMA WrittenSigned ==
  ASSUME StoreInv
  PROVE  /\ Little!unsigned(bytes) = number
         /\ IsSigned(Little!signed(bytes))
<1>. DEFINE p == Little!Power(Len(bytes))
            n == Little!signed(bytes)
<1>1. /\ number = Little!unsigned(bytes) /\ number \in Nat /\ number < p
      /\ Len(bytes) \in Nat
  BY DEF StoreInv
<1>2. p \in Nat \ {0}
  BY <1>1, PowerFacts
<1>3. n = IF 2 * number >= p THEN number - p ELSE number
  BY <1>1 DEF Little!signed
<1>4. SignedOf(n, number, p)
  <2>. HIDE DEF n, p
  <2>. QED
    BY <1>1, <1>2, <1>3, SignedRange
<1>. QED
  BY <1>1, <1>4 DEF SignedOf, IsSigned

(* The bytes one by one to the other end, twice.                           *)
LEMMA MirroredFacts ==
  ASSUME bytes \in Seq(Octet)
  PROVE  /\ IsMirror(Mirrored, bytes)
         /\ Len(bytes) = 4 => Little!Swapped4(Mirrored) = bytes
<1>. DEFINE n == Len(bytes)
<1>1. n \in Nat /\ \A i \in 1 .. n : n + 1 - i \in 1 .. n /\ bytes[n + 1 - i] \in Octet
  OBVIOUS
<1>2. Mirrored = [i \in 1 .. n |-> bytes[n + 1 - i]]
  BY DEF Mirrored
<1>3. Mirrored \in Seq(Octet) /\ Len(Mirrored) = n
  <2>. HIDE DEF n
  <2>. QED
    BY <1>1, <1>2
<1>4. \A i \in 1 .. n : Mirrored[i] = bytes[n + 1 - i]
  BY <1>2
<1>5. ASSUME n = 4
      PROVE  Little!Swapped4(Mirrored) = bytes
  <2>1. Little!Swapped4(Mirrored) = <<Mirrored[4], Mirrored[3], Mirrored[2], Mirrored[1]>>
    BY DEF Little!Swapped4
  <2>2. /\ Mirrored[4] = bytes[1] /\ Mirrored[3] = bytes[2]
        /\ Mirrored[2] = bytes[3] /\ Mirrored[1] = bytes[4]
    BY <1>4, <1>5
  <2>3. bytes = <<bytes[1], bytes[2], bytes[3], bytes[4]>>
    BY <1>5
  <2>. QED
    BY <2>1, <2>2, <2>3
<1>. QED
  BY <1>3, <1>4, <1>5 DEF IsMirror

(* Every width is read back as it was written.                             *)
LEMMA ReadsBackCase ==
  ASSUME StoreInv
  PROVE  ReadsBack
<1>1. bytes \in Seq(Octet) /\ Little!unsigned(bytes) = number /\ IsSigned(Little!signed(bytes))
  BY WrittenSigned DEF StoreInv
<1>2. CASE Len(bytes) = 2
  <2>1. IsMirror(Big!Swapped2(bytes), bytes)
    BY <1>1, <1>2, SwappedIsMirror
  <2>2. Big!unsigned(Big!Swapped2(bytes)) = number
    BY <1>1, <1>2, <2>1, SameSigned
  <2>3. Little!shp_le16_to_uint16(bytes) = number
    BY <1>1 DEF Little!shp_le16_to_uint16
  <2>4. Big!shp_le16_to_uint16(bytes) = number
    BY <2>2 DEF Big!shp_le16_to_uint16
  <2>. QED
    BY <1>2, <2>3, <2>4 DEF ReadsBack
<1>3. CASE Len(bytes) = 4
  <2>1. IsMirror(Big!Swapped4(bytes), bytes) /\ IsMirror(Mirrored, bytes) /\ Little!Swapped4(Mirrored) = bytes
    BY <1>1, <1>3, SwappedIsMirror, MirroredFacts
  <2>2. /\ Big!unsigned(Big!Swapped4(bytes)) = number /\ Big!signed(Big!Swapped4(bytes)) = Little!signed(bytes)
        /\ Big!unsigned(Mirrored) = number /\ Big!signed(Mirrored) = Little!signed(bytes)
    BY <1>1, <1>3, <2>1, SameSigned
  <2>3. /\ Little!shp_le32_to_uint32(bytes) = number /\ Big!shp_le32_to_uint32(bytes) = number
        /\ Little!shp_be32_to_uint32(Mirrored) = number /\ Big!shp_be32_to_uint32(Mirrored) = number
    BY <1>1, <2>1, <2>2 DEF Little!shp_le32_to_uint32, Big!shp_le32_to_uint32,
       Little!shp_be32_to_uint32, Big!shp_be32_to_uint32
  <2>4. /\ Little!shp_le32_to_int32(bytes) = Little!signed(bytes)
        /\ Big!shp_le32_to_int32(bytes) = Little!signed(bytes)
        /\ Little!shp_be32_to_int32(Mirrored) = Little!signed(bytes)
        /\ Big!shp_be32_to_int32(Mirrored) = Little!signed(bytes)
    BY <2>1, <2>2 DEF Little!shp_le32_to_int32, Big!shp_le32_to_int32,
       Little!shp_be32_to_int32, Big!shp_be32_to_int32
  <2>. QED
    BY <1>1, <1>3, <2>3, <2>4 DEF ReadsBack
<1>4. CASE Len(bytes) = 8
  <2>1. IsMirror(Big!Swapped8(bytes), bytes)
    BY <1>1, <1>4, SwappedIsMirror
  <2>2. Big!unsigned(Big!Swapped8(bytes)) = number /\ Big!signed(Big!Swapped8(bytes)) = Little!signed(bytes)
    BY <1>1, <1>4, <2>1, SameSigned
  <2>3. /\ Little!shp_le64_to_double(bytes) = number /\ Big!shp_le64_to_double(bytes) = number
        /\ Little!shp_le64_to_int64(bytes) = Little!signed(bytes)
        /\ Big!shp_le64_to_int64(bytes) = Little!signed(bytes)
    BY <1>1, <2>2 DEF Little!shp_le64_to_double, Big!shp_le64_to_double,
       Little!shp_le64_to_int64, Big!shp_le64_to_int64
  <2>. QED
    BY <1>1, <1>4, <2>3 DEF ReadsBack
<1>5. CASE Len(bytes) \notin {2, 4, 8}
  BY <1>5 DEF ReadsBack
<1>. QED
  BY <1>2, <1>3, <1>4, <1>5

(* The bytes of a field, which every machine takes from a record alike.    *)
LEMMA LastBytes ==
  ASSUME NEW mem \in Seq(Octet), NEW a \in Nat, NEW n \in Nat, a + n <= Len(mem)
  PROVE  /\ Little!get_bytes_readonly(mem, Field(a, n)) = SubSeq(mem, a + 1, a + n)
         /\ Big!get_bytes_readonly(mem, Field(a, n)) = SubSeq(mem, a + 1, a + n)
         /\ SubSeq(mem, a + 1, a + n) \in Seq(Octet)
         /\ Len(SubSeq(mem, a + 1, a + n)) = n
<1>1. Field(a, n).offset = a /\ Field(a, n).size = n
  BY DEF Field
<1>. QED
  BY <1>1 DEF Little!get_bytes_readonly, Big!get_bytes_readonly

(* A machine of either order has the same value of an int32 field.         *)
LEMMA SameInt32 ==
  ASSUME NEW mem \in Seq(Octet), NEW a \in Nat, a + 4 <= Len(mem)
  PROVE  Big!dbf_record_int32(mem, Field(a, 4))
           = [ok |-> 1, value |-> Little!signed(SubSeq(mem, a + 1, a + 4))]
<1>. DEFINE b == SubSeq(mem, a + 1, a + 4)
<1>1. Big!get_bytes_readonly(mem, Field(a, 4)) = b /\ b \in Seq(Octet) /\ Len(b) = 4
  <2>1. 4 \in Nat
    OBVIOUS
  <2>. QED
    BY <2>1, LastBytes
<1>. HIDE DEF b
<1>2. Big!signed(Big!Swapped4(b)) = Little!signed(b)
  <2>1. IsMirror(Big!Swapped4(b), b)
    BY <1>1, SwappedIsMirror
  <2>. QED
    BY <1>1, <2>1, SameSigned
<1>3. Big!shp_le32_to_int32(b) = Little!signed(b)
  BY <1>2 DEF Big!shp_le32_to_int32
<1>. QED
  BY <1>1, <1>3 DEF Big!dbf_record_int32, Big!Success, b

(* A field has the value of its bytes where it has the width of its type.  *)
LEMMA BinaryCase ==
  ASSUME StoreInv
  PROVE  BinaryFields
<1>1. bytes \in Seq(Octet) /\ Len(bytes) \in Nat /\ Len(bytes) <= 8
  BY DEF StoreInv
<1>2. SUFFICES
        ASSUME NEW size \in 0 .. Len(bytes),
               NEW f, f = Field(Len(bytes) - size, size),
               NEW first4, first4 = Field(f.offset, 4),
               NEW last4, last4 = Field(f.offset + 4, 4),
               NEW int32, int32 = Little!dbf_record_int32(bytes, f),
               NEW int64, int64 = Little!dbf_record_int64(bytes, f),
               NEW dt, dt = Little!dbf_record_datetime(bytes, f)
        PROVE  /\ int32.ok = (IF size = 4 THEN 1 ELSE 0)
               /\ {int64.ok, dt.ok, Big!dbf_record_double(bytes, f).ok} = {IF size = 8 THEN 1 ELSE 0}
               /\ int32.ok = 0 => int32.value = 0
               /\ Len(bytes) = 4 /\ int32.ok = 1 => IsSigned(int32.value)
               /\ size = 8 =>
                    /\ IsSigned(int64.value)
                    /\ IsValue(Big!dbf_record_int32(bytes, first4), dt.value.jdn)
                    /\ IsValue(Big!dbf_record_int32(bytes, last4), dt.value.jt)
  BY DEF BinaryFields
<1>. DEFINE a == Len(bytes) - size
            b == SubSeq(bytes, a + 1, a + size)
<1>3. a \in Nat /\ size \in Nat /\ a + size = Len(bytes)
  BY <1>1, <1>2
<1>4. /\ Little!get_bytes_readonly(bytes, f) = b /\ Big!get_bytes_readonly(bytes, f) = b
      /\ b \in Seq(Octet) /\ Len(b) = size
  <2>1. a + size <= Len(bytes)
    BY <1>1, <1>3
  <2>. HIDE DEF a
  <2>. QED
    BY <1>1, <1>2, <1>3, <2>1, LastBytes DEF a
<1>5. f.offset = a
  BY <1>2 DEF Field
<1>. HIDE DEF a, b
<1>6. int32 = IF size = 4 THEN [ok |-> 1, value |-> Little!signed(b)] ELSE [ok |-> 0, value |-> 0]
  BY <1>2, <1>4 DEF Little!dbf_record_int32, Little!Success, Little!Failed, Little!shp_le32_to_int32
<1>7. int64 = IF size = 8 THEN [ok |-> 1, value |-> Little!signed(b)] ELSE [ok |-> 0, value |-> 0]
  BY <1>2, <1>4 DEF Little!dbf_record_int64, Little!Success, Little!Failed, Little!shp_le64_to_int64
<1>8. Big!dbf_record_double(bytes, f).ok = IF size = 8 THEN 1 ELSE 0
  BY <1>2, <1>4 DEF Big!dbf_record_double, Big!Success, Big!Failed
<1>9. /\ dt.ok = IF size = 8 THEN 1 ELSE 0
      /\ size = 8 => /\ dt.value.jdn = Little!signed(SubSeq(b, 1, 4))
                     /\ dt.value.jt = Little!signed(SubSeq(b, 5, 8))
  BY <1>2, <1>4 DEF Little!dbf_record_datetime, Little!Success, Little!Failed, Little!shp_le32_to_int32
<1>10. ASSUME Len(bytes) = size
       PROVE  b = bytes /\ IsSigned(Little!signed(b))
  <2>1. a = 0
    BY <1>1, <1>10 DEF a
  <2>2. b = SubSeq(bytes, 1, Len(bytes))
    BY <1>10, <2>1 DEF b
  <2>3. b = bytes
    BY <1>1, <2>2
  <2>. QED
    BY <2>3, WrittenSigned
<1>11. ASSUME size = 8
       PROVE  /\ IsValue(Big!dbf_record_int32(bytes, first4), dt.value.jdn)
              /\ IsValue(Big!dbf_record_int32(bytes, last4), dt.value.jt)
  <2>1. Len(bytes) = 8 /\ a = 0 /\ 0 \in Nat /\ 4 \in Nat
    BY <1>1, <1>2, <1>3, <1>11
  <2>2. b = bytes
    BY <1>10, <1>11, <2>1
  <2>3. first4 = Field(0, 4) /\ last4 = Field(4, 4)
    BY <1>2, <1>5, <2>1
  <2>4. /\ Big!dbf_record_int32(bytes, Field(0, 4)) = [ok |-> 1, value |-> Little!signed(SubSeq(bytes, 0 + 1, 0 + 4))]
        /\ Big!dbf_record_int32(bytes, Field(4, 4)) = [ok |-> 1, value |-> Little!signed(SubSeq(bytes, 4 + 1, 4 + 4))]
    <3>1. 0 + 4 <= Len(bytes) /\ 4 + 4 <= Len(bytes)
      BY <2>1
    <3>. QED
      BY <1>1, <2>1, <3>1, SameInt32
  <2>5. 0 + 1 = 1 /\ 0 + 4 = 4 /\ 4 + 1 = 5 /\ 4 + 4 = 8
    OBVIOUS
  <2>. QED
    BY <1>9, <1>11, <2>2, <2>3, <2>4, <2>5 DEF IsValue
<1>12. ASSUME size = 8 PROVE Len(bytes) = size
  BY <1>1, <1>3, <1>12
<1>13. size = 8 => IsSigned(int64.value)
  BY <1>7, <1>10, <1>12
<1>14. Len(bytes) = 4 /\ int32.ok = 1 => IsSigned(int32.value)
  <2>1. SUFFICES ASSUME Len(bytes) = 4, int32.ok = 1 PROVE IsSigned(int32.value)
    OBVIOUS
  <2>2. size = 4
    BY <1>6, <2>1
  <2>. QED
    BY <1>6, <1>10, <2>1, <2>2
<1>. QED
  BY <1>6, <1>7, <1>8, <1>9, <1>11, <1>13, <1>14

-----------------------------------------------------------------------------
(* The inductive invariant: the record is of bytes, the days have their    *)
(* numbers, and the number is that of the bytes.                           *)
RecordInv == record \in Seq(Byte)

ValuesInv == RecordInv /\ DaysInv /\ StoreInv

(* Before anything is written, a record is its deletion flag.              *)
LEMMA RecordInit ==
  ASSUME NoText
  PROVE  RecordInv
BY DEF NoText, RecordInv, Byte, Space

(* A text more keeps a record one of bytes.                                *)
LEMMA RecordNext ==
  ASSUME RecordInv, NEW piece \in Pieces, WriteText(piece)
  PROVE  RecordInv'
<1>1. piece \in Seq(Byte)
  BY MCDbfFieldsAssumption DEF Byte
<1>2. record \o piece \in Seq(Byte)
  BY <1>1, ConcatProperties DEF RecordInv
<1>. QED
  BY <1>2 DEF WriteText, RecordInv

(* The three parts hold at first.                                          *)
LEMMA ValuesInvInit ==
  ASSUME ValuesInit
  PROVE  ValuesInv
BY RecordInit, DaysInit, StoreInit DEF ValuesInit, ValuesInv

(* What a step leaves alone it leaves as it is.                            *)
LEMMA ValuesInvNext ==
  ASSUME ValuesInv, [ValuesNext]_<<cvars, rvars, bvars>>
  PROVE  ValuesInv'
<1>1. UNCHANGED cvars => DaysInv'
  BY DEF ValuesInv, DaysInv, cvars
<1>2. UNCHANGED rvars => RecordInv'
  BY DEF ValuesInv, RecordInv, rvars
<1>3. UNCHANGED bvars => StoreInv'
  BY DEF ValuesInv, StoreInv, bvars
<1>4. CASE Count
  BY <1>2, <1>3, <1>4, DaysNext DEF Count, ValuesInv
<1>5. CASE Compose
  BY <1>1, <1>3, <1>5, RecordNext DEF Compose, NoDays, ValuesInv
<1>6. CASE Store
  BY <1>1, <1>2, <1>6, StoreNext DEF Store, NoDays, ValuesInv
<1>7. CASE UNCHANGED <<cvars, rvars, bvars>>
  BY <1>1, <1>2, <1>3, <1>7 DEF ValuesInv
<1>. QED
  BY <1>4, <1>5, <1>6, <1>7 DEF ValuesNext

-----------------------------------------------------------------------------
(* The invariant holds throughout.                                         *)
THEOREM ValuesInvariant == ValuesSpec => []ValuesInv
<1>1. ValuesInit => ValuesInv
  BY ValuesInvInit
<1>2. ValuesInv /\ [ValuesNext]_<<cvars, rvars, bvars>> => ValuesInv'
  BY ValuesInvNext
<1>. QED
  BY <1>1, <1>2, PTL DEF ValuesSpec

(* A field that dbf_record_is_null calls null has no value: the            *)
(* conversions of numbers and dates fail on it, its text is the empty      *)
(* string, and it is neither true nor false.                               *)
THEOREM NullsHaveNoValue == ValuesSpec => []NullHasNoValue
<1>1. ValuesInv => NullHasNoValue
  BY NullCase DEF ValuesInv, RecordInv
<1>. QED
  BY <1>1, ValuesInvariant, PTL

(* The six conversions of a number field take the same whole numbers.  The *)
(* integer ones give their value or the nearest that the type has, the     *)
(* floating-point ones their value as far as they hold every whole number. *)
THEOREM NumbersAreTheSame == ValuesSpec => []NumbersAgree
<1>1. ValuesInv => NumbersAgree
  BY NumbersCase DEF ValuesInv, RecordInv
<1>. QED
  BY <1>1, ValuesInvariant, PTL

(* A number that is written behind spaces is read back, up to the length   *)
(* that buf has room for.                                                  *)
THEOREM NumbersReadBack == ValuesSpec => []NumberReadsBack
<1>1. ValuesInv => NumberReadsBack
  BY NumberCase DEF ValuesInv, RecordInv
<1>. QED
  BY <1>1, ValuesInvariant, PTL

(* A string that is padded with spaces is read back, by the loop that cuts *)
(* the spaces and without a byte of what is before or behind the field.    *)
THEOREM StringsReadBack == ValuesSpec => []StringReadsBack
<1>1. ValuesInv => StringReadsBack
  BY StringCase DEF ValuesInv, RecordInv
<1>. QED
  BY <1>1, ValuesInvariant, PTL

(* What was written in one byte order is read back from that order by a    *)
(* machine of either order.                                                *)
THEOREM BytesReadBack == ValuesSpec => []ReadsBack
<1>1. ValuesInv => ReadsBack
  BY ReadsBackCase DEF ValuesInv
<1>. QED
  BY <1>1, ValuesInvariant, PTL

(* A binary field of the width of its type holds the number that was       *)
(* written, and one of another width has no value.                         *)
THEOREM FieldsOfBytesHaveTheirNumbers == ValuesSpec => []BinaryFields
<1>1. ValuesInv => BinaryFields
  BY BinaryCase DEF ValuesInv
<1>. QED
  BY <1>1, ValuesInvariant, PTL

(* The date that dbf_jd_to_tm computes is the day of that number, in both  *)
(* calendars, with the last day of some months as the 0th of the next.     *)
THEOREM DaysAreTheSame == ValuesSpec => []JulianDateIsSameDay
<1>1. ValuesInv => JulianDateIsSameDay
  BY JulianDateCase DEF ValuesInv
<1>. QED
  BY <1>1, ValuesInvariant, PTL

(* The days of the week and of the year that are computed are the counted  *)
(* ones, from 1583 on.                                                     *)
THEOREM WeekAndYearDays == ValuesSpec => []WeekAndYearDay
<1>1. ValuesInv => WeekAndYearDay
  BY WeekAndYearCase DEF ValuesInv
<1>. QED
  BY <1>1, ValuesInvariant, PTL

(* dbf_yyyymmdd_to_tm accepts the dates of the calendar, but for the 31st  *)
(* of July, and no other text.                                             *)
THEOREM DatesAreAccepted == ValuesSpec => []AcceptsDates
<1>1. ValuesInv => AcceptsDates
  BY AcceptsCase DEF ValuesInv
<1>. QED
  BY <1>1, ValuesInvariant, PTL

(* The time of day has its hour and, minutes and seconds together, loses   *)
(* nothing on whole minutes and at most a second otherwise, whatever the   *)
(* rounding of the divisions.                                              *)
THEOREM TimesAreNear == ValuesSpec => []TimeIsNear
<1>1. ValuesInv => TimeIsNear
  BY TimeCase DEF ValuesInv, DaysInv
<1>. QED
  BY <1>1, ValuesInvariant, PTL
=============================================================================
