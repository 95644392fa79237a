----------------------------- MODULE EthRxProofs -----------------------------
(***************************************************************************)
(* The receive ring, for every size of it and every set of frame lengths:  *)
(* EthReadFrame returns whole frames that the MAC received, each once and  *)
(* in order.                                                               *)
(*                                                                         *)
(* TypeOK says of `out' and of EthFrameRX that they are frames.  As in     *)
(* EthTxProofs, what makes it inductive is that the words between the      *)
(* pointers are a chain of frames, counted back from R_Tail, where the MAC *)
(* adds.  Copying and ReadOut say what the driver relies on although       *)
(* R_Tail has moved since it was read: the first frame of the chain ends   *)
(* before the old tail, and stays as it was copied.                        *)
(*                                                                         *)
(* The refinement of FrameQueue rests on the same chain: Ahead reads       *)
(* frames out of the ring as Queue does, and what it reads is what the     *)
(* chain holds, frame by frame from the tail (ChainInduction).             *)
(***************************************************************************)
EXTENDS EthRx, WellFoundedInduction, TLAPS

\* A place k words on, or back, in the ring.
On(p, k) == (p + k) % Ring
Back(p, k) == (p - k) % Ring
Places == 0..(Ring - 1)

\* What a word of the ring may hold.
Cells == (Ids \cup {"len", "empty"}) \X Nat

\* Words of the ring that a frame takes: length and data.
Needed(len) == Words(len) + 1

\* Memory m holds the frame at p.
Holds(m, p, id, len) ==
    /\ m[p] = <<"len", len>>
    /\ \A j \in 1..Words(len) : m[On(p, j)] = <<id, j>>

\* A frame starts k words before t, and the rest of the chain after it.
Link(t, m, b, k, id, len) ==
    /\ Holds(m, Back(t, k), id, len)
    /\ Needed(len) <= k /\ k - Needed(len) \in b

\* The n words before t are a chain of frames, starting at the distances b.
Chain(t, m, n, b) ==
    /\ 0 \in b /\ n \in b /\ b \subseteq Nat
    /\ \A k \in b : 0 < k /\ k <= n =>
          \E id \in Ids, len \in Lens : Link(t, m, b, k, id, len)

\* The words the driver has before it.
Used == Back(R_Tail, R_Head)

Chained == \E b : Chain(R_Tail, mem, Used, b)

\* The length word of the frame the driver reads.
NextLen == mem[R_Head][2]

\* What EthReadFrame knows while it copies, and when it has copied.
Copying == R_Head # R_Tail /\ Needed(NextLen) <= Back(tail, R_Head)
ReadOut ==
    /\ R_Head # R_Tail /\ src = On(R_Head, Needed(NextLen))
    /\ EthFrameRX = FrameAt(R_Head)

Inv ==
    /\ TypeOK /\ Chained
    /\ pc = "Copy" => Copying
    /\ pc = "Release" => ReadOut

-----------------------------------------------------------------------------
(* Arithmetic of the ring.                                                 *)

\* The ring's size as a number.
LEMMA RingSize == Ring \in Nat /\ Ring > 2
PROOF BY RingAssumption

\* A number less than one turn away.
LEMMA ModOnce ==
    ASSUME NEW x \in Int
    PROVE  /\ 0 <= x /\ x < Ring => x % Ring = x
           /\ x < 0 /\ -Ring <= x => x % Ring = x + Ring
           /\ Ring <= x /\ x < 2 * Ring => x % Ring = x - Ring
PROOF
  <1>1. ASSUME 0 <= x, x < Ring PROVE x % Ring = x  BY <1>1, RingSize, SMT
  <1>2. ASSUME x < 0, -Ring <= x PROVE x % Ring = x + Ring  BY <1>2, RingSize, SMT
  <1>3. ASSUME Ring <= x, x < 2 * Ring PROVE x % Ring = x - Ring  BY <1>3, RingSize, SMT
  <1> QED  BY <1>1, <1>2, <1>3

\* Places forward and back.
LEMMA OnValue ==
    ASSUME NEW p \in Places, NEW k \in Nat, k <= Ring
    PROVE  On(p, k) \in Places /\ On(p, k) = IF p + k < Ring THEN p + k ELSE p + k - Ring
PROOF
  <1>1. p \in Nat /\ p < Ring /\ p + k \in Int  BY RingSize DEF Places
  <1>2. CASE p + k < Ring
    <2>1. (p + k) % Ring = p + k  BY <1>1, <1>2, ModOnce, RingSize
    <2> QED  BY <1>1, <1>2, <2>1, RingSize DEF On, Places
  <1>3. CASE ~(p + k < Ring)
    <2>1. (p + k) % Ring = p + k - Ring  BY <1>1, <1>3, ModOnce, RingSize
    <2> QED  BY <1>1, <1>3, <2>1, RingSize DEF On, Places
  <1> QED  BY <1>2, <1>3

\* The same, backwards.
LEMMA BackValue ==
    ASSUME NEW p \in Places, NEW k \in Nat, k <= Ring
    PROVE  Back(p, k) \in Places /\ Back(p, k) = IF k <= p THEN p - k ELSE p - k + Ring
PROOF
  <1>1. p \in Nat /\ p < Ring /\ p - k \in Int  BY RingSize DEF Places
  <1>2. CASE k <= p
    <2>1. (p - k) % Ring = p - k  BY <1>1, <1>2, ModOnce, RingSize
    <2> QED  BY <1>1, <1>2, <2>1, RingSize DEF Back, Places
  <1>3. CASE ~(k <= p)
    <2>1. (p - k) % Ring = p - k + Ring  BY <1>1, <1>3, ModOnce, RingSize
    <2> QED  BY <1>1, <1>3, <2>1, RingSize DEF Back, Places
  <1> QED  BY <1>2, <1>3

\* Back and on again.
LEMMA OnBack ==
    ASSUME NEW t \in Places, NEW k \in Nat, NEW j \in Nat, j <= k, k <= Ring
    PROVE  On(Back(t, k), j) = Back(t, k - j)
PROOF
  <1>1. t \in Nat /\ t < Ring /\ k - j \in Nat /\ k - j <= Ring /\ j <= Ring /\ Ring \in Nat
    BY RingSize DEF Places
  <1>2. PICK z \in Places : z = Back(t, k) /\ z = IF k <= t THEN t - k ELSE t - k + Ring
    BY BackValue
  <1>3. On(z, j) = IF z + j < Ring THEN z + j ELSE z + j - Ring
    BY <1>1, OnValue
  <1>4. Back(t, k - j) = IF k - j <= t THEN t - (k - j) ELSE t - (k - j) + Ring
    BY <1>1, BackValue
  <1>5. PICK u, v : u = On(z, j) /\ v = Back(t, k - j)  OBVIOUS
  <1>6. u = v  BY <1>1, <1>2, <1>3, <1>4, <1>5, SMT
  <1> QED  BY <1>2, <1>5, <1>6, Zenon

\* On and back past it.
LEMMA BackOn ==
    ASSUME NEW t \in Places, NEW k \in Nat, NEW x \in Nat, k + x <= Ring
    PROVE  Back(On(t, x), k + x) = Back(t, k)
PROOF
  <1>1. t \in Nat /\ t < Ring /\ k + x \in Nat /\ k <= Ring /\ x <= Ring /\ Ring \in Nat
    BY RingSize DEF Places
  <1>2. PICK z \in Places : z = On(t, x) /\ z = IF t + x < Ring THEN t + x ELSE t + x - Ring
    BY <1>1, OnValue
  <1>3. Back(z, k + x) = IF k + x <= z THEN z - (k + x) ELSE z - (k + x) + Ring
    BY <1>1, BackValue
  <1>4. Back(t, k) = IF k <= t THEN t - k ELSE t - k + Ring
    BY <1>1, BackValue
  <1>5. PICK u, v : u = Back(z, k + x) /\ v = Back(t, k)  OBVIOUS
  <1>6. u = v  BY <1>1, <1>2, <1>3, <1>4, <1>5, SMT
  <1> QED  BY <1>2, <1>5, <1>6, Zenon

\* Distances back from a place name the places.
LEMMA BackBack ==
    ASSUME NEW t \in Places, NEW k \in Places
    PROVE  Back(t, k) \in Places /\ Back(t, Back(t, k)) = k
PROOF
  <1>1. t \in Nat /\ t < Ring /\ k \in Nat /\ k < Ring /\ Ring \in Nat
    BY RingSize DEF Places
  <1>2. PICK z \in Places : z = Back(t, k) /\ z = IF k <= t THEN t - k ELSE t - k + Ring
    BY <1>1, BackValue
  <1>3. z \in Nat /\ z <= Ring  BY <1>1 DEF Places
  <1>4. Back(t, z) = IF z <= t THEN t - z ELSE t - z + Ring
    BY <1>3, BackValue
  <1>5. PICK u : u = Back(t, z)  OBVIOUS
  <1>6. u = k  BY <1>1, <1>2, <1>3, <1>4, <1>5, SMT
  <1> QED  BY <1>2, <1>5, <1>6, Zenon

\* Within one turn, different distances are different places.
LEMMA OnDistinct ==
    ASSUME NEW t \in Places, NEW i \in Places, NEW j \in Places, On(t, i) = On(t, j)
    PROVE  i = j
PROOF
  <1>1. t \in Nat /\ t < Ring /\ i \in Nat /\ i < Ring /\ j \in Nat /\ j < Ring /\ Ring \in Nat
    BY RingSize DEF Places
  <1>2. On(t, i) = IF t + i < Ring THEN t + i ELSE t + i - Ring  BY <1>1, OnValue
  <1>3. On(t, j) = IF t + j < Ring THEN t + j ELSE t + j - Ring  BY <1>1, OnValue
  <1>4. (IF t + i < Ring THEN t + i ELSE t + i - Ring) = (IF t + j < Ring THEN t + j ELSE t + j - Ring)
    BY <1>2, <1>3, Zenon
  <1> QED  BY <1>1, <1>4, SMT

\* A place k words back is one the rest of the turn on.
LEMMA BackIsOn ==
    ASSUME NEW t \in Places, NEW k \in 0..Ring
    PROVE  Back(t, k) = On(t, Ring - k)
PROOF
  <1>1. t \in Nat /\ t < Ring /\ k \in Nat /\ k <= Ring /\ Ring \in Nat /\ Ring - k \in Nat /\ Ring - k <= Ring
    BY RingSize DEF Places
  <1>2. Back(t, k) = IF k <= t THEN t - k ELSE t - k + Ring  BY <1>1, BackValue
  <1>3. On(t, Ring - k) = IF t + (Ring - k) < Ring THEN t + (Ring - k) ELSE t + (Ring - k) - Ring
    BY <1>1, OnValue
  <1>4. PICK u, v : u = Back(t, k) /\ v = On(t, Ring - k)  OBVIOUS
  <1>5. u = v  BY <1>1, <1>2, <1>3, <1>4, SMT
  <1> QED  BY <1>4, <1>5, Zenon

\* One word further, as the driver steps.
LEMMA WrapOn ==
    ASSUME NEW t \in Places, NEW k \in Places
    PROVE  Wrap(On(t, k) + 1) = On(t, k + 1)
PROOF
  <1>1. t \in Nat /\ t < Ring /\ k \in Nat /\ k < Ring /\ Ring \in Nat /\ Ring > 2
        /\ k + 1 \in Nat /\ k + 1 <= Ring /\ k <= Ring
    BY RingSize DEF Places
  <1>2. PICK z : z = On(t, k) /\ z = IF t + k < Ring THEN t + k ELSE t + k - Ring  BY <1>1, OnValue
  <1>3. On(t, k + 1) = IF t + (k + 1) < Ring THEN t + (k + 1) ELSE t + (k + 1) - Ring
    BY <1>1, OnValue
  <1>4. PICK v : v = On(t, k + 1)  OBVIOUS
  <1>5. Wrap(z + 1) = v  BY <1>1, <1>2, <1>3, <1>4, SMT DEF Wrap
  <1> QED  BY <1>2, <1>4, <1>5, Zenon

\* Words and room of a frame: data beside the checksum.
LEMMA WordsValue ==
    ASSUME NEW len \in Lens
    PROVE  /\ len \in Nat /\ len > 4 /\ Words(len) \in Nat /\ Words(len) >= 2
           /\ Needed(len) = Words(len) + 1 /\ Needed(len) \in Nat
           /\ len <= 4 * Words(len) /\ 4 * Words(len) <= len + 3
           /\ Copied(len) = Words(len - 4) /\ Copied(len) \in Nat
PROOF
  <1>1. len \in Nat /\ len > 4  BY LensAssumption
  <1>2. (len + 3) \div 4 \in Nat /\ (len + 3) \div 4 >= 2 /\ len <= 4 * ((len + 3) \div 4)
        /\ 4 * ((len + 3) \div 4) <= len + 3
    BY <1>1, SMT
  <1>3. ((len - 4) + 3) \div 4 = ((len + 3) \div 4) - 1
    BY <1>1, SMT
  <1> QED  BY <1>1, <1>2, <1>3 DEF Words, Needed, Copied

-----------------------------------------------------------------------------
(* Chains.                                                                 *)

\* The frame at p in memory m, without its checksum.
FrameIn(m, p) ==
    [len |-> m[p][2] - 4, words |-> [j \in 1..Words(m[p][2] - 4) |-> m[On(p, j)]]]

\* A frame in memory is a frame.
LEMMA HeldFrame ==
    ASSUME NEW m, NEW p, NEW id \in Ids, NEW len \in Lens, Holds(m, p, id, len)
    PROVE  m[p][2] = len /\ FrameIn(m, p) = FrameOf(id, len)
PROOF
  <1>1. m[p][2] = len  BY DEF Holds
  <1>2. Words(len - 4) \in Nat /\ Words(len - 4) <= Words(len) /\ Words(len) \in Nat
    <2>1. Copied(len) = Words(len - 4) /\ Copied(len) \in Nat /\ Words(len) \in Nat  BY WordsValue
    <2>2. Copied(len) = Words(len) - 1  BY DEF Copied
    <2> QED  BY <2>1, <2>2
  <1>3. ASSUME NEW j \in 1..Words(len - 4) PROVE m[On(p, j)] = <<id, j>>
    <2>1. j \in 1..Words(len)  BY <1>2
    <2> QED  BY <2>1, Zenon DEF Holds
  <1>4. FrameIn(m, p) = [len |-> len - 4, words |-> [j \in 1..Words(len - 4) |-> m[On(p, j)]]]
    BY <1>1, Zenon DEF FrameIn
  <1>5. [j \in 1..Words(len - 4) |-> m[On(p, j)]] = [j \in 1..Words(len - 4) |-> <<id, j>>]
    BY <1>3, Zenon
  <1> QED  BY <1>1, <1>4, <1>5, Zenon DEF FrameOf

\* A frame of the chain in m is one in m2 if the two agree on the chain.
LEMMA HoldsKept ==
    ASSUME NEW t \in Places, NEW m, NEW m2, NEW n \in Places,
           \A k \in 1..n : m2[Back(t, k)] = m[Back(t, k)],
           NEW k \in 1..n, NEW id \in Ids, NEW len \in Lens,
           Holds(m, Back(t, k), id, len), Needed(len) <= k
    PROVE  Holds(m2, Back(t, k), id, len)
PROOF
  <1>1. k \in Nat /\ k < Ring /\ n \in Nat /\ k <= n  BY RingSize DEF Places
  <1>2. Words(len) \in Nat /\ Words(len) < k  BY <1>1, WordsValue
  <1>3. m2[Back(t, k)] = m[Back(t, k)]  OBVIOUS
  <1>4. ASSUME NEW j \in 1..Words(len) PROVE m2[On(Back(t, k), j)] = m[On(Back(t, k), j)]
    <2>1. j \in Nat /\ k - j \in 1..n /\ j <= Ring /\ k <= Ring /\ k - j \in Nat /\ j <= k
      BY <1>1, <1>2, RingSize
    <2>2. On(Back(t, k), j) = Back(t, k - j)  BY <1>1, <2>1, OnBack
    <2> QED  BY <2>1, <2>2
  <1> QED  BY <1>3, <1>4, Zenon DEF Holds

\* The chain does not look at the words outside it.
LEMMA ChainKept ==
    ASSUME NEW t \in Places, NEW m, NEW m2, NEW n \in Places, NEW b,
           Chain(t, m, n, b),
           \A k \in 1..n : m2[Back(t, k)] = m[Back(t, k)]
    PROVE  Chain(t, m2, n, b)
PROOF
  <1>1. SUFFICES ASSUME NEW k \in b, 0 < k, k <= n
                 PROVE  \E id \in Ids, len \in Lens : Link(t, m2, b, k, id, len)
    BY Zenon DEF Chain
  <1>2. PICK id \in Ids, len \in Lens : Link(t, m, b, k, id, len)
    BY <1>1, Zenon DEF Chain
  <1>3. k \in 1..n
    <2>1. k \in Nat  BY Zenon DEF Chain
    <2> QED  BY <1>1, <2>1, RingSize DEF Places
  <1>4. Holds(m, Back(t, k), id, len) /\ Needed(len) <= k  BY <1>2, Zenon DEF Link
  <1>5. Holds(m2, Back(t, k), id, len)  BY <1>3, <1>4, HoldsKept
  <1> QED  BY <1>2, <1>5, Zenon DEF Link

\* The driver takes the first frame of the chain.
LEMMA ChainShorter ==
    ASSUME NEW t, NEW m, NEW n \in Nat, NEW b, Chain(t, m, n, b), n > 0
    PROVE  \E id \in Ids, len \in Lens :
              /\ Holds(m, Back(t, n), id, len) /\ Needed(len) <= n
              /\ Chain(t, m, n - Needed(len), b)
PROOF
  <1>1. PICK id \in Ids, len \in Lens : Link(t, m, b, n, id, len)
    <2>1. 0 < n /\ n <= n  OBVIOUS
    <2> QED  BY <2>1, Zenon DEF Chain
  <1>2. PICK x \in Nat : x = Needed(len)  BY WordsValue
  <1>3. x <= n /\ n - x \in b
    BY <1>1, <1>2, Zenon DEF Link
  <1>4. \A k \in b : 0 < k /\ k <= n - x => 0 < k /\ k <= n
    <2>1. b \subseteq Nat  BY Zenon DEF Chain
    <2> QED  BY <2>1
  <1>5. Chain(t, m, n - x, b)
    BY <1>3, <1>4, Zenon DEF Chain
  <1> QED  BY <1>1, <1>2, <1>3, <1>5, Zenon DEF Link

\* The MAC adds a frame behind the last.
LEMMA ChainLonger ==
    ASSUME NEW t \in Places, NEW m, NEW n \in Places, NEW b,
           Chain(t, m, n, b), NEW id \in Ids, NEW len \in Lens, Holds(m, t, id, len),
           n + Needed(len) < Ring
    PROVE  \E b2 : Chain(On(t, Needed(len)), m, n + Needed(len), b2)
PROOF
  <1>1. PICK x \in Nat : x = Needed(len) /\ x > 2  BY WordsValue
  <1> DEFINE b2 == {0} \cup {k + x : k \in b}
             u == On(t, x)
  <1>2. b \subseteq Nat /\ 0 \in b /\ n \in b
    BY Zenon DEF Chain
  <1>3. b2 \subseteq Nat /\ 0 \in b2 /\ n + x \in b2
    BY <1>1, <1>2
  <1>4. ASSUME NEW k \in b PROVE k + x \in b2
    OBVIOUS
  <1>5. t \in Nat /\ n \in Nat /\ t < Ring /\ x < Ring /\ n + x < Ring
    BY <1>1, RingSize DEF Places
  <1>6. ASSUME NEW k \in Nat, k <= n PROVE Back(u, k + x) = Back(t, k)
    <2>1. k + x <= Ring  BY <1>5, <1>6, RingSize
    <2> QED  BY <1>1, <2>1, BackOn DEF u
  <1>7. ASSUME NEW k \in b2, 0 < k, k <= n + x
        PROVE  \E i \in Ids, l \in Lens : Link(u, m, b2, k, i, l)
    <2>1. PICK k0 \in b : k = k0 + x  BY <1>7 DEF b2
    <2>2. k0 \in Nat /\ k0 <= n  BY <1>2, <1>5, <1>7, <2>1
    <2> HIDE DEF b2, u
    <2>3. Back(u, k) = Back(t, k0)  BY <1>6, <2>1, <2>2
    <2>4. CASE k0 = 0
      <3>1. Back(t, 0) = t
        <4>1. 0 \in Nat /\ 0 <= Ring /\ 0 <= t /\ t - 0 = t  BY <1>5, RingSize
        <4> QED  BY <4>1, BackValue, Zenon
      <3>2. Holds(m, Back(u, k), id, len)  BY <2>3, <2>4, <3>1, Zenon
      <3>3. k = x /\ k - x = 0 /\ x <= k  BY <1>1, <2>1, <2>4
      <3> QED  BY <1>1, <1>3, <3>2, <3>3, Zenon DEF Link
    <2>5. CASE k0 # 0
      <3>1. PICK i \in Ids, l \in Lens : Link(t, m, b, k0, i, l)
        <4>1. 0 < k0  BY <2>2, <2>5
        <4> QED  BY <2>2, <4>1, Zenon DEF Chain
      <3>2. PICK y \in Nat : y = Needed(l)  BY WordsValue
      <3>3. y <= k0 /\ k0 - y \in b /\ Holds(m, Back(t, k0), i, l)
        BY <3>1, <3>2, Zenon DEF Link
      <3>4. k - y = (k0 - y) + x /\ y <= k  BY <1>1, <2>1, <2>2, <3>3
      <3>5. k - y \in b2  BY <1>4, <3>3, <3>4
      <3>6. Holds(m, Back(u, k), i, l)  BY <2>3, <3>3, Zenon
      <3> QED  BY <3>2, <3>4, <3>5, <3>6, Zenon DEF Link
    <2> QED  BY <2>4, <2>5
  <1>8. Chain(u, m, n + x, b2)
    <2> HIDE DEF b2, u
    <2> QED  BY <1>3, <1>7, Zenon DEF Chain
  <1> HIDE DEF b2
  <1> QED  BY <1>1, <1>8, Zenon DEF u

-----------------------------------------------------------------------------
(* The driver and the MAC.                                                 *)

\* Wherever the end of the ring cuts the frame, its words follow the head.
LEMMA SourceOn ==
    ASSUME R_Head \in Places, tail \in Places, NEW len \in Lens,
           Needed(len) <= Back(tail, R_Head), NEW i \in 0..(Words(len) - 1)
    PROVE  Source(i, len) = On(R_Head, i + 1)
PROOF
  <1>1. PICK h \in Places, t \in Places : h = R_Head /\ t = tail  OBVIOUS
  <1>2. h \in Nat /\ h < Ring /\ h <= Ring /\ t \in Nat /\ t < Ring /\ Ring \in Nat
    BY RingSize DEF Places
  <1>3. PICK n \in Nat : /\ n = Words(len) /\ len \in Nat /\ len > 4 /\ len <= 4 * n /\ 4 * n <= len + 3
                         /\ Needed(len) = n + 1
    BY WordsValue
  <1>4. PICK z : z = Back(t, h) /\ z = IF h <= t THEN t - h ELSE t - h + Ring
    BY <1>2, BackValue
  <1>5. n + 1 <= z  BY <1>1, <1>3, <1>4
  <1>6. i \in Nat /\ i < n /\ i + 1 \in Nat /\ i + 1 <= Ring
    <2>1. i \in Nat /\ i < n  BY <1>3
    <2> QED  BY <1>2, <1>4, <1>5, <2>1
  <1>7. PICK v : v = On(h, i + 1) /\ v = IF h + (i + 1) < Ring THEN h + (i + 1) ELSE h + (i + 1) - Ring
    BY <1>6, OnValue
  <1>8. PICK r \in Int : r = (IF t > h THEN t - h ELSE Ring - h) - 1
    BY <1>2
  <1>9. SpaceEnd = 4 * r /\ (4 * r) \div 4 = r
    <2>1. SpaceEnd = 4 * r  BY <1>1, <1>8, Zenon DEF SpaceEnd
    <2>2. (4 * r) \div 4 = r  BY SMT
    <2> QED  BY <2>1, <2>2
  <1> DEFINE f == IF h + 1 > Ring - 1 THEN 0 ELSE h + 1
  <1>10. Source(i, len) = IF len <= 4 * r \/ i < r THEN f + i ELSE i - r
    BY <1>1, <1>9, Zenon DEF Source, Wrap
  <1>11. (IF len <= 4 * r \/ i < r THEN f + i ELSE i - r) = v
    BY <1>2, <1>3, <1>4, <1>5, <1>6, <1>7, <1>8, SMT
  <1> QED  BY <1>1, <1>7, <1>10, <1>11, Zenon

-----------------------------------------------------------------------------
(* Every step keeps the invariant.                                         *)

\* The distance between the pointers.
LEMMA UsedValue ==
    ASSUME R_Tail \in Places, R_Head \in Places
    PROVE  Used \in Places /\ Back(R_Tail, Used) = R_Head /\ (Used = 0 <=> R_Head = R_Tail)
PROOF
  <1>1. Used \in Places /\ Back(R_Tail, Used) \in Places
    BY BackBack DEF Used
  <1>2. PICK t \in Places, h \in Places : t = R_Tail /\ h = R_Head  OBVIOUS
  <1>3. t \in Nat /\ t < Ring /\ h \in Nat /\ h < Ring /\ h <= Ring /\ Ring \in Nat
    BY RingSize DEF Places
  <1>4. PICK z \in Places : z = Back(t, h) /\ z = IF h <= t THEN t - h ELSE t - h + Ring
    BY <1>3, BackValue
  <1>5. z \in Nat /\ z < Ring /\ z <= Ring  BY <1>3 DEF Places
  <1>6. Back(t, z) = h
    <2>1. Back(t, Back(t, h)) = h  BY BackBack
    <2>2. z = Back(t, h)  BY <1>4
    <2> QED  BY <2>1, <2>2, Zenon
  <1>7. z = 0 <=> h = t  BY <1>3, <1>4, SMT
  <1> QED  BY <1>1, <1>2, <1>4, <1>6, <1>7, Zenon DEF Used

\* The type invariant in the terms of this module.
LEMMA TypeParts ==
    TypeOK <=>
      /\ R_Head \in Places /\ R_Tail \in Places /\ tail \in Places /\ src \in Places
      /\ \A p \in Places : mem[p] \in Cells
      /\ pc \in {"Poll", "Copy", "Release"}
      /\ EthFrameRX \in Frames \cup {None} /\ out \in Frames \cup {None}
PROOF BY Zenon DEF TypeOK, Places, Cells

\* The ring starts empty.
LEMMA InitInv == Init => Inv
PROOF
  <1> SUFFICES ASSUME Init PROVE Inv
    OBVIOUS
  <1>1. 0 \in Places /\ 0 \in Nat  BY RingSize DEF Places
  <1>2. TypeOK
    <2>1. <<"empty", 0>> \in Cells  BY DEF Cells
    <2>2. \A p \in Places : mem[p] \in Cells  BY <2>1 DEF Init, Places
    <2> QED  BY <1>1, <2>2, TypeParts, Zenon DEF Init
  <1>3. Used = 0
    BY <1>1, UsedValue, Zenon DEF Init
  <1>4. Chain(R_Tail, mem, 0, {0})
    <2>1. \A k \in {0} : ~(0 < k)  OBVIOUS
    <2> QED  BY <2>1 DEF Chain
  <1>5. Chained  BY <1>3, <1>4, Zenon DEF Chained, Init
  <1>6. pc = "Poll"  BY DEF Init
  <1> QED  BY <1>2, <1>5, <1>6 DEF Inv

\* The first frame of the chain, when there is one.
LEMMA FirstFrame ==
    ASSUME TypeOK, NEW b, Chain(R_Tail, mem, Used, b), R_Head # R_Tail
    PROVE  \E id \in Ids, len \in Lens :
              /\ Holds(mem, R_Head, id, len) /\ len = NextLen /\ Needed(len) <= Used
              /\ FrameAt(R_Head) = FrameOf(id, len)
              /\ Chain(R_Tail, mem, Used - Needed(len), b)
PROOF
  <1>1. R_Tail \in Places /\ R_Head \in Places  BY TypeParts, Zenon
  <1>2. Used \in Places /\ Back(R_Tail, Used) = R_Head /\ Used # 0  BY <1>1, UsedValue, Zenon
  <1>3. Used \in Nat /\ Used > 0  BY <1>2, RingSize DEF Places
  <1>4. PICK id \in Ids, len \in Lens :
           /\ Holds(mem, Back(R_Tail, Used), id, len) /\ Needed(len) <= Used
           /\ Chain(R_Tail, mem, Used - Needed(len), b)
    BY <1>3, ChainShorter
  <1>5. Holds(mem, R_Head, id, len)  BY <1>2, <1>4, Zenon
  <1>6. len = NextLen /\ FrameAt(R_Head) = FrameOf(id, len)
    <2>1. FrameAt(R_Head) = FrameIn(mem, R_Head)  BY Zenon DEF FrameAt, FrameIn, On
    <2> QED  BY <1>5, <2>1, HeldFrame, Zenon DEF NextLen
  <1> QED  BY <1>4, <1>5, <1>6, Zenon

\* What the MAC writes, in front of the word it keeps free, is a frame behind
\* the tail, and nothing else.
LEMMA ReceiveWrites ==
    ASSUME TypeOK, MacReceive
    PROVE  \E id \in Ids, len \in Lens :
              /\ Holds(mem', R_Tail, id, len)
              /\ \A k \in 1..Used : mem'[Back(R_Tail, k)] = mem[Back(R_Tail, k)]
              /\ \A p \in Places : mem'[p] \in Cells
              /\ R_Tail' = On(R_Tail, Needed(len)) /\ R_Tail' \in Places
              /\ Used' = Used + Needed(len) /\ Used + Needed(len) < Ring
              /\ UNCHANGED <<R_Head, pc, tail, EthFrameRX, src, out>>
PROOF
  <1>2. R_Tail \in Places /\ R_Head \in Places  BY TypeParts, Zenon
  <1>3. PICK id \in Ids, len \in Lens :
        /\ Words(len) + 1 <= Free
        /\ mem' = [p \in 0..(Ring - 1) |->
                      LET k == (p - R_Tail) % Ring
                      IN  IF k = 0 THEN <<"len", len>>
                          ELSE IF k <= Words(len) THEN <<id, k>> ELSE mem[p]]
        /\ R_Tail' = (R_Tail + Words(len) + 1) % Ring
        /\ UNCHANGED <<R_Head, pc, tail, EthFrameRX, src, out>>
    BY Zenon DEF MacReceive
  <1>4. PICK t \in Places, h \in Places : t = R_Tail /\ h = R_Head  BY <1>2
  <1>5. PICK x \in Nat : x = Words(len) /\ Needed(len) = x + 1 /\ len \in Nat  BY WordsValue
  <1>6. PICK n \in Places : n = Used /\ h = Back(t, n) /\ (n = 0 <=> h = t)
    BY <1>2, <1>4, UsedValue, Zenon
  <1>7. n \in Nat /\ n < Ring /\ t \in Nat /\ t < Ring /\ Ring \in Nat  BY RingSize DEF Places
  <1>8. n + x + 2 <= Ring
    <2>1. h \in Nat /\ h < Ring /\ h <= Ring  BY <1>7 DEF Places
    <2>2. Back(t, h) = IF h <= t THEN t - h ELSE t - h + Ring  BY <2>1, BackValue
    <2>3. n = Back(t, h)  BY <1>4, <1>6, Zenon DEF Used
    <2>4. n = IF h <= t THEN t - h ELSE t - h + Ring  BY <2>2, <2>3, Zenon
    <2>5. Free = (h - t - 1) % Ring  BY <1>4, Zenon DEF Free
    <2>6. x + 1 <= (h - t - 1) % Ring  BY <1>3, <1>5, <2>5, Zenon
    <2>7. h - t - 1 \in Int  BY <2>1, <1>7
    <2>8. (h - t - 1) % Ring = Ring - 1 - n
      <3>1. CASE h <= t
        <4>1. h - t - 1 < 0 /\ -Ring <= h - t - 1  BY <1>7, <2>1, <3>1
        <4>2. (h - t - 1) % Ring = (h - t - 1) + Ring  BY <2>7, <4>1, ModOnce
        <4> QED  BY <1>7, <2>1, <2>4, <3>1, <4>2
      <3>2. CASE ~(h <= t)
        <4>1. 0 <= h - t - 1 /\ h - t - 1 < Ring  BY <1>7, <2>1, <3>2
        <4>2. (h - t - 1) % Ring = h - t - 1  BY <2>7, <4>1, ModOnce
        <4> QED  BY <1>7, <2>1, <2>4, <3>2, <4>2
      <3> QED  BY <3>1, <3>2
    <2> QED  BY <1>7, <2>6, <2>8
  <1> DEFINE Cell(k, p) == IF k = 0 THEN <<"len", len>> ELSE IF k <= x THEN <<id, k>> ELSE mem[p]
  <1>9. \A p \in Places : mem'[p] = Cell(Back(p, t), p)
    BY <1>3, <1>4, <1>5 DEF Back, Places
  <1>10. ASSUME NEW k \in Places PROVE Back(On(t, k), t) = k /\ On(t, k) \in Places
    <2>1. k \in Nat /\ k <= Ring /\ k < Ring /\ t <= Ring  BY <1>7 DEF Places
    <2>2. PICK z \in Places : z = On(t, k) /\ z = IF t + k < Ring THEN t + k ELSE t + k - Ring
      BY <2>1, OnValue
    <2>3. Back(z, t) = IF t <= z THEN z - t ELSE z - t + Ring
      BY <1>7, <2>1, BackValue
    <2>4. PICK u : u = Back(z, t)  OBVIOUS
    <2>5. u = k  BY <1>7, <2>1, <2>2, <2>3, <2>4, SMT
    <2> QED  BY <2>2, <2>4, <2>5, Zenon
  <1>11. \A k \in Places : mem'[On(t, k)] = Cell(k, On(t, k))
    BY <1>9, <1>10, Zenon
  <1>12. On(t, 0) = t
    <2>1. 0 \in Nat /\ 0 <= Ring /\ t + 0 = t /\ t < Ring  BY <1>7
    <2> QED  BY <2>1, OnValue, Zenon
  <1>13. Holds(mem', t, id, len)
    <2>1. 0 \in Places  BY <1>7 DEF Places
    <2>2. mem'[t] = <<"len", len>>  BY <1>11, <1>12, <2>1
    <2>3. ASSUME NEW j \in 1..x PROVE mem'[On(t, j)] = <<id, j>>
      <3>1. j \in Places /\ j # 0 /\ j <= x  BY <1>7, <1>8 DEF Places
      <3> QED  BY <1>11, <3>1
    <2> QED  BY <1>5, <2>2, <2>3, Zenon DEF Holds
  <1>14. ASSUME NEW k \in 1..n PROVE mem'[Back(t, k)] = mem[Back(t, k)]
    <2>1. k \in 0..Ring /\ Ring - k \in Places /\ Ring - k # 0 /\ ~(Ring - k <= x)
      BY <1>7, <1>8 DEF Places
    <2>2. Back(t, k) = On(t, Ring - k)  BY <2>1, BackIsOn
    <2>3. mem'[On(t, Ring - k)] = mem[On(t, Ring - k)]  BY <1>11, <2>1
    <2> QED  BY <2>2, <2>3, Zenon
  <1>15. R_Tail' = On(t, x + 1) /\ R_Tail' \in Places
    <2>1. R_Tail' = (t + x + 1) % Ring  BY <1>3, <1>4, <1>5, Zenon
    <2>2. t + x + 1 = t + (x + 1)  BY <1>7
    <2>3. R_Tail' = On(t, x + 1)  BY <2>1, <2>2, Zenon DEF On
    <2>4. x + 1 \in Nat /\ x + 1 <= Ring  BY <1>7, <1>8
    <2> QED  BY <2>3, <2>4, OnValue
  <1>16. ASSUME NEW p \in Places PROVE mem'[p] \in Cells
    <2>1. Back(p, t) \in Places  BY BackBack
    <2>2. PICK k \in Nat : k = Back(p, t)  BY <2>1, <1>7 DEF Places
    <2>3. mem'[p] = Cell(k, p)  BY <1>9, <2>2, Zenon
    <2>4. <<"len", len>> \in Cells /\ <<id, k>> \in Cells  BY <1>5 DEF Cells
    <2>5. mem[p] \in Cells  BY TypeParts, Zenon
    <2> QED  BY <2>3, <2>4, <2>5, Zenon
  <1> HIDE DEF Cell
  <1>17. Used' = n + (x + 1) /\ n + (x + 1) \in Places
    <2>1. Back(On(t, x + 1), n + (x + 1)) = Back(t, n)
      <3>1. x + 1 \in Nat /\ n + (x + 1) <= Ring  BY <1>7, <1>8
      <3> QED  BY <1>7, <3>1, BackOn
    <2>2. n + (x + 1) \in Places  BY <1>7, <1>8 DEF Places
    <2>3. Back(R_Tail', Back(R_Tail', n + (x + 1))) = n + (x + 1)  BY <1>15, <2>2, BackBack
    <2>4. Used' = Back(R_Tail', R_Head')  BY Zenon DEF Used
    <2> QED  BY <1>3, <1>4, <1>6, <1>15, <2>1, <2>2, <2>3, <2>4, Zenon
  <1>18. n + (x + 1) < Ring  BY <1>7, <1>8
  <1> QED  BY <1>3, <1>4, <1>5, <1>6, <1>13, <1>14, <1>15, <1>16, <1>17, <1>18, Zenon

\* So the frames before it, and the one the driver is reading, stay as they are.
LEMMA ReceiveInv ==
    ASSUME Inv, MacReceive
    PROVE  Inv'
PROOF
  <1>1. TypeOK /\ Chained  BY Zenon DEF Inv
  <1>2. R_Tail \in Places /\ R_Head \in Places /\ Used \in Places /\ Back(R_Tail, Used) = R_Head
        /\ (Used = 0 <=> R_Head = R_Tail)
    BY <1>1, TypeParts, UsedValue, Zenon
  <1>3. PICK id \in Ids, len \in Lens :
           /\ Holds(mem', R_Tail, id, len)
           /\ \A k \in 1..Used : mem'[Back(R_Tail, k)] = mem[Back(R_Tail, k)]
           /\ \A p \in Places : mem'[p] \in Cells
           /\ R_Tail' = On(R_Tail, Needed(len)) /\ R_Tail' \in Places
           /\ Used' = Used + Needed(len) /\ Used + Needed(len) < Ring
           /\ UNCHANGED <<R_Head, pc, tail, EthFrameRX, src, out>>
    BY <1>1, ReceiveWrites, Zenon
  <1>4. TypeOK'
    <2>1. /\ R_Head' \in Places /\ R_Tail' \in Places /\ tail' \in Places /\ src' \in Places
          /\ \A p \in Places : mem'[p] \in Cells
          /\ pc' \in {"Poll", "Copy", "Release"}
          /\ EthFrameRX' \in Frames \cup {None} /\ out' \in Frames \cup {None}
      BY <1>1, <1>3, TypeParts, Zenon
    <2> QED  BY <2>1, Zenon DEF TypeOK, Places, Cells
  <1>5. PICK b : Chain(R_Tail, mem, Used, b)  BY <1>1, Zenon DEF Chained
  <1>6. Chained'
    <2>1. Chain(R_Tail, mem', Used, b)  BY <1>2, <1>3, <1>5, ChainKept, Zenon
    <2>2. PICK b2 : Chain(On(R_Tail, Needed(len)), mem', Used + Needed(len), b2)
      BY <1>2, <1>3, <2>1, ChainLonger, Zenon
    <2>3. Chain(R_Tail', mem', Used', b2)  BY <1>3, <2>2, Zenon
    <2> QED  BY <2>3, Zenon DEF Chained
  <1>7. ASSUME R_Head # R_Tail
        PROVE  R_Head' # R_Tail' /\ NextLen' = NextLen /\ FrameAt(R_Head)' = FrameAt(R_Head)
    <2>1. Used \in Nat /\ Used \in 1..Used /\ Used # 0  BY <1>2, <1>7, RingSize DEF Places
    <2>2. R_Head' # R_Tail'
      <3>1. Used' # 0  BY <1>3, <2>1, WordsValue
      <3>2. PICK w \in Places : w = R_Head'  BY <1>2, <1>3
      <3>3. w \in Nat /\ w <= Ring /\ w <= w /\ w - w = 0  BY RingSize DEF Places
      <3>4. Back(w, w) = 0  BY <3>3, BackValue
      <3> QED  BY <3>1, <3>2, <3>4, Zenon DEF Used
    <2>3. PICK i \in Ids, l \in Lens :
             Holds(mem, R_Head, i, l) /\ Needed(l) <= Used /\ FrameAt(R_Head) = FrameOf(i, l)
             /\ l = NextLen
      BY <1>1, <1>5, <1>7, FirstFrame, Zenon
    <2>4. Holds(mem, Back(R_Tail, Used), i, l)  BY <1>2, <2>3, Zenon
    <2>5. Holds(mem', Back(R_Tail, Used), i, l)  BY <1>2, <1>3, <2>1, <2>3, <2>4, HoldsKept
    <2>6. Holds(mem', R_Head, i, l)  BY <1>2, <2>5, Zenon
    <2>7. mem'[R_Head][2] = l /\ FrameIn(mem', R_Head) = FrameOf(i, l)  BY <2>6, HeldFrame
    <2>8. FrameAt(R_Head)' = FrameIn(mem', R_Head)  BY <1>3, Zenon DEF FrameAt, FrameIn, On
    <2>9. NextLen' = mem'[R_Head][2]  BY <1>3, Zenon DEF NextLen
    <2> QED  BY <2>2, <2>3, <2>7, <2>8, <2>9, Zenon
  <1>8. (Copying => Copying') /\ (ReadOut => ReadOut')
    BY <1>3, <1>7, Zenon DEF Copying, ReadOut
  <1> QED  BY <1>3, <1>4, <1>6, <1>8, Zenon DEF Inv

\* EthReadFrame starts: the frame ends before the tail it reads.
LEMMA StartInv ==
    ASSUME Inv, Start
    PROVE  Inv'
PROOF
  <1>1. TypeOK /\ Chained  BY Zenon DEF Inv
  <1>2. /\ R_Head # R_Tail /\ tail' = R_Tail /\ pc' = "Copy"
        /\ UNCHANGED <<R_Head, R_Tail, mem, EthFrameRX, src, out>>
    BY Zenon DEF Start
  <1>3. TypeOK'
    <2>1. /\ R_Head' \in Places /\ R_Tail' \in Places /\ tail' \in Places /\ src' \in Places
          /\ \A p \in Places : mem'[p] \in Cells
          /\ pc' \in {"Poll", "Copy", "Release"}
          /\ EthFrameRX' \in Frames \cup {None} /\ out' \in Frames \cup {None}
      BY <1>1, <1>2, TypeParts, Zenon
    <2> QED  BY <2>1, Zenon DEF TypeOK, Places, Cells
  <1>4. PICK b : Chain(R_Tail, mem, Used, b)  BY <1>1, Zenon DEF Chained
  <1>5. Chained'  BY <1>1, <1>2, Zenon DEF Chained, Used
  <1>6. PICK id \in Ids, len \in Lens : len = NextLen /\ Needed(len) <= Used
    BY <1>1, <1>2, <1>4, FirstFrame, Zenon
  <1>7. Copying'
    <2>1. Needed(NextLen) <= Back(R_Tail, R_Head)  BY <1>6, Zenon DEF Used
    <2>2. NextLen' = NextLen  BY <1>2, Zenon DEF NextLen
    <2> QED  BY <1>2, <2>1, <2>2, Zenon DEF Copying
  <1> QED  BY <1>2, <1>3, <1>5, <1>7, Zenon DEF Inv

\* The copying: the frame arrives whole, and src is behind it.
LEMMA CopyInv ==
    ASSUME Inv, Copy
    PROVE  Inv'
PROOF
  <1>1. TypeOK /\ Chained /\ Copying  BY Zenon DEF Inv, Copy
  <1>2. R_Tail \in Places /\ R_Head \in Places /\ tail \in Places  BY <1>1, TypeParts, Zenon
  <1>3. PICK b : Chain(R_Tail, mem, Used, b)  BY <1>1, Zenon DEF Chained
  <1>4. R_Head # R_Tail /\ Needed(NextLen) <= Back(tail, R_Head)  BY <1>1, Zenon DEF Copying
  <1>5. PICK id \in Ids, len \in Lens :
           Holds(mem, R_Head, id, len) /\ len = NextLen /\ FrameAt(R_Head) = FrameOf(id, len)
    BY <1>1, <1>3, <1>4, FirstFrame, Zenon
  <1>6. /\ EthFrameRX' = [len |-> len - 4, words |-> [j \in 1..Copied(len) |-> mem[Source(j - 1, len)]]]
        /\ src' = Wrap(Source(Words(len) - 1, len) + 1)
        /\ pc' = "Release" /\ UNCHANGED <<R_Head, R_Tail, mem, tail, out>>
    BY <1>5, Zenon DEF Copy, NextLen
  <1>7. PICK h \in Places : h = R_Head  BY <1>2
  <1>8. PICK n \in Nat : /\ n = Words(len) /\ n >= 2 /\ Needed(len) = n + 1
                         /\ Copied(len) = Words(len - 4) /\ Copied(len) = n - 1
    BY WordsValue DEF Copied
  <1>9. Needed(len) <= Back(tail, R_Head)  BY <1>4, <1>5, Zenon
  <1>10. n + 1 < Ring /\ Ring \in Nat
    <2>1. Back(tail, R_Head) \in Places  BY <1>2, BackBack
    <2> QED  BY <1>8, <1>9, <2>1, RingSize DEF Places
  <1>11. \A i \in 0..(n - 1) : Source(i, len) = On(h, i + 1)
    BY <1>2, <1>7, <1>8, <1>9, SourceOn, Zenon
  <1>12. EthFrameRX' = FrameOf(id, len)
    <2>1. ASSUME NEW j \in 1..Copied(len) PROVE mem[Source(j - 1, len)] = <<id, j>>
      <3>1. j - 1 \in 0..(n - 1) /\ (j - 1) + 1 = j /\ j \in 1..n  BY <1>8
      <3>2. Source(j - 1, len) = On(h, j)  BY <1>11, <3>1
      <3>3. mem[On(h, j)] = <<id, j>>  BY <1>5, <1>7, <1>8, <3>1, Zenon DEF Holds
      <3> QED  BY <3>2, <3>3, Zenon
    <2>2. [j \in 1..Copied(len) |-> mem[Source(j - 1, len)]] = [j \in 1..Words(len - 4) |-> <<id, j>>]
      BY <1>8, <2>1, Zenon
    <2> QED  BY <1>6, <2>2, Zenon DEF FrameOf
  <1>13. EthFrameRX' \in Frames  BY <1>12 DEF Frames
  <1>14. src' = On(h, Needed(len)) /\ src' \in Places
    <2>1. n - 1 \in 0..(n - 1) /\ (n - 1) + 1 = n /\ n \in Places /\ n + 1 \in Nat /\ n + 1 <= Ring
      BY <1>8, <1>10 DEF Places
    <2>2. Source(n - 1, len) = On(h, n)  BY <1>11, <2>1
    <2>3. Wrap(On(h, n) + 1) = On(h, n + 1)  BY <2>1, WrapOn
    <2>4. On(h, n + 1) \in Places  BY <2>1, OnValue
    <2>5. src' = On(h, n + 1)  BY <1>6, <1>8, <2>2, <2>3, Zenon
    <2> QED  BY <1>8, <2>4, <2>5, Zenon
  <1>15. TypeOK'
    <2>1. /\ R_Head' \in Places /\ R_Tail' \in Places /\ tail' \in Places /\ src' \in Places
          /\ \A p \in Places : mem'[p] \in Cells
          /\ pc' \in {"Poll", "Copy", "Release"}
          /\ EthFrameRX' \in Frames \cup {None} /\ out' \in Frames \cup {None}
      BY <1>1, <1>6, <1>13, <1>14, TypeParts, Zenon
    <2> QED  BY <2>1, Zenon DEF TypeOK, Places, Cells
  <1>16. Chained'  BY <1>1, <1>6, Zenon DEF Chained, Used
  <1>17. ReadOut'
    <2>1. NextLen' = len  BY <1>5, <1>6, Zenon DEF NextLen
    <2>2. FrameAt(R_Head)' = FrameAt(R_Head)  BY <1>6, Zenon DEF FrameAt
    <2> QED  BY <1>4, <1>5, <1>6, <1>7, <1>12, <1>14, <2>1, <2>2, Zenon DEF ReadOut
  <1> QED  BY <1>6, <1>15, <1>16, <1>17, Zenon DEF Inv

\* The words go back to the MAC: the chain loses its first frame.
LEMMA ReleaseInv ==
    ASSUME Inv, Release
    PROVE  Inv'
PROOF
  <1>1. TypeOK /\ Chained /\ ReadOut  BY Zenon DEF Inv, Release
  <1>2. R_Tail \in Places /\ R_Head \in Places  BY <1>1, TypeParts, Zenon
  <1>3. /\ R_Head' = src /\ out' = EthFrameRX
        /\ pc' = "Poll" /\ tail' = 0 /\ EthFrameRX' = None /\ src' = 0
        /\ UNCHANGED <<R_Tail, mem>>
    BY Zenon DEF Release
  <1>4. R_Head # R_Tail /\ src = On(R_Head, Needed(NextLen))
    BY <1>1, Zenon DEF ReadOut
  <1>5. PICK b : Chain(R_Tail, mem, Used, b)  BY <1>1, Zenon DEF Chained
  <1>6. PICK id \in Ids, len \in Lens :
           len = NextLen /\ Needed(len) <= Used /\ Chain(R_Tail, mem, Used - Needed(len), b)
    BY <1>1, <1>4, <1>5, FirstFrame, Zenon
  <1>7. PICK t \in Places, n \in Places, x \in Nat :
           t = R_Tail /\ n = Used /\ R_Head = Back(t, n) /\ x = Needed(len) /\ x <= n
    BY <1>2, <1>6, UsedValue, WordsValue
  <1>8. n \in Nat /\ n <= Ring /\ n - x \in Places  BY <1>7, RingSize DEF Places
  <1>9. R_Head' = Back(t, n - x)
    <2>1. R_Head' = On(Back(t, n), x)  BY <1>3, <1>4, <1>6, <1>7, Zenon
    <2>2. On(Back(t, n), x) = Back(t, n - x)  BY <1>7, <1>8, OnBack
    <2> QED  BY <2>1, <2>2
  <1>10. R_Head' \in Places /\ Used' = n - x
    <2>1. Back(t, n - x) \in Places /\ Back(t, Back(t, n - x)) = n - x  BY <1>8, BackBack
    <2> QED  BY <1>3, <1>7, <1>9, <2>1, Zenon DEF Used
  <1>11. TypeOK'
    <2>1. 0 \in Places  BY RingSize DEF Places
    <2>2. /\ R_Head' \in Places /\ R_Tail' \in Places /\ tail' \in Places /\ src' \in Places
          /\ \A p \in Places : mem'[p] \in Cells
          /\ pc' \in {"Poll", "Copy", "Release"}
          /\ EthFrameRX' \in Frames \cup {None} /\ out' \in Frames \cup {None}
      BY <1>1, <1>3, <1>4, <1>10, <2>1, TypeParts, Zenon
    <2> QED  BY <2>2, Zenon DEF TypeOK, Places, Cells
  <1>12. Chained'
    <2>1. Chain(R_Tail', mem', Used', b)  BY <1>3, <1>6, <1>7, <1>10, Zenon
    <2> QED  BY <2>1, Zenon DEF Chained
  <1> QED  BY <1>3, <1>11, <1>12, Zenon DEF Inv

\* A step that changes nothing keeps it.
LEMMA StutterInv ==
    ASSUME Inv, UNCHANGED vars
    PROVE  Inv'
PROOF
  <1>1. UNCHANGED <<R_Head, R_Tail, mem, pc, tail, EthFrameRX, src, out>>
    BY DEF vars
  <1>2. TypeOK'  BY <1>1, Zenon DEF Inv, TypeOK
  <1>3. Chained'  BY <1>1, Zenon DEF Inv, Chained, Used
  <1>4. (Copying => Copying') /\ (ReadOut => ReadOut')
    BY <1>1, Zenon DEF Copying, ReadOut, NextLen, FrameAt
  <1> QED  BY <1>1, <1>2, <1>3, <1>4, Zenon DEF Inv

\* The words between the pointers stay a chain of whole frames, whatever
\* arrives while EthReadFrame copies (ethernetif.c:201-265).
THEOREM InvHolds == Spec => []Inv
PROOF
  <1>1. Init => Inv  BY InitInv
  <1>2. Inv /\ [Next]_vars => Inv'
    <2> SUFFICES ASSUME Inv, [Next]_vars PROVE Inv'
      OBVIOUS
    <2>1. CASE MacReceive  BY <2>1, ReceiveInv
    <2>2. CASE Start  BY <2>2, StartInv
    <2>3. CASE Copy  BY <2>3, CopyInv
    <2>4. CASE Release  BY <2>4, ReleaseInv
    <2>5. CASE UNCHANGED vars  BY <2>5, StutterInv
    <2> QED  BY <2>1, <2>2, <2>3, <2>4, <2>5, Zenon DEF Next
  <1> QED  BY <1>1, <1>2, PTL DEF Spec

\* EthReadFrame returns nothing but whole frames that the MAC received, for
\* every size of the ring and all lengths of frames: none is torn by the end
\* of the ring or by a later one, although the last word of each is never
\* copied (ethernetif.c:201-265, 453-465).
THEOREM OnlyWholeFramesRead == Spec => []TypeOK
PROOF
  <1>1. Inv => TypeOK  BY Zenon DEF Inv
  <1> QED  BY <1>1, InvHolds, PTL

-----------------------------------------------------------------------------
(* The queue in the ring.                                                  *)

\* A set of numbers has a least one: induction, for the provers at hand.
LEMMA Least ==
    ASSUME NEW T, T \subseteq Nat, T # {}
    PROVE  \E x \in T : \A y \in T : x <= y
PROOF
  <1>1. PICK R : R = {ss \in Nat \X Nat : ss[1] < ss[2]}  OBVIOUS
  <1>2. IsWellFoundedOn(R, Nat)  BY <1>1, NatLessThanWellFounded, Zenon DEF OpToRel
  <1>3. PICK x \in T : \A y \in T : ~(<<y, x>> \in R)  BY <1>2, WFMin, Zenon
  <1>4. ASSUME NEW y \in T PROVE x <= y
    <2>1. x \in Nat /\ y \in Nat  OBVIOUS
    <2>2. <<y, x>> \notin R  BY <1>3
    <2>3. y < x => <<y, x>> \in R  BY <1>1, <2>1
    <2> QED  BY <2>1, <2>2, <2>3
  <1> QED  BY <1>4

\* The frames in the k words before t: the one that starts there, and then what
\* q says of the rest.
Reads(t, m, q, k) ==
    IF k = 0 THEN <<>>
    ELSE LET p == Back(t, k)
             n == Needed(m[p][2])
         IN  <<FrameIn(m, p)>> \o (IF n <= k THEN q[k - n] ELSE <<>>)
Ahead(t, m) == CHOOSE q : q = [k \in Places |-> Reads(t, m, q, k)]

\* The queue, as a value of the tail, the memory and the distance.
LEMMA QueueIs == Queue = Ahead(R_Tail, mem)[Used]
PROOF BY Zenon DEF Queue, Ahead, Reads, FrameIn, FrameAt, Needed, Used, Back, On, Places

\* The same of the next state.
LEMMA QueueNext == Queue' = Ahead(R_Tail', mem')[Used']
PROOF BY Zenon DEF Queue, Ahead, Reads, FrameIn, FrameAt, Needed, Used, Back, On, Places

\* Every word of the ring holds what a word may.
Stored(m) == \A p \in Places : m[p] \in Cells

\* What is read depends on shorter distances only.
LEMMA ReadsBelow ==
    ASSUME NEW t \in Places, NEW m, Stored(m), NEW k \in Places, NEW f, NEW g,
           \A i \in 0..(k - 1) : f[i] = g[i]
    PROVE  Reads(t, m, f, k) = Reads(t, m, g, k)
PROOF
  <1>1. CASE k = 0  BY <1>1, Zenon DEF Reads
  <1>2. CASE k # 0
    <2>1. PICK p \in Places : p = Back(t, k)  BY BackBack
    <2>2. m[p][2] \in Nat  BY <2>1 DEF Stored, Cells
    <2>3. PICK n \in Nat : n = Needed(m[p][2]) /\ n > 0
      <3>1. (m[p][2] + 3) \div 4 \in Nat  BY <2>2
      <3> QED  BY <3>1 DEF Needed, Words
    <2>5. k \in Nat  BY RingSize DEF Places
    <2>6. n <= k => f[k - n] = g[k - n]
      <3>1. n <= k => k - n \in 0..(k - 1)  BY <2>3, <2>5
      <3> QED  BY <3>1
    <2>7. ASSUME NEW q PROVE Reads(t, m, q, k) = <<FrameIn(m, p)>> \o (IF n <= k THEN q[k - n] ELSE <<>>)
      BY <1>2, <2>1, <2>3, Zenon DEF Reads
    <2> QED  BY <2>6, <2>7, Zenon
  <1> QED  BY <1>1, <1>2

\* So there is a function that satisfies the recursion, ...
LEMMA AheadExists ==
    ASSUME NEW t \in Places, NEW m, Stored(m)
    PROVE  \E q : q = [k \in Places |-> Reads(t, m, q, k)]
PROOF
  <1> DEFINE Sol(n, f) == f = [k \in 0..(n - 1) |-> Reads(t, m, f, k)]
             T == {n \in 0..Ring : ~\E f : Sol(n, f)}
  <1>1. CASE T = {}
    <2>1. Ring \in 0..Ring  BY RingSize
    <2>2. \E f : Sol(Ring, f)  BY <1>1, <2>1
    <2> QED  BY <2>2, Zenon DEF Places
  <1>2. CASE T # {}
    <2>1. T \subseteq Nat  BY RingSize
    <2>2. PICK n \in T : \A y \in T : n <= y  BY <1>2, <2>1, Least, Zenon
    <2>3. n \in Nat /\ n <= Ring /\ ~\E f : Sol(n, f)  BY RingSize
    <2> HIDE DEF Sol, T
    <2>4. n # 0
      <3>1. SUFFICES ASSUME n = 0 PROVE FALSE  OBVIOUS
      <3>2. PICK f : f = [k \in {} |-> 0]  OBVIOUS
      <3>3. 0..(n - 1) = {}  BY <3>1
      <3>4. Sol(n, f)  BY <3>2, <3>3 DEF Sol
      <3> QED  BY <2>3, <3>4
    <2>5. n - 1 \in 0..Ring /\ ~(n <= n - 1)  BY <2>3, <2>4, RingSize
    <2>6. PICK f : Sol(n - 1, f)  BY <2>2, <2>5, Zenon DEF T
    <2>7. PICK g : g = [k \in 0..(n - 1) |-> Reads(t, m, f, k)]  OBVIOUS
    <2>8. ASSUME NEW k \in 0..(n - 1) PROVE g[k] = Reads(t, m, g, k)
      <3>1. k \in Places  BY <2>3, RingSize DEF Places
      <3>2. ASSUME NEW i \in 0..(k - 1) PROVE f[i] = g[i]
        <4>1. i \in 0..((n - 1) - 1) /\ i \in 0..(n - 1)  BY <2>3
        <4>2. f[i] = Reads(t, m, f, i)  BY <2>6, <4>1 DEF Sol
        <4>3. g[i] = Reads(t, m, f, i)  BY <2>7, <4>1
        <4> QED  BY <4>2, <4>3
      <3>3. Reads(t, m, f, k) = Reads(t, m, g, k)  BY <3>1, <3>2, ReadsBelow
      <3>4. g[k] = Reads(t, m, f, k)  BY <2>7
      <3> QED  BY <3>3, <3>4
    <2>9. Sol(n, g)
      <3>1. g = [k \in 0..(n - 1) |-> g[k]]  BY <2>7
      <3> QED  BY <2>8, <3>1, Zenon DEF Sol
    <2> QED  BY <2>3, <2>9
  <1> QED  BY <1>1, <1>2

\* ... and Ahead is one.
LEMMA AheadUnfolds ==
    ASSUME NEW t \in Places, NEW m, Stored(m), NEW k \in Places
    PROVE  Ahead(t, m)[k] = Reads(t, m, Ahead(t, m), k)
PROOF
  <1>1. Ahead(t, m) = [i \in Places |-> Reads(t, m, Ahead(t, m), i)]
    BY AheadExists, Zenon DEF Ahead
  <1>2. PICK q : q = Ahead(t, m)  OBVIOUS
  <1>3. q = [i \in Places |-> Reads(t, m, q, i)]  BY <1>1, <1>2, Zenon
  <1>4. q[k] = Reads(t, m, q, k)  BY <1>3, Zenon
  <1> QED  BY <1>2, <1>4, Zenon

\* Nothing is ahead at the tail.
LEMMA AheadNone ==
    ASSUME NEW t \in Places, NEW m, Stored(m)
    PROVE  Ahead(t, m)[0] = <<>>
PROOF
  <1>1. 0 \in Places  BY RingSize DEF Places
  <1> QED  BY <1>1, AheadUnfolds, Zenon DEF Reads

\* A frame k words before the tail comes first.
LEMMA AheadFirst ==
    ASSUME NEW t \in Places, NEW m, Stored(m), NEW k \in Places, k # 0,
           NEW id \in Ids, NEW len \in Lens, Holds(m, Back(t, k), id, len), Needed(len) <= k
    PROVE  Ahead(t, m)[k] = <<FrameOf(id, len)>> \o Ahead(t, m)[k - Needed(len)]
PROOF
  <1>1. PICK p : p = Back(t, k)  OBVIOUS
  <1>2. m[p][2] = len /\ FrameIn(m, p) = FrameOf(id, len)
    <2>1. Holds(m, p, id, len)  BY <1>1, Zenon
    <2> QED  BY <2>1, HeldFrame
  <1>5. Reads(t, m, Ahead(t, m), k) = <<FrameOf(id, len)>> \o Ahead(t, m)[k - Needed(len)]
    BY <1>1, <1>2, Zenon DEF Reads
  <1> QED  BY <1>5, AheadUnfolds, Zenon

\* What holds at the tail, and of a frame once it holds of the ones behind it,
\* holds of all of a chain.
LEMMA ChainInduction ==
    ASSUME NEW t, NEW m, NEW n \in Nat, NEW b, Chain(t, m, n, b),
           NEW S, 0 \in S,
           \A k \in b, id \in Ids, len \in Lens :
              k # 0 /\ k <= n /\ Link(t, m, b, k, id, len) /\ k - Needed(len) \in S => k \in S
    PROVE  \A k \in b : k <= n => k \in S
PROOF
  <1> DEFINE T == {k \in b : k <= n /\ k \notin S}
  <1>1. b \subseteq Nat  BY Zenon DEF Chain
  <1>2. CASE T = {}  BY <1>2
  <1>3. CASE T # {}
    <2>1. PICK k \in T : \A y \in T : k <= y
      <3>1. T \subseteq Nat  BY <1>1
      <3> QED  BY <1>3, <3>1, Least, Zenon
    <2>2. k \in b /\ k \in Nat /\ k <= n /\ k \notin S /\ k # 0  BY <1>1
    <2>3. PICK id \in Ids, len \in Lens : Link(t, m, b, k, id, len)
      <3>1. 0 < k  BY <2>2
      <3> QED  BY <2>2, <3>1, Zenon DEF Chain
    <2>4. PICK x \in Nat : x = Needed(len) /\ x > 0  BY WordsValue
    <2>5. x <= k /\ k - x \in b  BY <2>3, <2>4, Zenon DEF Link
    <2>6. k - x <= n /\ ~(k <= k - x)  BY <2>2, <2>4, <2>5
    <2>7. k - x \in S  BY <2>1, <2>5, <2>6, Zenon
    <2> QED  BY <2>2, <2>3, <2>4, <2>7, Zenon
  <1> QED  BY <1>2, <1>3

\* Sequences, seen from their first element.
LEMMA FirstAndRest ==
    ASSUME NEW S, NEW f \in S, NEW s \in Seq(S), NEW e \in S
    PROVE  /\ <<f>> \o s \in Seq(S) /\ <<f>> \o s # <<>>
           /\ Head(<<f>> \o s) = f /\ Tail(<<f>> \o s) = s
           /\ Append(<<f>> \o s, e) = <<f>> \o Append(s, e)
           /\ <<f>> \o <<>> = Append(<<>>, f)
PROOF
  <1>1. PICK r : r = <<f>> \o s  OBVIOUS
  <1>2. /\ r \in Seq(S) /\ Len(r) = Len(s) + 1 /\ Len(s) \in Nat
        /\ r[1] = f /\ \A i \in 1..Len(s) : r[i + 1] = s[i]
    BY <1>1
  <1>3. r # <<>> /\ Head(r) = f  BY <1>2
  <1>4. Tail(r) = s  BY <1>2, <1>3
  <1>5. Append(r, e) = <<f>> \o Append(s, e)  BY <1>1
  <1>6. <<f>> \o <<>> = Append(<<>>, f)  OBVIOUS
  <1> QED  BY <1>1, <1>2, <1>3, <1>4, <1>5, <1>6, Zenon

\* What is ahead of the tail are frames.
LEMMA AheadType ==
    ASSUME NEW t \in Places, NEW m, Stored(m), NEW n \in Places, NEW b,
           Chain(t, m, n, b)
    PROVE  \A k \in b : k <= n => Ahead(t, m)[k] \in Seq(Frames)
PROOF
  <1> DEFINE S == {k \in Places : Ahead(t, m)[k] \in Seq(Frames)}
  <1>1. n \in Nat /\ n < Ring  BY RingSize DEF Places
  <1>2. 0 \in S
    <2>1. 0 \in Places /\ <<>> \in Seq(Frames)  BY RingSize DEF Places
    <2> QED  BY <2>1, AheadNone
  <1>3. ASSUME NEW k \in b, NEW id \in Ids, NEW len \in Lens,
               k # 0 /\ k <= n /\ Link(t, m, b, k, id, len) /\ k - Needed(len) \in S
        PROVE  k \in S
    <2>1. k \in Places
      <3>1. k \in Nat  BY Zenon DEF Chain
      <3>2. k # 0 /\ k <= n  BY <1>3, Zenon
      <3> HIDE DEF S
      <3> QED  BY <1>1, <3>1, <3>2, RingSize DEF Places
    <2>2. Holds(m, Back(t, k), id, len) /\ Needed(len) <= k  BY <1>3, Zenon DEF Link
    <2>3. Ahead(t, m)[k] = <<FrameOf(id, len)>> \o Ahead(t, m)[k - Needed(len)]
      BY <1>3, <2>1, <2>2, AheadFirst
    <2>4. FrameOf(id, len) \in Frames  BY DEF Frames
    <2>5. PICK s \in Seq(Frames) : s = Ahead(t, m)[k - Needed(len)]  BY <1>3
    <2>6. <<FrameOf(id, len)>> \o s \in Seq(Frames)  BY <2>4, FirstAndRest, Zenon
    <2> QED  BY <2>1, <2>3, <2>5, <2>6
  <1> HIDE DEF S
  <1>4. \A k \in b : k <= n => k \in S  BY <1>1, <1>2, <1>3, ChainInduction
  <1> QED  BY <1>4 DEF S

\* It does not change with the words outside the chain.
LEMMA AheadKept ==
    ASSUME NEW t \in Places, NEW m, Stored(m), NEW m2, Stored(m2), NEW n \in Places,
           NEW b, Chain(t, m, n, b),
           \A k \in 1..n : m2[Back(t, k)] = m[Back(t, k)]
    PROVE  Ahead(t, m2)[n] = Ahead(t, m)[n]
PROOF
  <1> DEFINE S == {k \in Places : Ahead(t, m2)[k] = Ahead(t, m)[k]}
  <1>1. n \in Nat /\ n < Ring /\ n <= n  BY RingSize DEF Places
  <1>2. 0 \in S
    <2>1. 0 \in Places  BY RingSize DEF Places
    <2>2. Ahead(t, m2)[0] = Ahead(t, m)[0]  BY AheadNone, Zenon
    <2> QED  BY <2>1, <2>2
  <1>3. ASSUME NEW k \in b, NEW id \in Ids, NEW len \in Lens,
               k # 0 /\ k <= n /\ Link(t, m, b, k, id, len) /\ k - Needed(len) \in S
        PROVE  k \in S
    <2>1. k \in Places /\ k \in 1..n
      <3>1. k \in Nat  BY Zenon DEF Chain
      <3>2. k # 0 /\ k <= n  BY <1>3, Zenon
      <3> HIDE DEF S
      <3> QED  BY <1>1, <3>1, <3>2, RingSize DEF Places
    <2>2. Holds(m, Back(t, k), id, len) /\ Needed(len) <= k  BY <1>3, Zenon DEF Link
    <2>3. Holds(m2, Back(t, k), id, len)  BY <2>1, <2>2, HoldsKept, Zenon
    <2>4. Ahead(t, m)[k] = <<FrameOf(id, len)>> \o Ahead(t, m)[k - Needed(len)]
      BY <1>3, <2>1, <2>2, AheadFirst
    <2>5. Ahead(t, m2)[k] = <<FrameOf(id, len)>> \o Ahead(t, m2)[k - Needed(len)]
      BY <1>3, <2>1, <2>2, <2>3, AheadFirst
    <2>6. Ahead(t, m2)[k - Needed(len)] = Ahead(t, m)[k - Needed(len)]  BY <1>3
    <2>7. Ahead(t, m2)[k] = Ahead(t, m)[k]  BY <2>4, <2>5, <2>6, Zenon
    <2> QED  BY <2>1, <2>7
  <1> HIDE DEF S
  <1>4. \A k \in b : k <= n => k \in S  BY <1>1, <1>2, <1>3, ChainInduction
  <1>5. n \in b  BY Zenon DEF Chain
  <1>6. n \in S  BY <1>1, <1>4, <1>5, Zenon
  <1> QED  BY <1>6 DEF S

\* A frame behind the tail comes last once the tail has moved past it.
LEMMA AheadLonger ==
    ASSUME NEW t \in Places, NEW m, Stored(m), NEW n \in Places, NEW b,
           Chain(t, m, n, b), NEW id \in Ids, NEW len \in Lens, Holds(m, t, id, len),
           NEW x \in Nat, x = Needed(len), n + x < Ring
    PROVE  Ahead(On(t, x), m)[n + x] = Append(Ahead(t, m)[n], FrameOf(id, len))
PROOF
  <1>1. PICK f \in Frames : f = FrameOf(id, len)  BY DEF Frames
  <1>2. n \in Nat /\ n < Ring /\ n <= n /\ x < Ring /\ x <= Ring /\ x > 0 /\ Ring \in Nat
    BY WordsValue, RingSize DEF Places
  <1>3. PICK u \in Places : u = On(t, x)  BY <1>2, OnValue
  <1> DEFINE S == {k \in Places : Ahead(u, m)[k + x] = Append(Ahead(t, m)[k], f)}
  <1>4. ASSUME NEW k \in Nat, k <= n PROVE Back(u, k + x) = Back(t, k) /\ k + x \in Places /\ k + x # 0
    <2>1. k + x <= Ring /\ k + x \in Places /\ k + x # 0  BY <1>2, <1>4 DEF Places
    <2>2. Back(On(t, x), k + x) = Back(t, k)  BY <2>1, BackOn
    <2> QED  BY <1>3, <2>1, <2>2, Zenon
  <1>5. 0 \in S
    <2>1. 0 \in Places /\ 0 \in Nat /\ 0 <= n /\ 0 + x = x /\ x - x = 0 /\ x <= x  BY <1>2 DEF Places
    <2>2. Back(u, x) = Back(t, 0) /\ x \in Places /\ x # 0  BY <1>4, <2>1
    <2>3. Back(t, 0) = t
      <3>1. 0 <= Ring /\ 0 <= t /\ t - 0 = t  BY RingSize DEF Places
      <3> QED  BY <2>1, <3>1, BackValue, Zenon
    <2>4. Holds(m, Back(u, x), id, len) /\ Needed(len) <= x  BY <2>1, <2>2, <2>3, Zenon
    <2>5. Ahead(u, m)[x] = <<FrameOf(id, len)>> \o Ahead(u, m)[x - Needed(len)]
      BY <2>2, <2>4, AheadFirst
    <2>6. Ahead(u, m)[0] = <<>> /\ Ahead(t, m)[0] = <<>>  BY AheadNone, Zenon
    <2>7. <<f>> \o <<>> = Append(<<>>, f)
      <3>1. <<>> \in Seq(Frames)  OBVIOUS
      <3> QED  BY <3>1, FirstAndRest, Zenon
    <2>8. Ahead(u, m)[x] = Append(Ahead(t, m)[0], f)  BY <1>1, <2>1, <2>5, <2>6, <2>7, Zenon
    <2> QED  BY <2>1, <2>8
  <1>6. ASSUME NEW k \in b, NEW i \in Ids, NEW l \in Lens,
               k # 0 /\ k <= n /\ Link(t, m, b, k, i, l) /\ k - Needed(l) \in S
        PROVE  k \in S
    <2>1. k \in Nat /\ k \in Places
      <3>1. k \in Nat  BY Zenon DEF Chain
      <3> QED  BY <1>2, <1>6, <3>1 DEF Places
    <2>2. PICK y \in Nat : y = Needed(l) /\ y > 0  BY WordsValue
    <2>3. Holds(m, Back(t, k), i, l) /\ y <= k /\ k - y \in b  BY <1>6, <2>2, Zenon DEF Link
    <2>4. Back(u, k + x) = Back(t, k) /\ k + x \in Places /\ k + x # 0  BY <1>4, <1>6, <2>1
    <2>5. Holds(m, Back(u, k + x), i, l)  BY <2>3, <2>4, Zenon
    <2>6. y <= k + x /\ (k + x) - y = (k - y) + x /\ k - y <= n  BY <1>2, <1>6, <2>1, <2>2, <2>3
    <2>7. PICK g \in Frames : g = FrameOf(i, l)  BY DEF Frames
    <2>8. Ahead(u, m)[k + x] = <<g>> \o Ahead(u, m)[(k - y) + x]
      <3>1. Needed(l) <= k + x  BY <2>2, <2>6
      <3>2. Ahead(u, m)[k + x] = <<FrameOf(i, l)>> \o Ahead(u, m)[(k + x) - Needed(l)]
        BY <2>4, <2>5, <3>1, AheadFirst
      <3> QED  BY <2>2, <2>6, <2>7, <3>2, Zenon
    <2>9. Ahead(t, m)[k] = <<g>> \o Ahead(t, m)[k - y]
      <3>1. Needed(l) <= k /\ k # 0  BY <1>6, <2>2, <2>3
      <3>2. Ahead(t, m)[k] = <<FrameOf(i, l)>> \o Ahead(t, m)[k - Needed(l)]
        BY <2>1, <2>3, <3>1, AheadFirst
      <3> QED  BY <2>2, <2>7, <3>2, Zenon
    <2>10. Ahead(u, m)[(k - y) + x] = Append(Ahead(t, m)[k - y], f)  BY <1>6, <2>2
    <2>11. PICK s \in Seq(Frames) : s = Ahead(t, m)[k - y]  BY <2>3, <2>6, AheadType
    <2>12. Append(<<g>> \o s, f) = <<g>> \o Append(s, f)  BY FirstAndRest
    <2>13. Ahead(u, m)[k + x] = Append(Ahead(t, m)[k], f)
      BY <2>8, <2>9, <2>10, <2>11, <2>12, Zenon
    <2> QED  BY <2>1, <2>13
  <1> HIDE DEF S
  <1>7. \A k \in b : k <= n => k \in S  BY <1>2, <1>5, <1>6, ChainInduction
  <1>8. n \in b  BY Zenon DEF Chain
  <1>9. n \in S  BY <1>2, <1>7, <1>8, Zenon
  <1> QED  BY <1>1, <1>3, <1>9 DEF S

-----------------------------------------------------------------------------
(* Every step is a step of the queue.                                      *)

\* The queue starts empty.
LEMMA InitQueue == Init => FQ!Init
PROOF
  <1> SUFFICES ASSUME Init PROVE FQ!Init
    OBVIOUS
  <1>1. TypeOK  BY InitInv, Zenon DEF Inv
  <1>2. R_Tail \in Places /\ R_Head \in Places /\ Stored(mem)  BY <1>1, TypeParts, Zenon DEF Stored
  <1>3. Used = 0  BY <1>2, UsedValue, Zenon DEF Init
  <1>4. Queue = <<>>  BY <1>2, <1>3, QueueIs, AheadNone, Zenon
  <1>5. out = <<>>  BY DEF Init, None
  <1> QED  BY <1>4, <1>5 DEF FQ!Init

\* Nothing of the queue moves with the pointers and the memory at rest.
LEMMA RestQueue ==
    ASSUME UNCHANGED <<R_Head, R_Tail, mem, out>>
    PROVE  UNCHANGED <<Queue, out>>
PROOF
  <1>1. R_Head' = R_Head /\ R_Tail' = R_Tail /\ mem' = mem /\ out' = out  OBVIOUS
  <1>2. Used' = Used  BY <1>1, Zenon DEF Used
  <1>3. Queue' = Queue  BY <1>1, <1>2, QueueIs, QueueNext, Zenon
  <1> QED  BY <1>1, <1>3

\* A received frame joins the queue, and the frames before it stay whole.
LEMMA ReceiveQueue ==
    ASSUME Inv, MacReceive
    PROVE  FQ!Put
PROOF
  <1>1. TypeOK /\ Chained  BY Zenon DEF Inv
  <1>2. R_Tail \in Places /\ Used \in Places /\ Stored(mem)
    BY <1>1, TypeParts, UsedValue, Zenon DEF Stored
  <1>3. PICK id \in Ids, len \in Lens :
           /\ Holds(mem', R_Tail, id, len)
           /\ \A k \in 1..Used : mem'[Back(R_Tail, k)] = mem[Back(R_Tail, k)]
           /\ \A p \in Places : mem'[p] \in Cells
           /\ R_Tail' = On(R_Tail, Needed(len))
           /\ Used' = Used + Needed(len) /\ Used + Needed(len) < Ring
           /\ out' = out
    BY <1>1, ReceiveWrites
  <1>4. Stored(mem')  BY <1>3, Zenon DEF Stored
  <1>5. PICK b : Chain(R_Tail, mem, Used, b)  BY <1>1, Zenon DEF Chained
  <1>6. Chain(R_Tail, mem', Used, b)  BY <1>2, <1>3, <1>5, ChainKept, Zenon
  <1>7. Ahead(R_Tail, mem')[Used] = Ahead(R_Tail, mem)[Used]
    BY <1>2, <1>3, <1>4, <1>5, AheadKept
  <1>8. PICK x \in Nat : x = Needed(len)  BY WordsValue
  <1>9. Ahead(On(R_Tail, x), mem')[Used + x] = Append(Ahead(R_Tail, mem')[Used], FrameOf(id, len))
    <2>1. Used + x < Ring  BY <1>3, <1>8
    <2> QED  BY <1>2, <1>3, <1>4, <1>6, <1>8, <2>1, AheadLonger
  <1>10. Queue' = Append(Queue, FrameOf(id, len))
    BY <1>3, <1>7, <1>8, <1>9, QueueIs, QueueNext, Zenon
  <1>11. FrameOf(id, len) \in Frames  BY DEF Frames
  <1> QED  BY <1>3, <1>10, <1>11, Zenon DEF FQ!Put

\* What EthReadFrame returns is the first frame of the queue, which leaves it.
LEMMA ReleaseQueue ==
    ASSUME Inv, Release
    PROVE  FQ!Get
PROOF
  <1>1. TypeOK /\ Chained /\ ReadOut  BY Zenon DEF Inv, Release
  <1>2. R_Tail \in Places /\ R_Head \in Places /\ Stored(mem)
    BY <1>1, TypeParts, Zenon DEF Stored
  <1>3. R_Head' = src /\ out' = EthFrameRX /\ UNCHANGED <<R_Tail, mem>>
    BY Zenon DEF Release
  <1>4. /\ R_Head # R_Tail /\ src = On(R_Head, Needed(NextLen))
        /\ EthFrameRX = FrameAt(R_Head)
    BY <1>1, Zenon DEF ReadOut
  <1>5. PICK b : Chain(R_Tail, mem, Used, b)  BY <1>1, Zenon DEF Chained
  <1>6. PICK id \in Ids, len \in Lens :
           /\ Holds(mem, R_Head, id, len) /\ len = NextLen /\ Needed(len) <= Used
           /\ FrameAt(R_Head) = FrameOf(id, len) /\ Chain(R_Tail, mem, Used - Needed(len), b)
    BY <1>1, <1>4, <1>5, FirstFrame, Zenon
  <1>7. PICK t \in Places, n \in Places, x \in Nat :
           t = R_Tail /\ n = Used /\ R_Head = Back(t, n) /\ x = Needed(len) /\ x <= n
    BY <1>2, <1>6, UsedValue, WordsValue
  <1>8. n \in Nat /\ n <= Ring /\ n - x \in Places /\ n - x <= n /\ n # 0
    <2>1. n # 0  BY <1>2, <1>4, <1>7, UsedValue
    <2> QED  BY <1>7, <2>1, RingSize DEF Places
  <1>9. Used' = n - x
    <2>1. R_Head' = On(Back(t, n), x)  BY <1>3, <1>4, <1>6, <1>7, Zenon
    <2>2. On(Back(t, n), x) = Back(t, n - x)  BY <1>7, <1>8, OnBack
    <2>3. Back(t, Back(t, n - x)) = n - x  BY <1>8, BackBack
    <2> QED  BY <1>3, <1>7, <2>1, <2>2, <2>3, Zenon DEF Used
  <1>10. PICK f \in Frames : f = FrameOf(id, len)  BY DEF Frames
  <1>11. PICK s \in Seq(Frames) : s = Ahead(t, mem)[n - x]
    <2>1. n - x \in b /\ Chain(t, mem, n, b)  BY <1>5, <1>6, <1>7, Zenon DEF Chain
    <2> QED  BY <1>2, <1>8, <2>1, AheadType
  <1>12. Queue' = s  BY <1>3, <1>7, <1>9, <1>11, QueueNext, Zenon
  <1>13. Queue = <<f>> \o s
    <2>1. Holds(mem, Back(t, n), id, len) /\ Needed(len) <= n  BY <1>6, <1>7, Zenon
    <2>2. Ahead(t, mem)[n] = <<FrameOf(id, len)>> \o Ahead(t, mem)[n - Needed(len)]
      BY <1>2, <1>8, <2>1, AheadFirst
    <2> QED  BY <1>7, <1>10, <1>11, <2>2, QueueIs, Zenon
  <1>14. <<f>> \o s # <<>> /\ Head(<<f>> \o s) = f /\ Tail(<<f>> \o s) = s
    BY FirstAndRest
  <1>15. out' = f  BY <1>3, <1>4, <1>6, <1>10, Zenon
  <1> QED  BY <1>12, <1>13, <1>14, <1>15, Zenon DEF FQ!Get

\* The MAC and the driver are a queue of frames for every size of the ring and
\* all lengths of frames: each frame the MAC had room for is returned by
\* EthReadFrame whole, once and in order (ethernetif.c:201-265, 453-465).
THEOREM WholeOnceInOrder == Spec => FQ!Safe
PROOF
  <1>1. Init => FQ!Init  BY InitQueue
  <1>2. Inv /\ [Next]_vars => [FQ!Put \/ FQ!Get]_<<Queue, out>>
    <2> SUFFICES ASSUME Inv, [Next]_vars PROVE [FQ!Put \/ FQ!Get]_<<Queue, out>>
      OBVIOUS
    <2>1. CASE MacReceive  BY <2>1, ReceiveQueue
    <2>2. CASE Start
      <3>1. UNCHANGED <<R_Head, R_Tail, mem, out>>  BY <2>2 DEF Start
      <3> QED  BY <3>1, RestQueue
    <2>3. CASE Copy
      <3>1. UNCHANGED <<R_Head, R_Tail, mem, out>>  BY <2>3 DEF Copy
      <3> QED  BY <3>1, RestQueue
    <2>4. CASE Release  BY <2>4, ReleaseQueue
    <2>5. CASE UNCHANGED vars
      <3>1. UNCHANGED <<R_Head, R_Tail, mem, out>>  BY <2>5 DEF vars
      <3> QED  BY <3>1, RestQueue
    <2> QED  BY <2>1, <2>2, <2>3, <2>4, <2>5, Zenon DEF Next
  <1> QED  BY <1>1, <1>2, InvHolds, PTL DEF Spec, FQ!Safe
=============================================================================
