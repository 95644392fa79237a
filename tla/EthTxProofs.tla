----------------------------- MODULE EthTxProofs -----------------------------
(***************************************************************************)
(* The transmit ring, for every size of it and every set of frame lengths: *)
(* the MAC sends whole frames that EthWriteFrame was given, each once and  *)
(* in order, but for the case that a frame takes the ring's last word.     *)
(*                                                                         *)
(* TypeOK says of `out' that it is a frame, but does not say why: the      *)
(* words between the two pointers must be a chain of frames.  Chained says *)
(* that, counting back from X_Tail, where EthWriteFrame adds and the MAC   *)
(* does not reach.  The rest of the invariant keeps the frame that is      *)
(* being written out of the chain, although X_Head may have moved since it *)
(* was read.                                                               *)
(*                                                                         *)
(* The refinement of FrameQueue rests on the same chain: Ahead reads       *)
(* frames out of the ring as Queue does, and what it reads is what the     *)
(* chain holds, frame by frame from the tail (ChainInduction).             *)
(***************************************************************************)
EXTENDS EthTx, WellFoundedInduction, TLAPS

\* A place k words on, or back, in the ring.
On(p, k) == (p + k) % Ring
Back(p, k) == (p - k) % Ring
Places == 0..(Ring - 1)

\* Memory m holds the frame at p.
Holds(m, p, id, len) ==
    /\ m[p] = <<"len", len>>
    /\ \A j \in 1..Words(len) : m[On(p, j)] = <<id, j>>

\* A frame starts k words before t, and the rest of the chain after it.
Link(t, m, b, c, k, id, len) ==
    /\ Holds(m, Back(t, k), id, len)
    /\ Needed(len) <= k /\ k - Needed(len) \in b
    /\ c[k] = c[k - Needed(len)] + 1

\* The n words before t are a chain of frames.  They start at the distances b
\* from t, and c counts the frames from there on.
Chain(t, m, n, b, c, q) ==
    /\ 0 \in b /\ n \in b /\ b \subseteq Nat /\ c \in [b -> Nat] /\ c[0] = 0 /\ c[n] <= q
    /\ \A k \in b : 0 < k /\ k <= n =>
          \E id \in Ids, len \in Lens : Link(t, m, b, c, k, id, len)

\* The words the MAC has before it.
Used == Back(X_Tail, X_Head)

Chained == \E b : \E c : Chain(X_Tail, mem, Used, b, c, owed)

\* What EthWriteFrame knows while it writes.
Given == \E id \in Ids, len \in Lens : frame = FrameOf(id, len)
Room ==
    /\ Used <= Back(X_Tail, head)
    /\ Needed(frame.len) + Back(X_Tail, head) <= Ring
Written ==
    \E id \in Ids, len \in Lens :
        /\ frame = FrameOf(id, len) /\ Holds(mem, X_Tail, id, len)
        /\ dst = On(X_Tail, Needed(len))

Inv ==
    /\ TypeOK /\ Chained
    /\ pc = "Copy" => Given /\ Room
    /\ pc = "Publish" => Written /\ Room

-----------------------------------------------------------------------------
(* Arithmetic of the ring.                                                 *)

\* The ring's size as a number.
LEMMA RingSize == Ring \in Nat /\ Ring > 2
PROOF BY RingAssumption

\* A number less than one turn away.
LEMMA ModOnce ==
    ASSUME NEW x \in Int
    PROVE  /\ 0 <= x /\ x < Ring => x % Ring = x
           /\ x < 0 /\ -Ring <= x => x % Ring = x + Ring
           /\ Ring <= x /\ x < 2 * Ring => x % Ring = x - Ring
PROOF
  <1>1. ASSUME 0 <= x, x < Ring PROVE x % Ring = x  BY <1>1, RingSize, SMT
  <1>2. ASSUME x < 0, -Ring <= x PROVE x % Ring = x + Ring  BY <1>2, RingSize, SMT
  <1>3. ASSUME Ring <= x, x < 2 * Ring PROVE x % Ring = x - Ring  BY <1>3, RingSize, SMT
  <1> QED  BY <1>1, <1>2, <1>3

\* Places forward and back.
LEMMA OnValue ==
    ASSUME NEW p \in Places, NEW k \in Nat, k <= Ring
    PROVE  On(p, k) \in Places /\ On(p, k) = IF p + k < Ring THEN p + k ELSE p + k - Ring
PROOF
  <1>1. p \in Nat /\ p < Ring /\ p + k \in Int  BY RingSize DEF Places
  <1>2. CASE p + k < Ring
    <2>1. (p + k) % Ring = p + k  BY <1>1, <1>2, ModOnce, RingSize
    <2> QED  BY <1>1, <1>2, <2>1, RingSize DEF On, Places
  <1>3. CASE ~(p + k < Ring)
    <2>1. (p + k) % Ring = p + k - Ring  BY <1>1, <1>3, ModOnce, RingSize
    <2> QED  BY <1>1, <1>3, <2>1, RingSize DEF On, Places
  <1> QED  BY <1>2, <1>3

\* The same, backwards.
LEMMA BackValue ==
    ASSUME NEW p \in Places, NEW k \in Nat, k <= Ring
    PROVE  Back(p, k) \in Places /\ Back(p, k) = IF k <= p THEN p - k ELSE p - k + Ring
PROOF
  <1>1. p \in Nat /\ p < Ring /\ p - k \in Int  BY RingSize DEF Places
  <1>2. CASE k <= p
    <2>1. (p - k) % Ring = p - k  BY <1>1, <1>2, ModOnce, RingSize
    <2> QED  BY <1>1, <1>2, <2>1, RingSize DEF Back, Places
  <1>3. CASE ~(k <= p)
    <2>1. (p - k) % Ring = p - k + Ring  BY <1>1, <1>3, ModOnce, RingSize
    <2> QED  BY <1>1, <1>3, <2>1, RingSize DEF Back, Places
  <1> QED  BY <1>2, <1>3

\* Back and on again.
LEMMA OnBack ==
    ASSUME NEW t \in Places, NEW k \in Nat, NEW j \in Nat, j <= k, k <= Ring
    PROVE  On(Back(t, k), j) = Back(t, k - j)
PROOF
  <1>1. t \in Nat /\ t < Ring /\ k - j \in Nat /\ k - j <= Ring /\ j <= Ring /\ Ring \in Nat
    BY RingSize DEF Places
  <1>2. PICK z \in Places : z = Back(t, k) /\ z = IF k <= t THEN t - k ELSE t - k + Ring
    BY BackValue
  <1>3. On(z, j) = IF z + j < Ring THEN z + j ELSE z + j - Ring
    BY <1>1, OnValue
  <1>4. Back(t, k - j) = IF k - j <= t THEN t - (k - j) ELSE t - (k - j) + Ring
    BY <1>1, BackValue
  <1>5. PICK u, v : u = On(z, j) /\ v = Back(t, k - j)  OBVIOUS
  <1>6. u = v  BY <1>1, <1>2, <1>3, <1>4, <1>5, SMT
  <1> QED  BY <1>2, <1>5, <1>6, Zenon

\* On and back past it.
LEMMA BackOn ==
    ASSUME NEW t \in Places, NEW k \in Nat, NEW x \in Nat, k + x <= Ring
    PROVE  Back(On(t, x), k + x) = Back(t, k)
PROOF
  <1>1. t \in Nat /\ t < Ring /\ k + x \in Nat /\ k <= Ring /\ x <= Ring /\ Ring \in Nat
    BY RingSize DEF Places
  <1>2. PICK z \in Places : z = On(t, x) /\ z = IF t + x < Ring THEN t + x ELSE t + x - Ring
    BY <1>1, OnValue
  <1>3. Back(z, k + x) = IF k + x <= z THEN z - (k + x) ELSE z - (k + x) + Ring
    BY <1>1, BackValue
  <1>4. Back(t, k) = IF k <= t THEN t - k ELSE t - k + Ring
    BY <1>1, BackValue
  <1>5. PICK u, v : u = Back(z, k + x) /\ v = Back(t, k)  OBVIOUS
  <1>6. u = v  BY <1>1, <1>2, <1>3, <1>4, <1>5, SMT
  <1> QED  BY <1>2, <1>5, <1>6, Zenon

\* Distances back from a place name the places.
LEMMA BackBack ==
    ASSUME NEW t \in Places, NEW k \in Places
    PROVE  Back(t, k) \in Places /\ Back(t, Back(t, k)) = k
PROOF
  <1>1. t \in Nat /\ t < Ring /\ k \in Nat /\ k < Ring /\ Ring \in Nat
    BY RingSize DEF Places
  <1>2. PICK z \in Places : z = Back(t, k) /\ z = IF k <= t THEN t - k ELSE t - k + Ring
    BY <1>1, BackValue
  <1>3. z \in Nat /\ z <= Ring  BY <1>1 DEF Places
  <1>4. Back(t, z) = IF z <= t THEN t - z ELSE t - z + Ring
    BY <1>3, BackValue
  <1>5. PICK u : u = Back(t, z)  OBVIOUS
  <1>6. u = k  BY <1>1, <1>2, <1>3, <1>4, <1>5, SMT
  <1> QED  BY <1>2, <1>5, <1>6, Zenon

\* Within one turn, different distances are different places.
LEMMA OnDistinct ==
    ASSUME NEW t \in Places, NEW i \in Places, NEW j \in Places, On(t, i) = On(t, j)
    PROVE  i = j
PROOF
  <1>1. t \in Nat /\ t < Ring /\ i \in Nat /\ i < Ring /\ j \in Nat /\ j < Ring /\ Ring \in Nat
    BY RingSize DEF Places
  <1>2. On(t, i) = IF t + i < Ring THEN t + i ELSE t + i - Ring  BY <1>1, OnValue
  <1>3. On(t, j) = IF t + j < Ring THEN t + j ELSE t + j - Ring  BY <1>1, OnValue
  <1>4. (IF t + i < Ring THEN t + i ELSE t + i - Ring) = (IF t + j < Ring THEN t + j ELSE t + j - Ring)
    BY <1>2, <1>3, Zenon
  <1> QED  BY <1>1, <1>4, SMT

\* A place k words back is one the rest of the turn on.
LEMMA BackIsOn ==
    ASSUME NEW t \in Places, NEW k \in 0..Ring
    PROVE  Back(t, k) = On(t, Ring - k)
PROOF
  <1>1. t \in Nat /\ t < Ring /\ k \in Nat /\ k <= Ring /\ Ring \in Nat /\ Ring - k \in Nat /\ Ring - k <= Ring
    BY RingSize DEF Places
  <1>2. Back(t, k) = IF k <= t THEN t - k ELSE t - k + Ring  BY <1>1, BackValue
  <1>3. On(t, Ring - k) = IF t + (Ring - k) < Ring THEN t + (Ring - k) ELSE t + (Ring - k) - Ring
    BY <1>1, OnValue
  <1>4. PICK u, v : u = Back(t, k) /\ v = On(t, Ring - k)  OBVIOUS
  <1>5. u = v  BY <1>1, <1>2, <1>3, <1>4, SMT
  <1> QED  BY <1>4, <1>5, Zenon

\* One word further, as the driver steps.
LEMMA WrapOn ==
    ASSUME NEW t \in Places, NEW k \in Places
    PROVE  Wrap(On(t, k) + 1) = On(t, k + 1)
PROOF
  <1>1. t \in Nat /\ t < Ring /\ k \in Nat /\ k < Ring /\ Ring \in Nat /\ Ring > 2
        /\ k + 1 \in Nat /\ k + 1 <= Ring /\ k <= Ring
    BY RingSize DEF Places
  <1>2. PICK z : z = On(t, k) /\ z = IF t + k < Ring THEN t + k ELSE t + k - Ring  BY <1>1, OnValue
  <1>3. On(t, k + 1) = IF t + (k + 1) < Ring THEN t + (k + 1) ELSE t + (k + 1) - Ring
    BY <1>1, OnValue
  <1>4. PICK v : v = On(t, k + 1)  OBVIOUS
  <1>5. Wrap(z + 1) = v  BY <1>1, <1>2, <1>3, <1>4, SMT DEF Wrap
  <1> QED  BY <1>2, <1>4, <1>5, Zenon

\* Words and room of a frame: some data, and what it takes fits.
LEMMA WordsValue ==
    ASSUME NEW len \in Lens
    PROVE  /\ len \in Nat /\ len > 0 /\ Words(len) \in Nat /\ Words(len) >= 1
           /\ Needed(len) = Words(len) + 2 /\ Needed(len) \in Nat
           /\ len <= 4 * Words(len) /\ 4 * Words(len) <= len + 3
PROOF
  <1>1. len \in Nat /\ len > 0  BY LensAssumption
  <1>2. (len + 3) \div 4 \in Nat /\ (len + 3) \div 4 >= 1 /\ len <= 4 * ((len + 3) \div 4)
        /\ 4 * ((len + 3) \div 4) <= len + 3
    BY <1>1, SMT
  <1> QED  BY <1>1, <1>2 DEF Words, Needed

-----------------------------------------------------------------------------
(* Chains.                                                                 *)

\* A frame in memory is a frame.
LEMMA HeldFrame ==
    ASSUME NEW m, NEW p, NEW id \in Ids, NEW len \in Lens, Holds(m, p, id, len)
    PROVE  /\ m[p][2] = len
           /\ [j \in 1..Words(len) |-> m[On(p, j)]] = FrameOf(id, len).words
PROOF
  <1>1. m[p][2] = len  BY DEF Holds
  <1> QED  BY <1>1 DEF Holds, FrameOf

\* A frame of the chain in m is one in m2 if the two agree on the chain.
LEMMA HoldsKept ==
    ASSUME NEW t \in Places, NEW m, NEW m2, NEW n \in Places,
           \A k \in 1..n : m2[Back(t, k)] = m[Back(t, k)],
           NEW k \in 1..n, NEW id \in Ids, NEW len \in Lens,
           Holds(m, Back(t, k), id, len), Needed(len) <= k
    PROVE  Holds(m2, Back(t, k), id, len)
PROOF
  <1>1. k \in Nat /\ k < Ring /\ n \in Nat /\ k <= n  BY RingSize DEF Places
  <1>2. Words(len) \in Nat /\ Words(len) < k  BY <1>1, WordsValue
  <1>3. m2[Back(t, k)] = m[Back(t, k)]  OBVIOUS
  <1>4. ASSUME NEW j \in 1..Words(len) PROVE m2[On(Back(t, k), j)] = m[On(Back(t, k), j)]
    <2>1. j \in Nat /\ k - j \in 1..n /\ j <= Ring /\ k <= Ring /\ k - j \in Nat /\ j <= k
      BY <1>1, <1>2, RingSize
    <2>2. On(Back(t, k), j) = Back(t, k - j)  BY <1>1, <2>1, OnBack
    <2> QED  BY <2>1, <2>2
  <1> QED  BY <1>3, <1>4, Zenon DEF Holds

\* The chain does not look at the words outside it.
LEMMA ChainKept ==
    ASSUME NEW t \in Places, NEW m, NEW m2, NEW n \in Places, NEW b, NEW c, NEW q,
           Chain(t, m, n, b, c, q),
           \A k \in 1..n : m2[Back(t, k)] = m[Back(t, k)]
    PROVE  Chain(t, m2, n, b, c, q)
PROOF
  <1>1. SUFFICES ASSUME NEW k \in b, 0 < k, k <= n
                 PROVE  \E id \in Ids, len \in Lens : Link(t, m2, b, c, k, id, len)
    BY Zenon DEF Chain
  <1>2. PICK id \in Ids, len \in Lens : Link(t, m, b, c, k, id, len)
    BY <1>1, Zenon DEF Chain
  <1>3. k \in 1..n
    <2>1. k \in Nat  BY Zenon DEF Chain
    <2> QED  BY <1>1, <2>1, RingSize DEF Places
  <1>4. Holds(m, Back(t, k), id, len) /\ Needed(len) <= k  BY <1>2, Zenon DEF Link
  <1>5. Holds(m2, Back(t, k), id, len)  BY <1>3, <1>4, HoldsKept
  <1> QED  BY <1>2, <1>5, Zenon DEF Link

\* The MAC sends the first frame of the chain.
LEMMA ChainShorter ==
    ASSUME NEW t, NEW m, NEW n \in Nat, NEW b, NEW c, NEW q \in Nat, Chain(t, m, n, b, c, q), n > 0
    PROVE  \E id \in Ids, len \in Lens :
              /\ Holds(m, Back(t, n), id, len) /\ Needed(len) <= n
              /\ Chain(t, m, n - Needed(len), b, c, q - 1) /\ q - 1 \in Nat
PROOF
  <1>1. PICK id \in Ids, len \in Lens : Link(t, m, b, c, n, id, len)
    <2>1. 0 < n /\ n <= n  OBVIOUS
    <2> QED  BY <2>1, Zenon DEF Chain
  <1>2. PICK x \in Nat : x = Needed(len)  BY WordsValue
  <1>3. x <= n /\ n - x \in b /\ c[n] = c[n - x] + 1 /\ c[n] <= q
    <2>1. Link(t, m, b, c, n, id, len) /\ c[n] <= q  BY <1>1, Zenon DEF Chain
    <2> QED  BY <1>2, <2>1, Zenon DEF Link
  <1>4. c[n - x] \in Nat /\ c[n] \in Nat
    <2>1. c \in [b -> Nat] /\ n \in b  BY Zenon DEF Chain
    <2> QED  BY <1>3, <2>1
  <1>5. c[n - x] <= q - 1 /\ q - 1 \in Nat
    BY <1>3, <1>4
  <1>6. \A k \in b : 0 < k /\ k <= n - x => 0 < k /\ k <= n
    <2>1. b \subseteq Nat  BY Zenon DEF Chain
    <2> QED  BY <2>1
  <1>7. Chain(t, m, n - x, b, c, q - 1)
    BY <1>3, <1>5, <1>6, Zenon DEF Chain
  <1> QED  BY <1>1, <1>2, <1>3, <1>5, <1>7, Zenon DEF Link

\* EthWriteFrame adds a frame behind the last.
LEMMA ChainLonger ==
    ASSUME NEW t \in Places, NEW m, NEW n \in Places, NEW b, NEW c, NEW q \in Nat,
           Chain(t, m, n, b, c, q), NEW id \in Ids, NEW len \in Lens, Holds(m, t, id, len),
           n + Needed(len) < Ring
    PROVE  \E b2 : \E c2 : Chain(On(t, Needed(len)), m, n + Needed(len), b2, c2, q + 1)
PROOF
  <1>1. PICK x \in Nat : x = Needed(len) /\ x > 2  BY WordsValue
  <1> DEFINE b2 == {0} \cup {k + x : k \in b}
             c2 == [k \in b2 |-> IF k = 0 THEN 0 ELSE c[k - x] + 1]
             u == On(t, x)
  <1>2. b \subseteq Nat /\ 0 \in b /\ n \in b /\ c \in [b -> Nat] /\ c[0] = 0 /\ c[n] <= q
    BY Zenon DEF Chain
  <1>3. b2 \subseteq Nat /\ 0 \in b2 /\ n + x \in b2
    BY <1>1, <1>2
  <1>4. ASSUME NEW k \in b PROVE k + x \in b2 /\ k + x # 0 /\ c2[k + x] = c[k] + 1
    <2>1. k \in Nat /\ k + x \in b2 /\ (k + x) - x = k  BY <1>1, <1>2
    <2>2. k + x # 0  BY <1>1, <2>1
    <2> QED  BY <2>1, <2>2
  <1>5. c2 \in [b2 -> Nat]
    <2>1. ASSUME NEW k \in b2 PROVE c2[k] \in Nat
      <3>1. CASE k = 0  BY <3>1
      <3>2. CASE k # 0
        <4>1. PICK i \in b : k = i + x  BY <3>2
        <4>2. c2[k] = c[i] + 1  BY <1>4, <4>1
        <4>3. c[i] \in Nat  BY <1>2
        <4> QED  BY <4>2, <4>3
      <3> QED  BY <3>1, <3>2
    <2> QED  BY <2>1
  <1>6. c2[n + x] <= q + 1
    <2>1. c2[n + x] = c[n] + 1 /\ c[n] \in Nat  BY <1>2, <1>4
    <2> QED  BY <1>2, <2>1
  <1>7. c2[0] = 0  BY <1>3
  <1>8. t \in Nat /\ n \in Nat /\ t < Ring /\ x < Ring /\ n + x < Ring
    BY <1>1, RingSize DEF Places
  <1> HIDE DEF b2, c2, u
  <1>10. ASSUME NEW k \in Nat, k <= n PROVE Back(u, k + x) = Back(t, k)
    <2>1. k + x <= Ring  BY <1>8, <1>10, RingSize
    <2> QED  BY <1>1, <2>1, BackOn DEF u
  <1>11. ASSUME NEW k \in b2, 0 < k, k <= n + x
         PROVE  \E i \in Ids, l \in Lens : Link(u, m, b2, c2, k, i, l)
    <2>1. PICK k0 \in b : k = k0 + x  BY <1>11 DEF b2
    <2>2. k0 \in Nat /\ k0 <= n  BY <1>2, <1>8, <1>11, <2>1
    <2>3. Back(u, k) = Back(t, k0)  BY <1>10, <2>1, <2>2
    <2>4. c2[k] = c[k0] + 1  BY <1>4, <2>1
    <2>5. CASE k0 = 0
      <3>1. Back(t, 0) = t
        <4>1. 0 \in Nat /\ 0 <= Ring /\ 0 <= t /\ t - 0 = t  BY <1>8, RingSize
        <4> QED  BY <4>1, BackValue, Zenon
      <3>2. Holds(m, Back(u, k), id, len)  BY <2>3, <2>5, <3>1, Zenon
      <3>3. k = x /\ k - x = 0 /\ x <= k  BY <1>1, <2>1, <2>5
      <3>4. c2[k] = c2[0] + 1
        BY <1>2, <1>7, <2>4, <2>5, Zenon
      <3> QED  BY <1>1, <1>3, <3>2, <3>3, <3>4, Zenon DEF Link
    <2>6. CASE k0 # 0
      <3>1. PICK i \in Ids, l \in Lens : Link(t, m, b, c, k0, i, l)
        <4>1. 0 < k0  BY <2>2, <2>6
        <4> QED  BY <2>2, <4>1, Zenon DEF Chain
      <3>2. PICK y \in Nat : y = Needed(l)  BY WordsValue
      <3>3. y <= k0 /\ k0 - y \in b /\ c[k0] = c[k0 - y] + 1 /\ Holds(m, Back(t, k0), i, l)
        BY <3>1, <3>2, Zenon DEF Link
      <3>4. k - y = (k0 - y) + x /\ y <= k  BY <1>1, <2>1, <2>2, <3>3
      <3>5. k - y \in b2 /\ c2[k - y] = c[k0 - y] + 1  BY <1>4, <3>3, <3>4
      <3>6. c2[k] = c2[k - y] + 1  BY <2>4, <3>3, <3>5
      <3>7. Holds(m, Back(u, k), i, l)  BY <2>3, <3>3, Zenon
      <3> QED  BY <3>2, <3>4, <3>5, <3>6, <3>7, Zenon DEF Link
    <2> QED  BY <2>5, <2>6
  <1>12. Chain(u, m, n + x, b2, c2, q + 1)
    BY <1>3, <1>5, <1>6, <1>7, <1>11, Zenon DEF Chain
  <1> QED  BY <1>1, <1>12, Zenon DEF u

-----------------------------------------------------------------------------
(* EthWriteFrame.                                                          *)

\* The room it reckons is what the chain leaves.
LEMMA FitsRoom ==
    ASSUME NEW h \in Places, NEW t \in Places, NEW len \in Lens, Fits(len, h, t)
    PROVE  Needed(len) + Back(t, h) <= Ring
PROOF
  <1>1. h \in Nat /\ h < Ring /\ h <= Ring /\ t \in Nat /\ t < Ring /\ Ring \in Nat
    BY RingSize DEF Places
  <1>2. PICK n \in Nat : n = Words(len) /\ len \in Nat /\ 4 * n <= len + 3 /\ Needed(len) = n + 2
    BY WordsValue
  <1>3. PICK z : z = Back(t, h) /\ z = IF h <= t THEN t - h ELSE t - h + Ring
    BY <1>1, BackValue
  <1>4. len <= 4 * ((IF h > t THEN h - t ELSE Ring - t) + (IF h > t THEN 0 ELSE h)) - 8
    BY Zenon DEF Fits, Space0, Space1
  <1>5. n + 2 + z <= Ring  BY <1>1, <1>2, <1>3, <1>4, SMT
  <1> QED  BY <1>2, <1>3, <1>5

\* Wherever the end of the ring cuts the frame, its words follow the tail.
LEMMA PlaceOn ==
    ASSUME X_Tail \in Places, head \in Places, NEW len \in Lens, frame.len = len,
           Needed(len) + Back(X_Tail, head) <= Ring, NEW i \in 0..(Words(len) - 1)
    PROVE  Place(i) = On(X_Tail, i + 1)
PROOF
  <1>1. PICK t \in Places, h \in Places : t = X_Tail /\ h = head  OBVIOUS
  <1>2. h \in Nat /\ h < Ring /\ h <= Ring /\ t \in Nat /\ t < Ring /\ Ring \in Nat
    BY RingSize DEF Places
  <1>3. PICK n \in Nat : /\ n = Words(len) /\ len \in Nat /\ len > 0 /\ len <= 4 * n /\ 4 * n <= len + 3
                         /\ Needed(len) = n + 2
    BY WordsValue
  <1>4. PICK z : z = Back(t, h) /\ z = IF h <= t THEN t - h ELSE t - h + Ring
    BY <1>2, BackValue
  <1>5. n + 2 + z <= Ring  BY <1>1, <1>3, <1>4
  <1>6. i \in Nat /\ i < n /\ i + 1 \in Nat /\ i + 1 <= Ring
    <2>1. i \in Nat /\ i < n  BY <1>3
    <2> QED  BY <1>2, <1>4, <1>5, <2>1
  <1>7. PICK v : v = On(t, i + 1) /\ v = IF t + (i + 1) < Ring THEN t + (i + 1) ELSE t + (i + 1) - Ring
    BY <1>6, OnValue
  <1> DEFINE r == (IF h > t THEN h - t ELSE Ring - t) - 1
             f == IF t + 1 > Ring - 1 THEN 0 ELSE t + 1
  <1>8. Place(i) = IF len <= 4 * r \/ i < r THEN f + i ELSE i - r
    BY <1>1, Zenon DEF Place, Space0, Wrap
  <1>9. (IF len <= 4 * r \/ i < r THEN f + i ELSE i - r) = v
    BY <1>2, <1>3, <1>4, <1>5, <1>6, <1>7, SMT
  <1> QED  BY <1>1, <1>7, <1>8, <1>9, Zenon

\* What a word of the ring may hold.
Cells == (Ids \cup {"len", "status"}) \X Nat

\* The frame is written behind the tail and nowhere else.
LEMMA CopyWrites ==
    ASSUME X_Tail \in Places, head \in Places, NEW id \in Ids, NEW len \in Lens,
           frame = FrameOf(id, len), Needed(len) + Back(X_Tail, head) <= Ring, Copy
    PROVE  /\ Holds(mem', X_Tail, id, len)
           /\ dst' = On(X_Tail, Needed(len)) /\ dst' \in Places
           /\ \A k \in 1..Back(X_Tail, head) : mem'[Back(X_Tail, k)] = mem[Back(X_Tail, k)]
           /\ (\A p \in Places : mem[p] \in Cells) => \A p \in Places : mem'[p] \in Cells
PROOF
  <1>1. PICK t \in Places : t = X_Tail  OBVIOUS
  <1>2. PICK n \in Nat : n = Words(len) /\ n >= 1 /\ Needed(len) = n + 2 /\ len \in Nat
    BY WordsValue
  <1>3. PICK z \in Places : z = Back(t, head)
    BY <1>1, BackBack
  <1>4. z \in Nat /\ n + 2 + z <= Ring /\ t \in Nat /\ t < Ring /\ Ring \in Nat
    BY <1>1, <1>2, <1>3, RingSize DEF Places
  <1>5. frame.len = len /\ \A j \in 1..n : frame.words[j] = <<id, j>>
    BY <1>2 DEF FrameOf
  <1>6. \A i \in 0..(n - 1) : Place(i) = On(t, i + 1)
    BY <1>1, <1>2, <1>5, PlaceOn
  <1>7. PICK last \in Places : last = On(t, n + 1) /\ last = Wrap(Place(n - 1) + 1)
    <2>1. n - 1 \in 0..(n - 1) /\ (n - 1) + 1 = n /\ n \in Places /\ n + 1 \in Nat /\ n + 1 <= Ring
      BY <1>2, <1>4 DEF Places
    <2>2. Place(n - 1) = On(t, n)  BY <1>6, <2>1
    <2>3. Wrap(On(t, n) + 1) = On(t, n + 1)  BY <2>1, WrapOn
    <2>4. On(t, n + 1) \in Places  BY <2>1, OnValue
    <2> QED  BY <2>2, <2>3, <2>4
  <1>8. dst' = Wrap(last + 1)
    BY <1>2, <1>5, <1>7, Zenon DEF Copy
  <1>9. dst' = On(t, n + 2) /\ dst' \in Places
    <2>1. n + 1 \in Places /\ (n + 1) + 1 = n + 2 /\ n + 2 \in Nat /\ n + 2 <= Ring
      BY <1>2, <1>4 DEF Places
    <2>2. Wrap(On(t, n + 1) + 1) = On(t, n + 2)  BY <2>1, WrapOn
    <2>3. On(t, n + 2) \in Places  BY <2>1, OnValue
    <2> QED  BY <1>7, <1>8, <2>2, <2>3
  <1> DEFINE At(p) == \E i \in 0..(n - 1) : p = Place(i)
             Word(p) == frame.words[1 + CHOOSE i \in 0..(n - 1) : p = Place(i)]
             body == [p \in Places |-> IF At(p) THEN Word(p) ELSE mem[p]]
  <1>10. mem' = [body EXCEPT ![t] = <<"len", len>>, ![last] = Status]
    BY <1>1, <1>2, <1>5, <1>7, Zenon DEF Copy, Places
  <1>11. ASSUME NEW k \in 0..(Ring - 1), NEW j \in 0..(Ring - 1), k # j PROVE On(t, k) # On(t, j)
    BY <1>11, OnDistinct DEF Places
  <1>12. On(t, 0) = t
    <2>1. 0 \in Nat /\ 0 <= Ring /\ t + 0 = t /\ t < Ring  BY <1>4
    <2> QED  BY <2>1, OnValue, Zenon
  <1>13. t # last
    <2>1. 0 \in 0..(Ring - 1) /\ n + 1 \in 0..(Ring - 1) /\ 0 # n + 1  BY <1>2, <1>4
    <2> QED  BY <1>7, <1>11, <1>12, <2>1
  <1> HIDE DEF At, Word
  <1>14. /\ mem'[t] = <<"len", len>> /\ mem'[last] = Status
         /\ \A p \in Places : p # t /\ p # last => mem'[p] = IF At(p) THEN Word(p) ELSE mem[p]
    BY <1>10, <1>13
  <1>15. ASSUME NEW j \in 1..n PROVE mem'[On(t, j)] = <<id, j>>
    <2>1. j \in Nat /\ j \in 0..(Ring - 1) /\ j <= Ring /\ 0 \in 0..(Ring - 1) /\ n + 1 \in 0..(Ring - 1)
          /\ j # 0 /\ j # n + 1 /\ j - 1 \in 0..(n - 1) /\ (j - 1) + 1 = j /\ 1 + (j - 1) = j
      BY <1>2, <1>4
    <2>2. PICK p \in Places : p = On(t, j)  BY <2>1, OnValue
    <2>3. p # t /\ p # last  BY <1>7, <1>11, <1>12, <2>1, <2>2
    <2>4. p = Place(j - 1)  BY <1>6, <2>1, <2>2
    <2>5. ASSUME NEW i \in 0..(n - 1), p = Place(i) PROVE i = j - 1
      <3>1. i + 1 \in 0..(Ring - 1)  BY <1>2, <1>4
      <3>2. On(t, i + 1) = On(t, j)  BY <1>6, <2>2, <2>5
      <3>3. i + 1 = j  BY <1>11, <2>1, <3>1, <3>2
      <3> QED  BY <3>3
    <2>6. (CHOOSE i \in 0..(n - 1) : p = Place(i)) = j - 1
      BY <2>1, <2>4, <2>5, Zenon
    <2>7. At(p) /\ Word(p) = frame.words[j]
      BY <2>1, <2>4, <2>6, Zenon DEF At, Word
    <2> QED  BY <1>5, <1>14, <2>2, <2>3, <2>7, Zenon
  <1>16. Holds(mem', t, id, len)
    BY <1>2, <1>14, <1>15, Zenon DEF Holds
  <1>17. ASSUME NEW k \in 1..z PROVE mem'[Back(t, k)] = mem[Back(t, k)]
    <2>1. k \in 0..Ring /\ k \in Nat /\ k <= Ring /\ Ring - k \in 0..(Ring - 1) /\ 0 \in 0..(Ring - 1)
          /\ Ring - k > n + 1 /\ n + 1 \in 0..(Ring - 1) /\ Ring - k # 0 /\ Ring - k # n + 1
      BY <1>2, <1>4
    <2>2. PICK p \in Places : p = Back(t, k)  BY <2>1, BackValue
    <2>3. p = On(t, Ring - k)  BY <2>1, <2>2, BackIsOn
    <2>4. p # t /\ p # last  BY <1>7, <1>11, <1>12, <2>1, <2>3
    <2>5. ASSUME NEW i \in 0..(n - 1) PROVE p # Place(i)
      <3>1. i + 1 \in 0..(Ring - 1) /\ i + 1 # Ring - k  BY <1>2, <1>4, <2>1
      <3> QED  BY <1>6, <1>11, <2>1, <2>3, <3>1
    <2>6. ~At(p)  BY <2>5, Zenon DEF At
    <2> QED  BY <1>14, <2>2, <2>4, <2>6, Zenon
  <1>18. ASSUME \A p \in Places : mem[p] \in Cells, NEW p \in Places PROVE mem'[p] \in Cells
    <2>1. CASE p = t
      <3>1. <<"len", len>> \in Cells  BY <1>2 DEF Cells
      <3> QED  BY <1>14, <2>1, <3>1, Zenon
    <2>2. CASE p = last
      <3>1. Status \in Cells  BY DEF Cells, Status
      <3> QED  BY <1>14, <2>2, <3>1, Zenon
    <2>3. CASE p # t /\ p # last /\ At(p)
      <3>1. PICK i \in 0..(n - 1) : p = Place(i)  BY <2>3, Zenon DEF At
      <3>2. p = On(t, i + 1) /\ i + 1 \in 1..n  BY <1>2, <1>6, <3>1
      <3>3. mem'[p] = <<id, i + 1>> /\ i + 1 \in Nat  BY <1>15, <3>2
      <3> QED  BY <3>3 DEF Cells
    <2>4. CASE p # t /\ p # last /\ ~At(p)  BY <1>14, <1>18, <2>4, Zenon
    <2> QED  BY <2>1, <2>2, <2>3, <2>4
  <1> QED  BY <1>1, <1>2, <1>3, <1>9, <1>16, <1>17, <1>18, Zenon

-----------------------------------------------------------------------------
(* Every step keeps the invariant.                                         *)

\* The distance between the pointers.
LEMMA UsedValue ==
    ASSUME X_Tail \in Places, X_Head \in Places
    PROVE  Used \in Places /\ Back(X_Tail, Used) = X_Head /\ (Used = 0 <=> X_Head = X_Tail)
PROOF
  <1>1. Used \in Places /\ Back(X_Tail, Used) \in Places
    BY BackBack DEF Used
  <1>2. PICK t \in Places, h \in Places : t = X_Tail /\ h = X_Head  OBVIOUS
  <1>3. t \in Nat /\ t < Ring /\ h \in Nat /\ h < Ring /\ h <= Ring /\ Ring \in Nat
    BY RingSize DEF Places
  <1>4. PICK z \in Places : z = Back(t, h) /\ z = IF h <= t THEN t - h ELSE t - h + Ring
    BY <1>3, BackValue
  <1>5. z \in Nat /\ z < Ring /\ z <= Ring  BY <1>3 DEF Places
  <1>6. Back(t, z) = h
    <2>1. Back(t, Back(t, h)) = h  BY BackBack
    <2>2. z = Back(t, h)  BY <1>4
    <2> QED  BY <2>1, <2>2, Zenon
  <1>7. z = 0 <=> h = t  BY <1>3, <1>4, SMT
  <1> QED  BY <1>1, <1>2, <1>4, <1>6, <1>7, Zenon DEF Used

\* The type invariant in the terms of this module.
LEMMA TypeParts ==
    TypeOK <=>
      /\ X_Head \in Places /\ X_Tail \in Places /\ head \in Places /\ dst \in Places
      /\ \A p \in Places : mem[p] \in Cells
      /\ pc \in {"Idle", "Copy", "Publish"}
      /\ frame \in Frames \cup {None} /\ out \in Frames \cup {None}
      /\ owed \in Nat
PROOF BY Zenon DEF TypeOK, Places, Cells

\* The ring starts empty.
LEMMA InitInv == Init => Inv
PROOF
  <1> SUFFICES ASSUME Init PROVE Inv
    OBVIOUS
  <1>1. 0 \in Places /\ 0 \in Nat  BY RingSize DEF Places
  <1>2. TypeOK
    <2>1. Status \in Cells  BY DEF Status, Cells
    <2>2. \A p \in Places : mem[p] \in Cells  BY <2>1 DEF Init, FlushFIFO, Places
    <2> QED  BY <1>1, <2>2, TypeParts, Zenon DEF Init
  <1>3. Used = 0
    BY <1>1, UsedValue, Zenon DEF Init
  <1>4. Chain(X_Tail, mem, 0, {0}, [k \in {0} |-> 0], 0)
    <2>1. \A k \in {0} : ~(0 < k)  OBVIOUS
    <2>2. [k \in {0} |-> 0] \in [{0} -> Nat] /\ [k \in {0} |-> 0][0] = 0 /\ {0} \subseteq Nat /\ 0 <= 0
      OBVIOUS
    <2> QED  BY <2>1, <2>2 DEF Chain
  <1>5. Chained  BY <1>3, <1>4, Zenon DEF Chained, Init
  <1>6. pc = "Idle"  BY DEF Init
  <1> QED  BY <1>2, <1>5, <1>6 DEF Inv

\* Accepting a frame: the room is there.
LEMMA AcceptInv ==
    ASSUME Inv, NEW id \in Ids, NEW len \in Lens, Accept(id, len)
    PROVE  Inv'
PROOF
  <1>1. TypeOK /\ Chained  BY Zenon DEF Inv
  <1>2. X_Tail \in Places /\ X_Head \in Places  BY <1>1, TypeParts, Zenon
  <1>3. UNCHANGED <<X_Head, X_Tail, mem, dst, out, owed>> /\ frame' = FrameOf(id, len) /\ head' = X_Head
        /\ pc' = "Copy" /\ Fits(len, X_Head, X_Tail)
    BY DEF Accept
  <1>4. TypeOK'
    <2>1. frame' \in Frames  BY <1>3 DEF Frames
    <2>2. /\ X_Head' \in Places /\ X_Tail' \in Places /\ head' \in Places /\ dst' \in Places
          /\ \A p \in Places : mem'[p] \in Cells
          /\ pc' \in {"Idle", "Copy", "Publish"}
          /\ frame' \in Frames \cup {None} /\ out' \in Frames \cup {None} /\ owed' \in Nat
      BY <1>1, <1>3, <2>1, TypeParts, Zenon
    <2> QED  BY <2>2, Zenon DEF TypeOK, Places, Cells
  <1>5. Chained'  BY <1>1, <1>3, Zenon DEF Chained, Used
  <1>6. Given'  BY <1>3, Zenon DEF Given
  <1>7. Room'
    <2>1. Needed(len) + Back(X_Tail, X_Head) <= Ring  BY <1>2, <1>3, FitsRoom
    <2>2. Back(X_Tail, X_Head) <= Back(X_Tail, X_Head)
      <3>1. Back(X_Tail, X_Head) \in Places  BY <1>2, BackBack
      <3> QED  BY <3>1, RingSize DEF Places
    <2>3. frame'.len = len  BY <1>3 DEF FrameOf
    <2> QED  BY <1>3, <2>1, <2>2, <2>3, Zenon DEF Room, Used
  <1> QED  BY <1>3, <1>4, <1>5, <1>6, <1>7, Zenon DEF Inv

\* Copying the frame: the chain before it stays as it is.
LEMMA CopyInv ==
    ASSUME Inv, Copy
    PROVE  Inv'
PROOF
  <1>1. TypeOK /\ Chained /\ Given /\ Room  BY Zenon DEF Inv, Copy
  <1>2. X_Tail \in Places /\ X_Head \in Places /\ head \in Places  BY <1>1, TypeParts, Zenon
  <1>3. PICK id \in Ids, len \in Lens : frame = FrameOf(id, len)  BY <1>1, Zenon DEF Given
  <1>4. frame.len = len  BY <1>3 DEF FrameOf
  <1>5. Used <= Back(X_Tail, head) /\ Needed(len) + Back(X_Tail, head) <= Ring
    BY <1>1, <1>4, Zenon DEF Room
  <1>6. UNCHANGED <<X_Head, X_Tail, frame, head, out, owed>> /\ pc' = "Publish"
    BY Zenon DEF Copy
  <1>7. /\ Holds(mem', X_Tail, id, len)
        /\ dst' = On(X_Tail, Needed(len)) /\ dst' \in Places
        /\ \A k \in 1..Back(X_Tail, head) : mem'[Back(X_Tail, k)] = mem[Back(X_Tail, k)]
        /\ (\A p \in Places : mem[p] \in Cells) => \A p \in Places : mem'[p] \in Cells
    BY <1>2, <1>3, <1>5, CopyWrites, Zenon
  <1>8. TypeOK'
    <2>1. \A p \in Places : mem[p] \in Cells  BY <1>1, TypeParts, Zenon
    <2>2. /\ X_Head' \in Places /\ X_Tail' \in Places /\ head' \in Places /\ dst' \in Places
          /\ \A p \in Places : mem'[p] \in Cells
          /\ pc' \in {"Idle", "Copy", "Publish"}
          /\ frame' \in Frames \cup {None} /\ out' \in Frames \cup {None} /\ owed' \in Nat
      BY <1>1, <1>6, <1>7, <2>1, TypeParts, Zenon
    <2> QED  BY <2>2, Zenon DEF TypeOK, Places, Cells
  <1>9. Used \in Places /\ Used' = Used  BY <1>2, <1>6, UsedValue, Zenon DEF Used
  <1>10. Chained'
    <2>1. PICK b, c : Chain(X_Tail, mem, Used, b, c, owed)  BY <1>1, Zenon DEF Chained
    <2>2. \A k \in 1..Used : mem'[Back(X_Tail, k)] = mem[Back(X_Tail, k)]
      <3>1. Back(X_Tail, head) \in Places  BY <1>2, BackBack
      <3>2. \A k \in 1..Used : k \in 1..Back(X_Tail, head)
        BY <1>5, <1>9, <3>1, RingSize DEF Places
      <3> QED  BY <1>7, <3>2, Zenon
    <2>3. Chain(X_Tail, mem', Used, b, c, owed)
      BY <1>2, <1>9, <2>1, <2>2, ChainKept, Zenon
    <2> QED  BY <1>6, <1>9, <2>3, Zenon DEF Chained
  <1>11. Written'
    BY <1>3, <1>6, <1>7, Zenon DEF Written
  <1>12. Room'
    BY <1>1, <1>6, <1>9, Zenon DEF Room
  <1> QED  BY <1>6, <1>8, <1>10, <1>11, <1>12, Zenon DEF Inv

\* Publishing the frame: it joins the chain, unless it fills the ring to the
\* last word: then the ring looks empty, and the chain is gone.
LEMMA PublishInv ==
    ASSUME Inv, Publish
    PROVE  Inv'
PROOF
  <1>1. TypeOK /\ Chained /\ Written /\ Room  BY Zenon DEF Inv, Publish
  <1>2. X_Tail \in Places /\ X_Head \in Places /\ head \in Places /\ dst \in Places /\ owed \in Nat
    BY <1>1, TypeParts, Zenon
  <1>3. PICK id \in Ids, len \in Lens :
           frame = FrameOf(id, len) /\ Holds(mem, X_Tail, id, len) /\ dst = On(X_Tail, Needed(len))
    BY <1>1, Zenon DEF Written
  <1>4. frame.len = len  BY <1>3 DEF FrameOf
  <1>5. Used <= Back(X_Tail, head) /\ Needed(len) + Back(X_Tail, head) <= Ring
    BY <1>1, <1>4, Zenon DEF Room
  <1>6. /\ UNCHANGED <<X_Head, mem, out>> /\ X_Tail' = dst /\ owed' = owed + 1
        /\ pc' = "Idle" /\ frame' = None /\ head' = 0 /\ dst' = 0
    BY Zenon DEF Publish
  <1>7. 0 \in Places /\ owed + 1 \in Nat  BY <1>2, RingSize DEF Places
  <1>8. TypeOK'
    <2>1. /\ X_Head' \in Places /\ X_Tail' \in Places /\ head' \in Places /\ dst' \in Places
          /\ \A p \in Places : mem'[p] \in Cells
          /\ pc' \in {"Idle", "Copy", "Publish"}
          /\ frame' \in Frames \cup {None} /\ out' \in Frames \cup {None} /\ owed' \in Nat
      BY <1>1, <1>2, <1>6, <1>7, TypeParts, Zenon
    <2> QED  BY <2>1, Zenon DEF TypeOK, Places, Cells
  <1>9. PICK t \in Places, n \in Places, x \in Nat : t = X_Tail /\ n = Used /\ x = Needed(len)
    BY <1>2, UsedValue, WordsValue
  <1>10. n \in Nat /\ n + x <= Ring /\ Ring \in Nat
    <2>1. Back(X_Tail, head) \in Places  BY <1>2, BackBack
    <2> QED  BY <1>5, <1>9, <2>1, RingSize DEF Places
  <1>11. X_Head = Back(t, n)  BY <1>2, <1>9, UsedValue
  <1>12. Used' = Back(On(t, x), X_Head)
    BY <1>3, <1>6, <1>9, Zenon DEF Used
  <1>13. CASE n + x < Ring
    <2>1. PICK b, c : Chain(X_Tail, mem, Used, b, c, owed)  BY <1>1, Zenon DEF Chained
    <2>2. Chain(t, mem, n, b, c, owed) /\ Holds(mem, t, id, len) /\ n + Needed(len) < Ring
      BY <1>3, <1>9, <1>13, <2>1, Zenon
    <2>3. PICK b2, c2 : Chain(On(t, Needed(len)), mem, n + Needed(len), b2, c2, owed + 1)
      BY <1>2, <2>2, ChainLonger, Zenon
    <2>4. Used' = n + x
      <3>1. Back(On(t, x), n + x) = X_Head  BY <1>10, <1>11, BackOn
      <3>2. On(t, x) \in Places /\ n + x \in Places  BY <1>10, <1>13, OnValue DEF Places
      <3>3. Back(On(t, x), Back(On(t, x), n + x)) = n + x  BY <3>2, BackBack
      <3> QED  BY <1>12, <3>1, <3>3, Zenon
    <2>5. Chain(X_Tail', mem', Used', b2, c2, owed')
      BY <1>3, <1>6, <1>9, <2>3, <2>4, Zenon
    <2> QED  BY <1>6, <1>8, <2>5, Zenon DEF Inv, Chained
  <1>14. CASE n + x = Ring
    <2>1. On(t, x) = X_Head
      <3>1. n \in 0..Ring /\ x = Ring - n  BY <1>10, <1>14
      <3>2. Back(t, n) = On(t, Ring - n)  BY <3>1, BackIsOn
      <3> QED  BY <1>11, <3>1, <3>2, Zenon
    <2>2. X_Head' = X_Tail'  BY <1>3, <1>6, <1>9, <2>1, Zenon
    <2>3. Used' = 0
      <3>1. PICK h \in Places : h = X_Head  BY <1>2
      <3>2. h \in Nat /\ h <= Ring /\ h - h = 0 /\ h <= h  BY <1>10, <3>1 DEF Places
      <3>3. Back(h, h) = 0  BY <3>2, BackValue
      <3> QED  BY <1>12, <2>1, <3>1, <3>3, Zenon
    <2>4. Chain(X_Tail', mem', 0, {0}, [k \in {0} |-> 0], owed')
      <3>1. \A k \in {0} : ~(0 < k)  OBVIOUS
      <3>2. [k \in {0} |-> 0] \in [{0} -> Nat] /\ [k \in {0} |-> 0][0] = 0 /\ {0} \subseteq Nat /\ 0 <= owed'
        BY <1>2, <1>6
      <3> QED  BY <3>1, <3>2 DEF Chain
    <2>5. Chain(X_Tail', mem', Used', {0}, [k \in {0} |-> 0], owed')  BY <2>3, <2>4, Zenon
    <2> QED  BY <1>6, <1>8, <2>5, Zenon DEF Inv, Chained
  <1> QED  BY <1>10, <1>13, <1>14

\* Sending a frame: the MAC takes the first of the chain.
LEMMA MacSendInv ==
    ASSUME Inv, MacSend
    PROVE  Inv'
PROOF
  <1>1. TypeOK /\ Chained  BY Zenon DEF Inv
  <1>2. X_Tail \in Places /\ X_Head \in Places /\ owed \in Nat  BY <1>1, TypeParts, Zenon
  <1>3. /\ X_Head # X_Tail /\ out' = FrameAt(X_Head)
        /\ X_Head' = (X_Head + Needed(mem[X_Head][2])) % Ring /\ owed' = owed - 1
        /\ UNCHANGED <<X_Tail, mem, pc, frame, head, dst>>
    BY Zenon DEF MacSend
  <1>4. PICK t \in Places, n \in Places : t = X_Tail /\ n = Used /\ n # 0 /\ X_Head = Back(t, n)
    BY <1>2, <1>3, UsedValue, Zenon
  <1>5. n \in Nat /\ n > 0 /\ n <= Ring /\ Ring \in Nat  BY <1>4, RingSize DEF Places
  <1>6. PICK b, c : Chain(t, mem, n, b, c, owed)  BY <1>1, <1>4, Zenon DEF Chained
  <1>7. PICK id \in Ids, len \in Lens :
           /\ Holds(mem, Back(t, n), id, len) /\ Needed(len) <= n
           /\ Chain(t, mem, n - Needed(len), b, c, owed - 1) /\ owed - 1 \in Nat
    BY <1>2, <1>5, <1>6, ChainShorter
  <1>8. PICK x \in Nat : x = Needed(len) /\ x <= n  BY <1>7, WordsValue
  <1>9. mem[X_Head][2] = len /\ [j \in 1..Words(len) |-> mem[On(X_Head, j)]] = FrameOf(id, len).words
    <2>1. Holds(mem, X_Head, id, len)  BY <1>4, <1>7, Zenon
    <2> QED  BY <2>1, HeldFrame, Zenon
  <1>10. out' = FrameOf(id, len)
    <2>1. FrameAt(X_Head) = [len |-> len, words |-> [j \in 1..Words(len) |-> mem[On(X_Head, j)]]]
      BY <1>9, Zenon DEF FrameAt, On
    <2>2. FrameOf(id, len) = [len |-> len, words |-> FrameOf(id, len).words]
      BY DEF FrameOf
    <2> QED  BY <1>3, <1>9, <2>1, <2>2, Zenon
  <1>11. X_Head' = Back(t, n - x) /\ n - x \in Places
    <2>1. X_Head' = On(Back(t, n), x)  BY <1>3, <1>4, <1>8, <1>9, Zenon DEF On
    <2>2. On(Back(t, n), x) = Back(t, n - x)  BY <1>5, <1>8, OnBack
    <2>3. n - x \in Places  BY <1>4, <1>5, <1>8 DEF Places
    <2> QED  BY <2>1, <2>2, <2>3
  <1>12. X_Head' \in Places /\ Used' = n - x
    <2>1. Back(t, n - x) \in Places /\ Back(t, Back(t, n - x)) = n - x  BY <1>11, BackBack
    <2> QED  BY <1>3, <1>4, <1>11, <2>1, Zenon DEF Used
  <1>13. TypeOK'
    <2>1. out' \in Frames  BY <1>10 DEF Frames
    <2>2. /\ X_Head' \in Places /\ X_Tail' \in Places /\ head' \in Places /\ dst' \in Places
          /\ \A p \in Places : mem'[p] \in Cells
          /\ pc' \in {"Idle", "Copy", "Publish"}
          /\ frame' \in Frames \cup {None} /\ out' \in Frames \cup {None} /\ owed' \in Nat
      BY <1>1, <1>3, <1>7, <1>12, <2>1, TypeParts, Zenon
    <2> QED  BY <2>2, Zenon DEF TypeOK, Places, Cells
  <1>14. Chained'
    <2>1. Chain(X_Tail', mem', Used', b, c, owed')  BY <1>3, <1>4, <1>7, <1>8, <1>12, Zenon
    <2> QED  BY <2>1, Zenon DEF Chained
  <1>15. Room => Room'
    <2>1. SUFFICES ASSUME Room PROVE Room'  OBVIOUS
    <2>2. Used <= Back(X_Tail, head) /\ Needed(frame.len) + Back(X_Tail, head) <= Ring
      BY <2>1, Zenon DEF Room
    <2>3. head \in Places  BY <1>1, TypeParts, Zenon
    <2>4. Back(X_Tail, head) \in Places  BY <1>2, <2>3, BackBack
    <2>5. Used' <= Back(X_Tail, head)
      BY <1>4, <1>5, <1>8, <1>12, <2>2, <2>4 DEF Places
    <2> QED  BY <1>3, <2>2, <2>5, Zenon DEF Room
  <1>16. (Given => Given') /\ (Written => Written')
    BY <1>3, Zenon DEF Given, Written
  <1> QED  BY <1>3, <1>13, <1>14, <1>15, <1>16, Zenon DEF Inv

\* A step that changes nothing keeps it.
LEMMA StutterInv ==
    ASSUME Inv, UNCHANGED vars
    PROVE  Inv'
PROOF
  <1>1. UNCHANGED <<X_Head, X_Tail, mem, pc, frame, head, dst, out, owed>>
    BY DEF vars
  <1>2. TypeOK'  BY <1>1, Zenon DEF Inv, TypeOK
  <1>3. Chained'  BY <1>1, Zenon DEF Inv, Chained, Used
  <1>4. Given' = Given /\ Room' = Room /\ Written' = Written
    BY <1>1 DEF Given, Room, Written, Used
  <1> QED  BY <1>1, <1>2, <1>3, <1>4, Zenon DEF Inv

\* The words between the pointers stay a chain of whole frames, whatever the
\* MAC does while EthWriteFrame writes (ethernetif.c:267-333).
THEOREM InvHolds == Spec => []Inv
PROOF
  <1>1. Init => Inv  BY InitInv
  <1>2. Inv /\ [Next]_vars => Inv'
    <2> SUFFICES ASSUME Inv, [Next]_vars PROVE Inv'
      OBVIOUS
    <2>1. ASSUME NEW id \in Ids, NEW len \in Lens, Accept(id, len) PROVE Inv'
      BY <2>1, AcceptInv
    <2>2. ASSUME NEW len \in Lens, Refuse(len) PROVE Inv'
      <3>1. UNCHANGED vars  BY <2>2 DEF Refuse
      <3> QED  BY <3>1, StutterInv
    <2>3. CASE Copy  BY <2>3, CopyInv
    <2>4. CASE Publish  BY <2>4, PublishInv
    <2>5. CASE MacSend  BY <2>5, MacSendInv
    <2>6. CASE UNCHANGED vars  BY <2>6, StutterInv
    <2> QED  BY <2>1, <2>2, <2>3, <2>4, <2>5, <2>6, Zenon DEF Next
  <1> QED  BY <1>1, <1>2, PTL DEF Spec

\* The MAC sends nothing but whole frames that EthWriteFrame was given, for
\* every size of the ring and all lengths of frames, and it never sends more
\* of them than were answered with ERR_OK (ethernetif.c:267-333).
THEOREM OnlyWholeFramesSent == Spec => []TypeOK
PROOF
  <1>1. Inv => TypeOK  BY Zenon DEF Inv
  <1> QED  BY <1>1, InvHolds, PTL

-----------------------------------------------------------------------------
(* The queue in the ring.                                                  *)

\* A frame that takes the last free word of the ring: the pointers meet, and
\* the ring looks empty to both sides.
FillsRing == Publish /\ dst = X_Head /\ Queue' = <<>>

\* Nothing else loses, repeats or spoils a frame that was answered with ERR_OK,
\* whatever the ring's size and the lengths of frames: but for such a step,
\* EthWriteFrame and the MAC are the queue (ethernetif.c:267-333).
QueueUnlessFull == FQ!Init /\ [][FQ!Put \/ FQ!Get \/ FillsRing]_<<Queue, out>>

\* A set of numbers has a least one: induction, for the provers at hand.
LEMMA Least ==
    ASSUME NEW T, T \subseteq Nat, T # {}
    PROVE  \E x \in T : \A y \in T : x <= y
PROOF
  <1>1. PICK R : R = {ss \in Nat \X Nat : ss[1] < ss[2]}  OBVIOUS
  <1>2. IsWellFoundedOn(R, Nat)  BY <1>1, NatLessThanWellFounded, Zenon DEF OpToRel
  <1>3. PICK x \in T : \A y \in T : ~(<<y, x>> \in R)  BY <1>2, WFMin, Zenon
  <1>4. ASSUME NEW y \in T PROVE x <= y
    <2>1. x \in Nat /\ y \in Nat  OBVIOUS
    <2>2. <<y, x>> \notin R  BY <1>3
    <2>3. y < x => <<y, x>> \in R  BY <1>1, <2>1
    <2> QED  BY <2>1, <2>2, <2>3
  <1> QED  BY <1>4

\* The frame at p in memory m, and the frames in the k words before t: the one
\* that starts there, and then what q says of the rest.
FrameIn(m, p) == [len |-> m[p][2], words |-> [j \in 1..Words(m[p][2]) |-> m[On(p, j)]]]
Reads(t, m, q, k) ==
    IF k = 0 THEN <<>>
    ELSE LET f == FrameIn(m, Back(t, k))
         IN  <<f>> \o (IF Needed(f.len) <= k THEN q[k - Needed(f.len)] ELSE <<>>)
Ahead(t, m) == CHOOSE q : q = [k \in Places |-> Reads(t, m, q, k)]

\* The queue, as a value of the tail, the memory and the distance.
LEMMA QueueIs == Queue = Ahead(X_Tail, mem)[Used]
PROOF BY Zenon DEF Queue, Ahead, Reads, FrameIn, FrameAt, Used, Back, On, Places

\* The same of the next state.
LEMMA QueueNext == Queue' = Ahead(X_Tail', mem')[Used']
PROOF BY Zenon DEF Queue, Ahead, Reads, FrameIn, FrameAt, Used, Back, On, Places

\* Every word of the ring holds what a word may.
Stored(m) == \A p \in Places : m[p] \in Cells

\* What is read depends on shorter distances only.
LEMMA ReadsBelow ==
    ASSUME NEW t \in Places, NEW m, Stored(m), NEW k \in Places, NEW f, NEW g,
           \A i \in 0..(k - 1) : f[i] = g[i]
    PROVE  Reads(t, m, f, k) = Reads(t, m, g, k)
PROOF
  <1>1. CASE k = 0  BY <1>1, Zenon DEF Reads
  <1>2. CASE k # 0
    <2>1. PICK p \in Places : p = Back(t, k)  BY BackBack
    <2>2. m[p][2] \in Nat  BY <2>1 DEF Stored, Cells
    <2>3. PICK n \in Nat : n = Needed(m[p][2]) /\ n > 0
      <3>1. (m[p][2] + 3) \div 4 \in Nat  BY <2>2
      <3> QED  BY <3>1 DEF Needed, Words
    <2>4. FrameIn(m, p).len = m[p][2]  BY DEF FrameIn
    <2>5. k \in Nat  BY RingSize DEF Places
    <2>6. n <= k => f[k - n] = g[k - n]
      <3>1. n <= k => k - n \in 0..(k - 1)  BY <2>3, <2>5
      <3> QED  BY <3>1
    <2>7. ASSUME NEW q PROVE Reads(t, m, q, k) = <<FrameIn(m, p)>> \o (IF n <= k THEN q[k - n] ELSE <<>>)
      BY <1>2, <2>1, <2>3, <2>4, Zenon DEF Reads
    <2> QED  BY <2>6, <2>7, Zenon
  <1> QED  BY <1>1, <1>2

\* So there is a function that satisfies the recursion, ...
LEMMA AheadExists ==
    ASSUME NEW t \in Places, NEW m, Stored(m)
    PROVE  \E q : q = [k \in Places |-> Reads(t, m, q, k)]
PROOF
  <1> DEFINE Sol(n, f) == f = [k \in 0..(n - 1) |-> Reads(t, m, f, k)]
             T == {n \in 0..Ring : ~\E f : Sol(n, f)}
  <1>1. CASE T = {}
    <2>1. Ring \in 0..Ring  BY RingSize
    <2>2. \E f : Sol(Ring, f)  BY <1>1, <2>1
    <2> QED  BY <2>2, Zenon DEF Places
  <1>2. CASE T # {}
    <2>1. T \subseteq Nat  BY RingSize
    <2>2. PICK n \in T : \A y \in T : n <= y  BY <1>2, <2>1, Least, Zenon
    <2>3. n \in Nat /\ n <= Ring /\ ~\E f : Sol(n, f)  BY RingSize
    <2> HIDE DEF Sol, T
    <2>4. n # 0
      <3>1. SUFFICES ASSUME n = 0 PROVE FALSE  OBVIOUS
      <3>2. PICK f : f = [k \in {} |-> 0]  OBVIOUS
      <3>3. 0..(n - 1) = {}  BY <3>1
      <3>4. Sol(n, f)  BY <3>2, <3>3 DEF Sol
      <3> QED  BY <2>3, <3>4
    <2>5. n - 1 \in 0..Ring /\ ~(n <= n - 1)  BY <2>3, <2>4, RingSize
    <2>6. PICK f : Sol(n - 1, f)  BY <2>2, <2>5, Zenon DEF T
    <2>7. PICK g : g = [k \in 0..(n - 1) |-> Reads(t, m, f, k)]  OBVIOUS
    <2>8. ASSUME NEW k \in 0..(n - 1) PROVE g[k] = Reads(t, m, g, k)
      <3>1. k \in Places  BY <2>3, RingSize DEF Places
      <3>2. ASSUME NEW i \in 0..(k - 1) PROVE f[i] = g[i]
        <4>1. i \in 0..((n - 1) - 1) /\ i \in 0..(n - 1)  BY <2>3
        <4>2. f[i] = Reads(t, m, f, i)  BY <2>6, <4>1 DEF Sol
        <4>3. g[i] = Reads(t, m, f, i)  BY <2>7, <4>1
        <4> QED  BY <4>2, <4>3
      <3>3. Reads(t, m, f, k) = Reads(t, m, g, k)  BY <3>1, <3>2, ReadsBelow
      <3>4. g[k] = Reads(t, m, f, k)  BY <2>7
      <3> QED  BY <3>3, <3>4
    <2>9. Sol(n, g)
      <3>1. g = [k \in 0..(n - 1) |-> g[k]]  BY <2>7
      <3> QED  BY <2>8, <3>1, Zenon DEF Sol
    <2> QED  BY <2>3, <2>9
  <1> QED  BY <1>1, <1>2

\* ... and Ahead is one.
LEMMA AheadUnfolds ==
    ASSUME NEW t \in Places, NEW m, Stored(m), NEW k \in Places
    PROVE  Ahead(t, m)[k] = Reads(t, m, Ahead(t, m), k)
PROOF
  <1>1. Ahead(t, m) = [i \in Places |-> Reads(t, m, Ahead(t, m), i)]
    BY AheadExists, Zenon DEF Ahead
  <1>2. PICK q : q = Ahead(t, m)  OBVIOUS
  <1>3. q = [i \in Places |-> Reads(t, m, q, i)]  BY <1>1, <1>2, Zenon
  <1>4. q[k] = Reads(t, m, q, k)  BY <1>3, Zenon
  <1> QED  BY <1>2, <1>4, Zenon

\* Nothing is ahead at the tail.
LEMMA AheadNone ==
    ASSUME NEW t \in Places, NEW m, Stored(m)
    PROVE  Ahead(t, m)[0] = <<>>
PROOF
  <1>1. 0 \in Places  BY RingSize DEF Places
  <1> QED  BY <1>1, AheadUnfolds, Zenon DEF Reads

\* A frame k words before the tail comes first.
LEMMA AheadFirst ==
    ASSUME NEW t \in Places, NEW m, Stored(m), NEW k \in Places, k # 0,
           NEW id \in Ids, NEW len \in Lens, Holds(m, Back(t, k), id, len), Needed(len) <= k
    PROVE  Ahead(t, m)[k] = <<FrameOf(id, len)>> \o Ahead(t, m)[k - Needed(len)]
PROOF
  <1>1. PICK p : p = Back(t, k)  OBVIOUS
  <1>2. m[p][2] = len /\ [j \in 1..Words(len) |-> m[On(p, j)]] = FrameOf(id, len).words
    <2>1. Holds(m, p, id, len)  BY <1>1, Zenon
    <2> QED  BY <2>1, HeldFrame
  <1>3. FrameIn(m, p) = FrameOf(id, len)
    <2>1. FrameIn(m, p) = [len |-> len, words |-> [j \in 1..Words(len) |-> m[On(p, j)]]]
      BY <1>2, Zenon DEF FrameIn
    <2>2. FrameOf(id, len) = [len |-> len, words |-> FrameOf(id, len).words]  BY DEF FrameOf
    <2> QED  BY <1>2, <2>1, <2>2, Zenon
  <1>4. FrameOf(id, len).len = len  BY DEF FrameOf
  <1>5. Reads(t, m, Ahead(t, m), k) = <<FrameOf(id, len)>> \o Ahead(t, m)[k - Needed(len)]
    BY <1>1, <1>3, <1>4, Zenon DEF Reads
  <1> QED  BY <1>5, AheadUnfolds, Zenon

\* What holds at the tail, and of a frame once it holds of the ones behind it,
\* holds of all of a chain.
LEMMA ChainInduction ==
    ASSUME NEW t, NEW m, NEW n \in Nat, NEW b, NEW c, NEW q, Chain(t, m, n, b, c, q),
           NEW S, 0 \in S,
           \A k \in b, id \in Ids, len \in Lens :
              k # 0 /\ k <= n /\ Link(t, m, b, c, k, id, len) /\ k - Needed(len) \in S => k \in S
    PROVE  \A k \in b : k <= n => k \in S
PROOF
  <1> DEFINE T == {k \in b : k <= n /\ k \notin S}
  <1>1. b \subseteq Nat  BY Zenon DEF Chain
  <1>2. CASE T = {}  BY <1>2
  <1>3. CASE T # {}
    <2>1. PICK k \in T : \A y \in T : k <= y
      <3>1. T \subseteq Nat  BY <1>1
      <3> QED  BY <1>3, <3>1, Least, Zenon
    <2>2. k \in b /\ k \in Nat /\ k <= n /\ k \notin S /\ k # 0  BY <1>1
    <2>3. PICK id \in Ids, len \in Lens : Link(t, m, b, c, k, id, len)
      <3>1. 0 < k  BY <2>2
      <3> QED  BY <2>2, <3>1, Zenon DEF Chain
    <2>4. PICK x \in Nat : x = Needed(len) /\ x > 0  BY WordsValue
    <2>5. x <= k /\ k - x \in b  BY <2>3, <2>4, Zenon DEF Link
    <2>6. k - x <= n /\ ~(k <= k - x)  BY <2>2, <2>4, <2>5
    <2>7. k - x \in S  BY <2>1, <2>5, <2>6, Zenon
    <2> QED  BY <2>2, <2>3, <2>4, <2>7, Zenon
  <1> QED  BY <1>2, <1>3

\* Sequences, seen from their first element.
LEMMA FirstAndRest ==
    ASSUME NEW S, NEW f \in S, NEW s \in Seq(S), NEW e \in S
    PROVE  /\ <<f>> \o s \in Seq(S) /\ <<f>> \o s # <<>>
           /\ Head(<<f>> \o s) = f /\ Tail(<<f>> \o s) = s
           /\ Append(<<f>> \o s, e) = <<f>> \o Append(s, e)
           /\ <<f>> \o <<>> = Append(<<>>, f)
PROOF
  <1>1. PICK r : r = <<f>> \o s  OBVIOUS
  <1>2. /\ r \in Seq(S) /\ Len(r) = Len(s) + 1 /\ Len(s) \in Nat
        /\ r[1] = f /\ \A i \in 1..Len(s) : r[i + 1] = s[i]
    BY <1>1
  <1>3. r # <<>> /\ Head(r) = f  BY <1>2
  <1>4. Tail(r) = s  BY <1>2, <1>3
  <1>5. Append(r, e) = <<f>> \o Append(s, e)  BY <1>1
  <1>6. <<f>> \o <<>> = Append(<<>>, f)  OBVIOUS
  <1> QED  BY <1>1, <1>2, <1>3, <1>4, <1>5, <1>6, Zenon

\* What is ahead of the tail are frames.
LEMMA AheadType ==
    ASSUME NEW t \in Places, NEW m, Stored(m), NEW n \in Places, NEW b, NEW c, NEW q,
           Chain(t, m, n, b, c, q)
    PROVE  \A k \in b : k <= n => Ahead(t, m)[k] \in Seq(Frames)
PROOF
  <1> DEFINE S == {k \in Places : Ahead(t, m)[k] \in Seq(Frames)}
  <1>1. n \in Nat /\ n < Ring  BY RingSize DEF Places
  <1>2. 0 \in S
    <2>1. 0 \in Places /\ <<>> \in Seq(Frames)  BY RingSize DEF Places
    <2> QED  BY <2>1, AheadNone
  <1>3. ASSUME NEW k \in b, NEW id \in Ids, NEW len \in Lens,
               k # 0 /\ k <= n /\ Link(t, m, b, c, k, id, len) /\ k - Needed(len) \in S
        PROVE  k \in S
    <2>1. k \in Places
      <3>1. k \in Nat  BY Zenon DEF Chain
      <3>2. k # 0 /\ k <= n  BY <1>3, Zenon
      <3> HIDE DEF S
      <3> QED  BY <1>1, <3>1, <3>2, RingSize DEF Places
    <2>2. Holds(m, Back(t, k), id, len) /\ Needed(len) <= k  BY <1>3, Zenon DEF Link
    <2>3. Ahead(t, m)[k] = <<FrameOf(id, len)>> \o Ahead(t, m)[k - Needed(len)]
      BY <1>3, <2>1, <2>2, AheadFirst
    <2>4. FrameOf(id, len) \in Frames  BY DEF Frames
    <2>5. PICK s \in Seq(Frames) : s = Ahead(t, m)[k - Needed(len)]  BY <1>3
    <2>6. <<FrameOf(id, len)>> \o s \in Seq(Frames)  BY <2>4, FirstAndRest, Zenon
    <2> QED  BY <2>1, <2>3, <2>5, <2>6
  <1> HIDE DEF S
  <1>4. \A k \in b : k <= n => k \in S  BY <1>1, <1>2, <1>3, ChainInduction
  <1> QED  BY <1>4 DEF S

\* It does not change with the words outside the chain.
LEMMA AheadKept ==
    ASSUME NEW t \in Places, NEW m, Stored(m), NEW m2, Stored(m2), NEW n \in Places,
           NEW b, NEW c, NEW q, Chain(t, m, n, b, c, q),
           \A k \in 1..n : m2[Back(t, k)] = m[Back(t, k)]
    PROVE  Ahead(t, m2)[n] = Ahead(t, m)[n]
PROOF
  <1> DEFINE S == {k \in Places : Ahead(t, m2)[k] = Ahead(t, m)[k]}
  <1>1. n \in Nat /\ n < Ring /\ n <= n  BY RingSize DEF Places
  <1>2. 0 \in S
    <2>1. 0 \in Places  BY RingSize DEF Places
    <2>2. Ahead(t, m2)[0] = Ahead(t, m)[0]  BY AheadNone, Zenon
    <2> QED  BY <2>1, <2>2
  <1>3. ASSUME NEW k \in b, NEW id \in Ids, NEW len \in Lens,
               k # 0 /\ k <= n /\ Link(t, m, b, c, k, id, len) /\ k - Needed(len) \in S
        PROVE  k \in S
    <2>1. k \in Places /\ k \in 1..n
      <3>1. k \in Nat  BY Zenon DEF Chain
      <3>2. k # 0 /\ k <= n  BY <1>3, Zenon
      <3> HIDE DEF S
      <3> QED  BY <1>1, <3>1, <3>2, RingSize DEF Places
    <2>2. Holds(m, Back(t, k), id, len) /\ Needed(len) <= k  BY <1>3, Zenon DEF Link
    <2>3. Holds(m2, Back(t, k), id, len)  BY <2>1, <2>2, HoldsKept, Zenon
    <2>4. Ahead(t, m)[k] = <<FrameOf(id, len)>> \o Ahead(t, m)[k - Needed(len)]
      BY <1>3, <2>1, <2>2, AheadFirst
    <2>5. Ahead(t, m2)[k] = <<FrameOf(id, len)>> \o Ahead(t, m2)[k - Needed(len)]
      BY <1>3, <2>1, <2>2, <2>3, AheadFirst
    <2>6. Ahead(t, m2)[k - Needed(len)] = Ahead(t, m)[k - Needed(len)]  BY <1>3
    <2>7. Ahead(t, m2)[k] = Ahead(t, m)[k]  BY <2>4, <2>5, <2>6, Zenon
    <2> QED  BY <2>1, <2>7
  <1> HIDE DEF S
  <1>4. \A k \in b : k <= n => k \in S  BY <1>1, <1>2, <1>3, ChainInduction
  <1>5. n \in b  BY Zenon DEF Chain
  <1>6. n \in S  BY <1>1, <1>4, <1>5, Zenon
  <1> QED  BY <1>6 DEF S

\* A frame behind the tail comes last once the tail has moved past it.
LEMMA AheadLonger ==
    ASSUME NEW t \in Places, NEW m, Stored(m), NEW n \in Places, NEW b, NEW c, NEW q,
           Chain(t, m, n, b, c, q), NEW id \in Ids, NEW len \in Lens, Holds(m, t, id, len),
           NEW x \in Nat, x = Needed(len), n + x < Ring
    PROVE  Ahead(On(t, x), m)[n + x] = Append(Ahead(t, m)[n], FrameOf(id, len))
PROOF
  <1>1. PICK f \in Frames : f = FrameOf(id, len)  BY DEF Frames
  <1>2. n \in Nat /\ n < Ring /\ n <= n /\ x < Ring /\ x <= Ring /\ x > 0 /\ Ring \in Nat
    BY WordsValue, RingSize DEF Places
  <1>3. PICK u \in Places : u = On(t, x)  BY <1>2, OnValue
  <1> DEFINE S == {k \in Places : Ahead(u, m)[k + x] = Append(Ahead(t, m)[k], f)}
  <1>4. ASSUME NEW k \in Nat, k <= n PROVE Back(u, k + x) = Back(t, k) /\ k + x \in Places /\ k + x # 0
    <2>1. k + x <= Ring /\ k + x \in Places /\ k + x # 0  BY <1>2, <1>4 DEF Places
    <2>2. Back(On(t, x), k + x) = Back(t, k)  BY <2>1, BackOn
    <2> QED  BY <1>3, <2>1, <2>2, Zenon
  <1>5. 0 \in S
    <2>1. 0 \in Places /\ 0 \in Nat /\ 0 <= n /\ 0 + x = x /\ x - x = 0 /\ x <= x  BY <1>2 DEF Places
    <2>2. Back(u, x) = Back(t, 0) /\ x \in Places /\ x # 0  BY <1>4, <2>1
    <2>3. Back(t, 0) = t
      <3>1. 0 <= Ring /\ 0 <= t /\ t - 0 = t  BY RingSize DEF Places
      <3> QED  BY <2>1, <3>1, BackValue, Zenon
    <2>4. Holds(m, Back(u, x), id, len) /\ Needed(len) <= x  BY <2>1, <2>2, <2>3, Zenon
    <2>5. Ahead(u, m)[x] = <<FrameOf(id, len)>> \o Ahead(u, m)[x - Needed(len)]
      BY <2>2, <2>4, AheadFirst
    <2>6. Ahead(u, m)[0] = <<>> /\ Ahead(t, m)[0] = <<>>  BY AheadNone, Zenon
    <2>7. <<f>> \o <<>> = Append(<<>>, f)
      <3>1. <<>> \in Seq(Frames)  OBVIOUS
      <3> QED  BY <3>1, FirstAndRest, Zenon
    <2>8. Ahead(u, m)[x] = Append(Ahead(t, m)[0], f)  BY <1>1, <2>1, <2>5, <2>6, <2>7, Zenon
    <2> QED  BY <2>1, <2>8
  <1>6. ASSUME NEW k \in b, NEW i \in Ids, NEW l \in Lens,
               k # 0 /\ k <= n /\ Link(t, m, b, c, k, i, l) /\ k - Needed(l) \in S
        PROVE  k \in S
    <2>1. k \in Nat /\ k \in Places
      <3>1. k \in Nat  BY Zenon DEF Chain
      <3> QED  BY <1>2, <1>6, <3>1 DEF Places
    <2>2. PICK y \in Nat : y = Needed(l) /\ y > 0  BY WordsValue
    <2>3. Holds(m, Back(t, k), i, l) /\ y <= k /\ k - y \in b  BY <1>6, <2>2, Zenon DEF Link
    <2>4. Back(u, k + x) = Back(t, k) /\ k + x \in Places /\ k + x # 0  BY <1>4, <1>6, <2>1
    <2>5. Holds(m, Back(u, k + x), i, l)  BY <2>3, <2>4, Zenon
    <2>6. y <= k + x /\ (k + x) - y = (k - y) + x /\ k - y <= n  BY <1>2, <1>6, <2>1, <2>2, <2>3
    <2>7. PICK g \in Frames : g = FrameOf(i, l)  BY DEF Frames
    <2>8. Ahead(u, m)[k + x] = <<g>> \o Ahead(u, m)[(k - y) + x]
      <3>1. Needed(l) <= k + x  BY <2>2, <2>6
      <3>2. Ahead(u, m)[k + x] = <<FrameOf(i, l)>> \o Ahead(u, m)[(k + x) - Needed(l)]
        BY <2>4, <2>5, <3>1, AheadFirst
      <3> QED  BY <2>2, <2>6, <2>7, <3>2, Zenon
    <2>9. Ahead(t, m)[k] = <<g>> \o Ahead(t, m)[k - y]
      <3>1. Needed(l) <= k /\ k # 0  BY <1>6, <2>2, <2>3
      <3>2. Ahead(t, m)[k] = <<FrameOf(i, l)>> \o Ahead(t, m)[k - Needed(l)]
        BY <2>1, <2>3, <3>1, AheadFirst
      <3> QED  BY <2>2, <2>7, <3>2, Zenon
    <2>10. Ahead(u, m)[(k - y) + x] = Append(Ahead(t, m)[k - y], f)  BY <1>6, <2>2
    <2>11. PICK s \in Seq(Frames) : s = Ahead(t, m)[k - y]  BY <2>3, <2>6, AheadType
    <2>12. Append(<<g>> \o s, f) = <<g>> \o Append(s, f)  BY FirstAndRest
    <2>13. Ahead(u, m)[k + x] = Append(Ahead(t, m)[k], f)
      BY <2>8, <2>9, <2>10, <2>11, <2>12, Zenon
    <2> QED  BY <2>1, <2>13
  <1> HIDE DEF S
  <1>7. \A k \in b : k <= n => k \in S  BY <1>2, <1>5, <1>6, ChainInduction
  <1>8. n \in b  BY Zenon DEF Chain
  <1>9. n \in S  BY <1>2, <1>7, <1>8, Zenon
  <1> QED  BY <1>1, <1>3, <1>9 DEF S

-----------------------------------------------------------------------------
(* Every step is a step of the queue.                                      *)

\* The queue starts empty.
LEMMA InitQueue == Init => FQ!Init
PROOF
  <1> SUFFICES ASSUME Init PROVE FQ!Init
    OBVIOUS
  <1>1. TypeOK  BY InitInv, Zenon DEF Inv
  <1>2. X_Tail \in Places /\ X_Head \in Places /\ Stored(mem)  BY <1>1, TypeParts, Zenon DEF Stored
  <1>3. Used = 0  BY <1>2, UsedValue, Zenon DEF Init
  <1>4. Queue = <<>>  BY <1>2, <1>3, QueueIs, AheadNone, Zenon
  <1>5. out = <<>>  BY DEF Init, None
  <1> QED  BY <1>4, <1>5 DEF FQ!Init

\* Nothing of the queue moves with the pointers and the memory at rest.
LEMMA RestQueue ==
    ASSUME UNCHANGED <<X_Head, X_Tail, mem, out>>
    PROVE  UNCHANGED <<Queue, out>>
PROOF
  <1>1. X_Head' = X_Head /\ X_Tail' = X_Tail /\ mem' = mem /\ out' = out  OBVIOUS
  <1>2. Used' = Used  BY <1>1, Zenon DEF Used
  <1>3. Queue' = Queue  BY <1>1, <1>2, QueueIs, QueueNext, Zenon
  <1> QED  BY <1>1, <1>3

\* The words that Copy writes are outside the queue.
LEMMA CopyQueue ==
    ASSUME Inv, Copy
    PROVE  UNCHANGED <<Queue, out>>
PROOF
  <1>1. TypeOK /\ Chained /\ Given /\ Room  BY Zenon DEF Inv, Copy
  <1>2. X_Tail \in Places /\ X_Head \in Places /\ head \in Places /\ Stored(mem)
    BY <1>1, TypeParts, Zenon DEF Stored
  <1>3. PICK id \in Ids, len \in Lens : frame = FrameOf(id, len)  BY <1>1, Zenon DEF Given
  <1>4. frame.len = len  BY <1>3 DEF FrameOf
  <1>5. Used <= Back(X_Tail, head) /\ Needed(len) + Back(X_Tail, head) <= Ring
    BY <1>1, <1>4, Zenon DEF Room
  <1>6. UNCHANGED <<X_Head, X_Tail, out>>  BY Zenon DEF Copy
  <1>7. /\ \A k \in 1..Back(X_Tail, head) : mem'[Back(X_Tail, k)] = mem[Back(X_Tail, k)]
        /\ (\A p \in Places : mem[p] \in Cells) => \A p \in Places : mem'[p] \in Cells
    BY <1>2, <1>3, <1>5, CopyWrites, Zenon
  <1>8. Stored(mem')  BY <1>2, <1>7, Zenon DEF Stored
  <1>9. Used \in Places /\ Used' = Used  BY <1>2, <1>6, UsedValue, Zenon DEF Used
  <1>10. PICK b, c : Chain(X_Tail, mem, Used, b, c, owed)  BY <1>1, Zenon DEF Chained
  <1>11. \A k \in 1..Used : mem'[Back(X_Tail, k)] = mem[Back(X_Tail, k)]
    <2>1. Back(X_Tail, head) \in Places  BY <1>2, BackBack
    <2>2. \A k \in 1..Used : k \in 1..Back(X_Tail, head)
      BY <1>5, <1>9, <2>1, RingSize DEF Places
    <2> QED  BY <1>7, <2>2, Zenon
  <1>12. Ahead(X_Tail, mem')[Used] = Ahead(X_Tail, mem)[Used]
    BY <1>2, <1>8, <1>9, <1>10, <1>11, AheadKept
  <1>13. Queue' = Queue  BY <1>6, <1>9, <1>12, QueueIs, QueueNext, Zenon
  <1> QED  BY <1>6, <1>13

\* Publishing puts the frame into the queue, unless it fills the ring.
LEMMA PublishQueue ==
    ASSUME Inv, Publish
    PROVE  FQ!Put \/ FillsRing
PROOF
  <1>1. TypeOK /\ Chained /\ Written /\ Room  BY Zenon DEF Inv, Publish
  <1>2. /\ X_Tail \in Places /\ X_Head \in Places /\ head \in Places /\ dst \in Places
        /\ Stored(mem)
    BY <1>1, TypeParts, Zenon DEF Stored
  <1>3. PICK id \in Ids, len \in Lens :
           frame = FrameOf(id, len) /\ Holds(mem, X_Tail, id, len) /\ dst = On(X_Tail, Needed(len))
    BY <1>1, Zenon DEF Written
  <1>4. frame.len = len  BY <1>3 DEF FrameOf
  <1>5. Used <= Back(X_Tail, head) /\ Needed(len) + Back(X_Tail, head) <= Ring
    BY <1>1, <1>4, Zenon DEF Room
  <1>6. UNCHANGED <<X_Head, mem, out>> /\ X_Tail' = dst  BY Zenon DEF Publish
  <1>9. PICK t \in Places, n \in Places, x \in Nat : t = X_Tail /\ n = Used /\ x = Needed(len)
    BY <1>2, UsedValue, WordsValue
  <1>10. n \in Nat /\ n + x <= Ring /\ Ring \in Nat
    <2>1. Back(X_Tail, head) \in Places  BY <1>2, BackBack
    <2> QED  BY <1>5, <1>9, <2>1, RingSize DEF Places
  <1>11. X_Head = Back(t, n)  BY <1>2, <1>9, UsedValue
  <1>12. Used' = Back(On(t, x), X_Head)
    BY <1>3, <1>6, <1>9, Zenon DEF Used
  <1>13. CASE n + x < Ring
    <2>1. PICK b, c : Chain(t, mem, n, b, c, owed)  BY <1>1, <1>9, Zenon DEF Chained
    <2>2. Holds(mem, t, id, len)  BY <1>3, <1>9, Zenon
    <2>3. Ahead(On(t, x), mem)[n + x] = Append(Ahead(t, mem)[n], FrameOf(id, len))
      BY <1>2, <1>9, <1>13, <2>1, <2>2, AheadLonger
    <2>4. Used' = n + x
      <3>1. Back(On(t, x), n + x) = X_Head  BY <1>10, <1>11, BackOn
      <3>2. On(t, x) \in Places /\ n + x \in Places  BY <1>10, <1>13, OnValue DEF Places
      <3>3. Back(On(t, x), Back(On(t, x), n + x)) = n + x  BY <3>2, BackBack
      <3> QED  BY <1>12, <3>1, <3>3, Zenon
    <2>5. Queue' = Ahead(On(t, x), mem)[n + x]  BY <1>3, <1>6, <1>9, <2>4, QueueNext, Zenon
    <2>6. Queue = Ahead(t, mem)[n]  BY <1>9, QueueIs, Zenon
    <2>7. FrameOf(id, len) \in Frames  BY DEF Frames
    <2>8. Queue' = Append(Queue, FrameOf(id, len))  BY <2>3, <2>5, <2>6, Zenon
    <2> QED  BY <1>6, <2>7, <2>8, Zenon DEF FQ!Put
  <1>14. CASE n + x = Ring
    <2>1. On(t, x) = X_Head
      <3>1. n \in 0..Ring /\ x = Ring - n  BY <1>10, <1>14
      <3>2. Back(t, n) = On(t, Ring - n)  BY <3>1, BackIsOn
      <3> QED  BY <1>11, <3>1, <3>2, Zenon
    <2>2. dst = X_Head  BY <1>3, <1>9, <2>1, Zenon
    <2>3. Used' = 0
      <3>1. PICK h \in Places : h = X_Head  BY <1>2
      <3>2. h \in Nat /\ h <= Ring /\ h - h = 0 /\ h <= h  BY <1>10, <3>1 DEF Places
      <3>3. Back(h, h) = 0  BY <3>2, BackValue
      <3> QED  BY <1>12, <2>1, <3>1, <3>3, Zenon
    <2>4. Queue' = Ahead(dst, mem)[0]  BY <1>6, <2>3, QueueNext, Zenon
    <2>5. Queue' = <<>>  BY <1>2, <2>4, AheadNone, Zenon
    <2> QED  BY <2>2, <2>5, Zenon DEF FillsRing
  <1> QED  BY <1>10, <1>13, <1>14

\* The MAC sends the first frame of the queue.
LEMMA MacSendQueue ==
    ASSUME Inv, MacSend
    PROVE  FQ!Get
PROOF
  <1>1. TypeOK /\ Chained  BY Zenon DEF Inv
  <1>2. X_Tail \in Places /\ X_Head \in Places /\ owed \in Nat /\ Stored(mem)
    BY <1>1, TypeParts, Zenon DEF Stored
  <1>3. /\ X_Head # X_Tail /\ out' = FrameAt(X_Head)
        /\ X_Head' = (X_Head + Needed(mem[X_Head][2])) % Ring
        /\ UNCHANGED <<X_Tail, mem>>
    BY Zenon DEF MacSend
  <1>4. PICK t \in Places, n \in Places : t = X_Tail /\ n = Used /\ n # 0 /\ X_Head = Back(t, n)
    BY <1>2, <1>3, UsedValue, Zenon
  <1>5. n \in Nat /\ n > 0 /\ n <= Ring /\ Ring \in Nat /\ n <= n  BY <1>4, RingSize DEF Places
  <1>6. PICK b, c : Chain(t, mem, n, b, c, owed)  BY <1>1, <1>4, Zenon DEF Chained
  <1>7. PICK id \in Ids, len \in Lens : Link(t, mem, b, c, n, id, len)
    <2>1. n \in b  BY <1>6, Zenon DEF Chain
    <2> QED  BY <1>5, <1>6, <2>1, Zenon DEF Chain
  <1>8. PICK x \in Nat : x = Needed(len) /\ x > 0  BY WordsValue
  <1>9. Holds(mem, Back(t, n), id, len) /\ x <= n /\ n - x \in b  BY <1>7, <1>8, Zenon DEF Link
  <1>10. mem[X_Head][2] = len /\ [j \in 1..Words(len) |-> mem[On(X_Head, j)]] = FrameOf(id, len).words
    <2>1. Holds(mem, X_Head, id, len)  BY <1>4, <1>9, Zenon
    <2> QED  BY <2>1, HeldFrame, Zenon
  <1>11. PICK f \in Frames : f = FrameOf(id, len)  BY DEF Frames
  <1>12. out' = f
    <2>1. FrameAt(X_Head) = [len |-> len, words |-> [j \in 1..Words(len) |-> mem[On(X_Head, j)]]]
      BY <1>10, Zenon DEF FrameAt, On
    <2>2. FrameOf(id, len) = [len |-> len, words |-> FrameOf(id, len).words]
      BY DEF FrameOf
    <2> QED  BY <1>3, <1>10, <1>11, <2>1, <2>2, Zenon
  <1>13. X_Head' = Back(t, n - x) /\ n - x \in Places /\ n - x <= n
    <2>1. X_Head' = On(Back(t, n), x)  BY <1>3, <1>4, <1>8, <1>10, Zenon DEF On
    <2>2. On(Back(t, n), x) = Back(t, n - x)  BY <1>5, <1>8, <1>9, OnBack
    <2>3. n - x \in Places /\ n - x <= n  BY <1>4, <1>5, <1>8, <1>9 DEF Places
    <2> QED  BY <2>1, <2>2, <2>3
  <1>14. Used' = n - x
    <2>1. Back(t, Back(t, n - x)) = n - x  BY <1>13, BackBack
    <2> QED  BY <1>3, <1>4, <1>13, <2>1, Zenon DEF Used
  <1>15. PICK s \in Seq(Frames) : s = Ahead(t, mem)[n - x]
    BY <1>2, <1>6, <1>9, <1>13, AheadType
  <1>16. Queue' = s  BY <1>3, <1>4, <1>14, <1>15, QueueNext, Zenon
  <1>17. Queue = <<f>> \o s
    <2>1. Needed(len) <= n  BY <1>8, <1>9
    <2>2. Ahead(t, mem)[n] = <<FrameOf(id, len)>> \o Ahead(t, mem)[n - Needed(len)]
      BY <1>2, <1>4, <1>9, <2>1, AheadFirst
    <2> QED  BY <1>4, <1>8, <1>11, <1>15, <2>2, QueueIs, Zenon
  <1>18. <<f>> \o s # <<>> /\ Head(<<f>> \o s) = f /\ Tail(<<f>> \o s) = s
    BY FirstAndRest
  <1> QED  BY <1>12, <1>16, <1>17, <1>18, Zenon DEF FQ!Get

\* Any step is one of the queue, of the ring filling up, or none.
LEMMA StepQueue ==
    ASSUME Inv, [Next]_vars
    PROVE  [FQ!Put \/ FQ!Get \/ FillsRing]_<<Queue, out>>
PROOF
  <1>1. ASSUME NEW id \in Ids, NEW len \in Lens, Accept(id, len) PROVE UNCHANGED <<Queue, out>>
    <2>1. UNCHANGED <<X_Head, X_Tail, mem, out>>  BY <1>1 DEF Accept
    <2> QED  BY <2>1, RestQueue
  <1>2. ASSUME NEW len \in Lens, Refuse(len) PROVE UNCHANGED <<Queue, out>>
    <2>1. UNCHANGED <<X_Head, X_Tail, mem, out>>  BY <1>2 DEF Refuse, vars
    <2> QED  BY <2>1, RestQueue
  <1>3. CASE Copy  BY <1>3, CopyQueue
  <1>4. CASE Publish  BY <1>4, PublishQueue
  <1>5. CASE MacSend  BY <1>5, MacSendQueue
  <1>6. CASE UNCHANGED vars
    <2>1. UNCHANGED <<X_Head, X_Tail, mem, out>>  BY <1>6 DEF vars
    <2> QED  BY <2>1, RestQueue
  <1> QED  BY <1>1, <1>2, <1>3, <1>4, <1>5, <1>6, Zenon DEF Next

\* EthWriteFrame and the MAC are a queue of frames for every size of the ring
\* and all lengths of frames: each frame answered with ERR_OK leaves whole, once
\* and in order, unless one takes the very last word and the ring looks empty.
THEOREM QueueUnlessFullHolds == Spec => QueueUnlessFull
PROOF
  <1>1. Init => FQ!Init  BY InitQueue
  <1>2. Inv /\ [Next]_vars => [FQ!Put \/ FQ!Get \/ FillsRing]_<<Queue, out>>
    BY StepQueue
  <1> QED  BY <1>1, <1>2, InvHolds, PTL DEF Spec, QueueUnlessFull

\* No frames of the lengths in use can add up to the whole ring: a set of sums
\* that has nothing, with each sum all that are one frame longer, and not Ring.
NoExactFill ==
    \E sums \in SUBSET Nat :
        /\ 0 \in sums /\ Ring \notin sums
        /\ \A k \in sums, len \in Lens : k + Needed(len) \in sums

\* So it is while the device sends nothing but its own datagrams: 68 bytes with
\* the three headers, 19 words of a ring of 1024.
LEMMA OwnDatagramsNoExactFill ==
    ASSUME Ring = 1024, Lens = {68}
    PROVE  NoExactFill
PROOF
  <1> DEFINE sums == {k \in Nat : \E i \in Nat : k = 19 * i}
  <1>1. 0 \in sums
    <2>1. 0 = 19 * 0 /\ 0 \in Nat  OBVIOUS
    <2> QED  BY <2>1
  <1>2. Ring \notin sums  OBVIOUS
  <1>3. ASSUME NEW k \in sums PROVE k + 19 \in sums
    <2>1. PICK i \in Nat : k = 19 * i  OBVIOUS
    <2>2. k + 19 = 19 * (i + 1) /\ i + 1 \in Nat /\ k + 19 \in Nat  BY <2>1
    <2> QED  BY <2>2
  <1>4. Needed(68) = 19  BY DEF Needed, Words
  <1>5. sums \in SUBSET Nat  OBVIOUS
  <1> HIDE DEF sums
  <1>6. \A k \in sums, len \in Lens : k + Needed(len) \in sums  BY <1>3, <1>4
  <1> QED  BY <1>1, <1>2, <1>5, <1>6, Zenon DEF NoExactFill

\* Then the pointers never meet over a full ring.
LEMMA NeverFills ==
    ASSUME NoExactFill, Inv, Publish
    PROVE  dst # X_Head
PROOF
  <1>1. SUFFICES ASSUME dst = X_Head PROVE FALSE  OBVIOUS
  <1>2. PICK sums \in SUBSET Nat :
           /\ 0 \in sums /\ Ring \notin sums
           /\ \A k \in sums, len \in Lens : k + Needed(len) \in sums
    BY Zenon DEF NoExactFill
  <1>3. TypeOK /\ Chained /\ Written /\ Room  BY Zenon DEF Inv, Publish
  <1>4. X_Tail \in Places /\ X_Head \in Places /\ head \in Places  BY <1>3, TypeParts, Zenon
  <1>5. PICK id \in Ids, len \in Lens : frame = FrameOf(id, len) /\ dst = On(X_Tail, Needed(len))
    BY <1>3, Zenon DEF Written
  <1>6. PICK t \in Places, n \in Places, x \in Nat :
           t = X_Tail /\ n = Used /\ x = Needed(len) /\ x > 0 /\ Back(t, n) = X_Head
    BY <1>4, UsedValue, WordsValue
  <1>7. n \in Nat /\ n < Ring /\ n + x <= Ring /\ Ring \in Nat
    <2>1. frame.len = len  BY <1>5 DEF FrameOf
    <2>2. Used <= Back(X_Tail, head) /\ Needed(len) + Back(X_Tail, head) <= Ring
      BY <1>3, <2>1, Zenon DEF Room
    <2>3. Back(X_Tail, head) \in Places  BY <1>4, BackBack
    <2> QED  BY <1>6, <2>2, <2>3, RingSize DEF Places
  <1>8. n + x = Ring
    <2>1. Back(t, n) = On(t, x)  BY <1>1, <1>5, <1>6, Zenon
    <2>2. CASE n = 0
      <3>1. n <= Ring /\ n <= t /\ t - n = t  BY <1>7, <2>2 DEF Places
      <3>2. Back(t, n) = t  BY <1>7, <3>1, BackValue
      <3>3. x <= Ring /\ t \in Nat /\ t < Ring  BY <1>7 DEF Places
      <3>4. t = IF t + x < Ring THEN t + x ELSE t + x - Ring  BY <2>1, <3>2, <3>3, OnValue
      <3> QED  BY <1>6, <1>7, <2>2, <3>3, <3>4
    <2>3. CASE n # 0
      <3>1. n \in 0..Ring /\ Ring - n \in Places  BY <1>7, <2>3 DEF Places
      <3>2. Back(t, n) = On(t, Ring - n)  BY <3>1, BackIsOn
      <3>3. x \in Places  BY <1>7, <2>3 DEF Places
      <3>4. Ring - n = x  BY <2>1, <3>1, <3>2, <3>3, OnDistinct
      <3> QED  BY <1>7, <3>4
    <2> QED  BY <2>2, <2>3
  <1>9. n \in sums
    <2>1. PICK b, c : Chain(t, mem, n, b, c, owed)  BY <1>3, <1>6, Zenon DEF Chained
    <2>2. ASSUME NEW k \in b, NEW i \in Ids, NEW l \in Lens,
                 k # 0 /\ k <= n /\ Link(t, mem, b, c, k, i, l) /\ k - Needed(l) \in sums
          PROVE  k \in sums
      <3>1. k \in Nat /\ Needed(l) \in Nat  BY <2>1, WordsValue, Zenon DEF Chain
      <3>2. (k - Needed(l)) + Needed(l) = k  BY <3>1
      <3> QED  BY <1>2, <2>2, <3>2
    <2>3. \A k \in b : k <= n => k \in sums  BY <1>2, <1>7, <2>1, <2>2, ChainInduction
    <2>4. n \in b /\ n <= n  BY <1>7, <2>1 DEF Chain
    <2> QED  BY <2>3, <2>4, Zenon
  <1> QED  BY <1>2, <1>6, <1>8, <1>9

\* Where frames cannot add up to the ring, as in the device while it sends its
\* own datagrams only (19 words each, 1024 in the ring), nothing is lost: the
\* driver implements the queue (ethernetif.c:267-333).  With ARP and HTTP frames
\* in the ring the hypothesis fails, and QueueUnlessFullHolds is what remains.
THEOREM WholeOnceInOrder == ASSUME NoExactFill PROVE Spec => FQ!Safe
PROOF
  <1>1. Init => FQ!Init  BY InitQueue
  <1>2. Inv /\ [Next]_vars => [FQ!Put \/ FQ!Get]_<<Queue, out>>
    <2> SUFFICES ASSUME Inv, [Next]_vars PROVE [FQ!Put \/ FQ!Get]_<<Queue, out>>
      OBVIOUS
    <2>1. [FQ!Put \/ FQ!Get \/ FillsRing]_<<Queue, out>>  BY StepQueue
    <2>2. ~FillsRing
      <3>1. FillsRing => Publish /\ dst = X_Head  BY DEF FillsRing
      <3> QED  BY <3>1, NeverFills
    <2> QED  BY <2>1, <2>2
  <1> QED  BY <1>1, <1>2, InvHolds, PTL DEF Spec, FQ!Safe
=============================================================================
