--------------------------- MODULE RegistryProofs ---------------------------
(***************************************************************************)
(* The safety properties of Registry, for every world of systems, length   *)
(* of chain, number of probes and number of faults.                        *)
(*                                                                         *)
(* The first part is arithmetic: the heights evenly_spaced_probes rounds   *)
(* stay in the range, and two neighbours are at most Spacing apart, so     *)
(* that many blocks in a row have a probe among them (ProbesAre).  The     *)
(* second says what extend, from_snapshot_rows and one upsert do to true   *)
(* ranges.  The inductive invariant IInv then says, besides the types and  *)
(* the flow of a process: every entry and row is true (Seens); once the    *)
(* stored rows are joined the registry includes the table (Covers); what   *)
(* is not waiting to be written is written (Saves); the systems stored at  *)
(* boot are in the decoder's index (Boot); and what a probe of the         *)
(* backfill found is held (Probing).                                       *)
(***************************************************************************)
EXTENDS Registry, WellFoundedInduction, TLAPS

-----------------------------------------------------------------------------
(* The heights of the probes                                               *)

LEMMA Remainder ==
    ASSUME NEW p \in Nat, NEW q \in Nat, q > 0
    PROVE  p % q = p - q * (p \div q)
BY SMTT(60)

LEMMA Quotient ==
    ASSUME NEW p \in Nat, NEW q \in Nat, q > 0
    PROVE  p \div q \in Nat /\ p % q \in Nat /\ p % q < q
OBVIOUS

LEMMA Product ==
    ASSUME NEW q \in Nat, NEW d \in Nat
    PROVE  q * d \in Nat /\ q * (d + 1) = q * d + q
OBVIOUS

(* Rounding moves a quotient by half of the divisor at most.               *)
LEMMA Rounding ==
    ASSUME NEW p \in Nat, NEW q \in Nat, q > 0
    PROVE  LET r == RoundHalfEven(p, q) IN
           /\ r \in Nat
           /\ 2 * (q * r) <= 2 * p + q
           /\ 2 * p <= 2 * (q * r) + q
           /\ p % q = 0 => q * r = p
<1> DEFINE d == p \div q
           m == p % q
           r == RoundHalfEven(p, q)
           x == q * d
<1>1. m = p - x /\ d \in Nat /\ m \in Nat /\ m < q
  BY Remainder, Quotient
<1>2. /\ r \in {d, d + 1}
      /\ r = d => 2 * m <= q
      /\ r = d + 1 => 2 * m >= q
  BY <1>1 DEF RoundHalfEven
<1>3. q * (d + 1) = x + q /\ x \in Nat
  BY <1>1, Product
<1>4. q * r = IF r = d THEN x ELSE x + q
  BY <1>2, <1>3
<1> HIDE DEF d, m, r, x
<1>5. /\ 2 * (q * r) <= 2 * p + q
      /\ 2 * p <= 2 * (q * r) + q
      /\ m = 0 => q * r = p
  <2> DEFINE y == q * r
  <2>1. y = IF r = d THEN x ELSE x + q
    BY <1>4
  <2> HIDE DEF y
  <2>2. /\ 2 * y <= 2 * p + q
        /\ 2 * p <= 2 * y + q
        /\ m = 0 => y = p
    BY <1>1, <1>2, <1>3, <2>1
  <2> QED BY <2>2 DEF y
<1>6. r \in Nat
  BY <1>1, <1>2
<1> QED BY <1>5, <1>6 DEF r, m

LEMMA Ordered ==
    ASSUME NEW q \in Nat, q > 0, NEW a \in Nat, NEW b \in Nat
    PROVE  /\ a <= b <=> q * a <= q * b
           /\ a = b <=> q * a = q * b
<1>1. ASSUME NEW c \in Nat, NEW d \in Nat, c <= d
      PROVE  q * c <= q * d
  BY <1>1
<1>2. ASSUME NEW c \in Nat, NEW d \in Nat, c < d
      PROVE  q * c < q * d
  <2>1. q * (c + 1) <= q * d
    BY <1>1, <1>2
  <2> QED BY <2>1, Product
<1>3. q * a \in Nat /\ q * b \in Nat
  BY Product
<1> DEFINE x == q * a
           y == q * b
<1>4. /\ a <= b => x <= y
      /\ b <= a => y <= x
      /\ a < b => x < y
      /\ b < a => y < x
  BY <1>1, <1>2
<1>5. x \in Nat /\ y \in Nat
  BY <1>3
<1> HIDE DEF x, y
<1>6. (a <= b <=> x <= y) /\ (a = b <=> x = y)
  BY <1>4, <1>5
<1> QED BY <1>6 DEF x, y

LEMMA Whole ==
    ASSUME NEW q \in Nat, q > 0, NEW n \in Nat
    PROVE  (q * n) % q = 0
<1> DEFINE x == q * n
           d == x \div q
           m == x % q
           y == q * d
<1>1. x \in Nat
  BY Product
<1>2. d \in Nat /\ m \in Nat /\ m < q
  BY <1>1, Quotient
<1>3. m = x - y
  BY <1>1, Remainder
<1>4. y \in Nat /\ q * (d + 1) = y + q
  BY <1>2, Product
<1>5. /\ d <= n <=> y <= x
      /\ d + 1 <= n <=> q * (d + 1) <= x
      /\ d = n => y = x
  BY <1>2, Ordered
<1>6. d + 1 <= n <=> y + q <= x
  BY <1>4, <1>5
<1> HIDE DEF x, d, m, y
<1>7. m = 0
  BY <1>1, <1>2, <1>3, <1>4, <1>5, <1>6
<1> QED BY <1>7 DEF m, x

(* The heights before they are rounded, times q.                           *)
Exact(start, end, q, i) == start * q + i * (end - start)

SpacingOf(start, end, q) == (end - start + q - 1) \div q

LEMMA SpacingIs ==
    ASSUME NEW start \in Nat, NEW end \in Nat, start < end, NEW q \in Nat, q > 0
    PROVE  LET w == SpacingOf(start, end, q) IN
           w \in Nat /\ w >= 1 /\ end - start <= q * w
<1> DEFINE p == end - start + q - 1
           w == p \div q
           x == q * w
<1>1. p \in Nat /\ p >= q
  OBVIOUS
<1>2. w \in Nat /\ p % q = p - x /\ p % q < q /\ p % q \in Nat
  BY <1>1, Quotient, Remainder
<1>3. x \in Nat /\ end - start <= x
  <2>1. x \in Nat
    BY <1>2, Product
  <2> HIDE DEF x, w
  <2> QED BY <1>1, <1>2, <2>1
<1>4. w >= 1
  <2>1. w = 0 => x = 0
    OBVIOUS
  <2> HIDE DEF x, w, p
  <2>2. x # 0
    BY <1>3
  <2> QED BY <1>2, <2>1, <2>2
<1> QED BY <1>2, <1>3, <1>4 DEF SpacingOf

LEMMA SpacedIs ==
    ASSUME NEW start \in Nat, NEW end \in Nat, start < end, NEW q \in Nat, q > 0,
           NEW i \in 0 .. q
    PROVE  LET h == Spaced(start, end, q + 1, i)
               p == Exact(start, end, q, i)
           IN /\ h \in Nat /\ p \in Nat
              /\ 2 * (q * h) <= 2 * p + q
              /\ 2 * p <= 2 * (q * h) + q
              /\ end - start = q * SpacingOf(start, end, q) => q * h = p
<1> DEFINE d == end - start
           h == Spaced(start, end, q + 1, i)
           p == Exact(start, end, q, i)
           w == SpacingOf(start, end, q)
<1>1. d \in Nat /\ i \in Nat /\ q + 1 - 1 = q
  OBVIOUS
<1>2. p = start * q + i * d /\ p \in Nat
  <2>1. start * q \in Nat /\ i * d \in Nat
    BY <1>1, Product
  <2> HIDE DEF d
  <2> QED BY <2>1 DEF Exact, d
<1>3. CASE i = 0
  <2>1. h = start
    BY <1>3 DEF Spaced
  <2>2. i * d = 0
    BY <1>1, <1>3
  <2>3. p = q * start
    BY <1>2, <2>2
  <2>4. q * h = p /\ q * h \in Nat
    BY <2>1, <2>3, Product
  <2> HIDE DEF h, p
  <2> QED BY <1>2, <2>1, <2>4 DEF h, p
<1>4. CASE i = q
  <2>1. h = end
    BY <1>1, <1>4 DEF Spaced
  <2>2. start * q + q * (end - start) = q * end
    OBVIOUS
  <2>3. p = q * end
    BY <1>2, <1>4, <2>2
  <2>4. q * h = p /\ q * h \in Nat
    BY <2>1, <2>3, Product
  <2> HIDE DEF h, p
  <2> QED BY <1>2, <2>1, <2>4 DEF h, p
<1>5. CASE i # 0 /\ i # q
  <2>1. h = RoundHalfEven(p, q)
    BY <1>1, <1>2, <1>5 DEF Spaced
  <2>2. /\ h \in Nat
        /\ 2 * (q * h) <= 2 * p + q
        /\ 2 * p <= 2 * (q * h) + q
        /\ p % q = 0 => q * h = p
    BY <1>2, <2>1, Rounding
  <2>3. ASSUME d = q * w
        PROVE  p % q = 0
    <3>1. w \in Nat
      BY SpacingIs
    <3>2. i * d = q * (i * w)
      BY <1>1, <2>3, <3>1
    <3>3. i * w \in Nat
      BY <1>1, <3>1, Product
    <3>4. p = q * (start + i * w)
      BY <1>2, <3>2, <3>3
    <3> QED BY <3>3, <3>4, Whole
  <2> QED BY <1>2, <2>2, <2>3
<1> QED BY <1>3, <1>4, <1>5

LEMMA SpacedWithin ==
    ASSUME NEW start \in Nat, NEW end \in Nat, start < end, NEW q \in Nat, q > 0,
           NEW i \in 0 .. q
    PROVE  Spaced(start, end, q + 1, i) \in start .. end
<1> DEFINE d == end - start
           h == Spaced(start, end, q + 1, i)
           p == Exact(start, end, q, i)
           x == q * h
           a == q * start
           b == q * end
<1>1. /\ h \in Nat /\ p \in Nat
      /\ 2 * x <= 2 * p + q
      /\ 2 * p <= 2 * x + q
  BY SpacedIs
<1>2. a \in Nat /\ b \in Nat /\ x \in Nat
  BY <1>1, Product
<1>3. a <= p /\ p <= b
  <2>1. i \in Nat /\ d \in Nat
    OBVIOUS
  <2>2. i * d \in Nat /\ q * d \in Nat /\ i * d = d * i /\ q * d = d * q
    BY <2>1, Product
  <2>3. i * d <= q * d
    BY <2>1, <2>2, Ordered
  <2>4. b = a + q * d
    OBVIOUS
  <2>5. p = a + i * d
    BY DEF Exact
  <2> DEFINE y == i * d
             z == q * d
  <2>6. y \in Nat /\ z \in Nat /\ y <= z /\ b = a + z /\ p = a + y
    BY <2>2, <2>3, <2>4, <2>5
  <2> HIDE DEF y, z, a, b, p
  <2> QED BY <1>2, <2>6
<1>4. start <= h
  <2>1. h + 1 <= start <=> q * (h + 1) <= a
    BY <1>1, Ordered
  <2>2. q * (h + 1) = x + q
    BY <1>1, Product
  <2>3. h + 1 <= start <=> x + q <= a
    BY <2>1, <2>2
  <2> HIDE DEF h, p, x, a, b
  <2> QED BY <1>1, <1>2, <1>3, <2>3
<1>5. h <= end
  <2>1. end + 1 <= h <=> q * (end + 1) <= x
    BY <1>1, Ordered
  <2>2. q * (end + 1) = b + q
    BY Product
  <2>3. end + 1 <= h <=> b + q <= x
    BY <2>1, <2>2
  <2> HIDE DEF h, p, x, a, b
  <2> QED BY <1>1, <1>2, <1>3, <2>3
<1> QED BY <1>1, <1>4, <1>5

(* Two neighbouring probes are at most the spacing apart.                  *)
LEMMA SpacedApart ==
    ASSUME NEW start \in Nat, NEW end \in Nat, start < end, NEW q \in Nat, q > 0,
           NEW i \in 0 .. q, i + 1 <= q
    PROVE  Spaced(start, end, q + 1, i + 1)
             <= Spaced(start, end, q + 1, i) + SpacingOf(start, end, q)
<1> DEFINE d  == end - start
           g  == Spaced(start, end, q + 1, i)
           h  == Spaced(start, end, q + 1, i + 1)
           pg == Exact(start, end, q, i)
           ph == Exact(start, end, q, i + 1)
           w  == SpacingOf(start, end, q)
           xg == q * g
           xh == q * h
           xw == q * w
<1>1. /\ g \in Nat /\ pg \in Nat
      /\ 2 * pg <= 2 * xg + q
      /\ d = xw => xg = pg
  BY SpacedIs
<1>2. /\ h \in Nat /\ ph \in Nat
      /\ 2 * xh <= 2 * ph + q
      /\ d = xw => xh = ph
  <2>1. i + 1 \in 0 .. q
    OBVIOUS
  <2> QED BY <2>1, SpacedIs
<1>3. w \in Nat /\ d <= xw /\ d \in Nat
  BY SpacingIs
<1>4. xg \in Nat /\ xh \in Nat /\ xw \in Nat
  BY <1>1, <1>2, <1>3, Product
<1>5. ph = pg + d
  <2>1. (i + 1) * (end - start) = i * (end - start) + (end - start)
    OBVIOUS
  <2>2. i * d \in Nat /\ start * q \in Nat
    BY <1>3, Product
  <2> DEFINE y == i * d
             z == start * q
  <2>3. pg = z + y /\ ph = z + (y + d) /\ y \in Nat /\ z \in Nat
    BY <2>1, <2>2 DEF Exact
  <2> HIDE DEF y, z, pg, ph, d
  <2> QED BY <1>3, <2>3
<1>6. q * (g + w) = xg + xw /\ q * (g + w + 1) = xg + xw + q
  <2>1. g \in Int /\ w \in Int
    BY <1>1, <1>3
  <2> HIDE DEF g, w
  <2> QED BY <2>1
<1>7. ASSUME d = xw
      PROVE  h <= g + w
  <2>1. h <= g + w <=> q * h <= q * (g + w)
    BY <1>1, <1>2, <1>3, Ordered
  <2>2. h <= g + w <=> xh <= xg + xw
    BY <1>6, <2>1
  <2> HIDE DEF d, g, h, pg, ph, w, xg, xh, xw
  <2> QED BY <1>1, <1>2, <1>3, <1>4, <1>5, <1>7, <2>2
<1>8. ASSUME d < xw
      PROVE  h <= g + w
  <2>1. g + w + 1 <= h <=> q * (g + w + 1) <= q * h
    BY <1>1, <1>2, <1>3, Ordered
  <2>2. g + w + 1 <= h <=> xg + xw + q <= xh
    BY <1>6, <2>1
  <2> HIDE DEF d, g, h, pg, ph, w, xg, xh, xw
  <2> QED BY <1>1, <1>2, <1>3, <1>4, <1>5, <1>8, <2>2
<1>9. d = xw \/ d < xw
  <2> HIDE DEF d, xw
  <2> QED BY <1>3, <1>4
<1> QED BY <1>7, <1>8, <1>9
-----------------------------------------------------------------------------
(* What holds somewhere holds at a first place.                            *)
Below == {p \in Nat \X Nat : p[1] < p[2]}

LEMMA LeastElement ==
    ASSUME NEW S \in SUBSET Nat, S # {}
    PROVE  \E n \in S : \A m \in S : n <= m
<1>1. IsWellFoundedOn(Below, Nat)
  <2>1. OpToRel(<, Nat) = Below
    BY DEF OpToRel, Below
  <2> QED BY <2>1, NatLessThanWellFounded
<1>2. PICK n \in S : \A m \in S : ~(<<m, n>> \in Below)
  BY <1>1, WFMin
<1>3. ASSUME NEW m \in S PROVE n <= m
  <2>1. m \in Nat /\ n \in Nat
    OBVIOUS
  <2>2. m < n => <<m, n>> \in Below
    BY <2>1 DEF Below
  <2> QED BY <1>2, <2>1, <2>2
<1> QED BY <1>3

(* As many blocks of the range as the spacing have a probe among them.     *)
LEMMA ProbeAmong ==
    ASSUME NEW start \in Nat, NEW end \in Nat, start < end, NEW q \in Nat, q > 0,
           NEW lo \in start .. end, lo + SpacingOf(start, end, q) - 1 <= end
    PROVE  \E i \in 0 .. q : Spaced(start, end, q + 1, i) \in lo .. lo + SpacingOf(start, end, q) - 1
<1> DEFINE h(i) == Spaced(start, end, q + 1, i)
           w    == SpacingOf(start, end, q)
           S    == {i \in 0 .. q : h(i) >= lo}
<1>1. w \in Nat /\ w >= 1
  BY SpacingIs
<1>2. h(0) = start /\ h(q) = end
  BY DEF Spaced
<1>3. q \in S /\ S \in SUBSET Nat
  BY <1>2
<1>4. PICK i \in S : \A j \in S : i <= j
  BY <1>3, LeastElement
<1>5. i \in 0 .. q /\ h(i) >= lo /\ h(i) \in Nat
  BY <1>4, SpacedWithin
<1>6. CASE i = 0
  BY <1>1, <1>2, <1>5, <1>6
<1>7. CASE i # 0
  <2>1. i - 1 \in 0 .. q /\ i - 1 \notin S /\ i - 1 + 1 = i
    BY <1>4, <1>5, <1>7
  <2>2. h(i - 1) < lo /\ h(i - 1) \in Nat
    <3>1. h(i - 1) \in Nat
      BY <2>1, SpacedWithin
    <3> QED BY <2>1, <3>1
  <2>3. h(i) <= h(i - 1) + w
    BY <2>1, <1>5, SpacedApart
  <2> DEFINE x == h(i)
             y == h(i - 1)
  <2>4. x \in lo .. lo + w - 1
    <3> HIDE DEF h, w
    <3> QED BY <1>1, <1>5, <2>2, <2>3
  <2> QED BY <1>5, <2>4
<1> QED BY <1>6, <1>7

LEMMA LowestIs ==
    ASSUME NEW hs, hs # {}, hs = {None} \/ hs \subseteq Nat
    PROVE  Lowest(hs) \in hs
<1>1. \E h \in hs : \A g \in hs : g = h \/ h < g
  <2>1. CASE hs = {None}
    BY <2>1
  <2>2. CASE hs \in SUBSET Nat
    <3>1. PICK h \in hs : \A g \in hs : h <= g
      BY <2>2, LeastElement
    <3>2. \A g \in hs : g = h \/ h < g
      BY <2>2, <3>1
    <3> QED BY <3>2
  <2> QED BY <2>1, <2>2
<1> QED BY <1>1 DEF Lowest

LEMMA ProbesAre ==
    ASSUME NEW start \in Nat, NEW end \in Nat, start < end, NEW k \in Nat, k > 1
    PROVE  /\ EvenlySpaced(start, end, k) \subseteq start .. end
           /\ EvenlySpaced(start, end, k) # {}
           /\ \A lo \in start .. end :
                lo + SpacingOf(start, end, k - 1) - 1 <= end =>
                  \E h \in EvenlySpaced(start, end, k) : h \in lo .. lo + SpacingOf(start, end, k - 1) - 1
<1>1. EvenlySpaced(start, end, k) = {Spaced(start, end, k, i) : i \in 0 .. k - 1}
  BY DEF EvenlySpaced
<1>2. k - 1 \in Nat /\ k - 1 > 0 /\ k - 1 + 1 = k /\ 0 \in 0 .. k - 1
  OBVIOUS
<1>3. \A i \in 0 .. k - 1 : Spaced(start, end, k, i) \in start .. end
  BY <1>2, SpacedWithin
<1>4. ASSUME NEW lo \in start .. end, lo + SpacingOf(start, end, k - 1) - 1 <= end
      PROVE  \E i \in 0 .. k - 1 :
               Spaced(start, end, k, i) \in lo .. lo + SpacingOf(start, end, k - 1) - 1
  BY <1>2, <1>4, ProbeAmong
<1> QED BY <1>1, <1>2, <1>3, <1>4

-----------------------------------------------------------------------------
(* Seen ranges                                                             *)

(* An entry or a row of system s at address a. *)
True(s, a, e) == s \in System /\ a \in Deployments[s] /\ Truthful(s, a, e)

(* What f saw includes what e saw. *)
Within(e, f) == MinOpt(f.first, e.first) = f.first /\ MaxOpt(f.last, e.last) = f.last

Chain ==
    /\ chain \in Seq([System -> Address \cup {None}]) /\ head \in Height
    /\ \A h \in 1 .. head, s \in System : chain[h][s] \in Deployments[s] \cup {None}

LEMMA WidenIs ==
    ASSUME NEW s, NEW a, Chain, NEW e \in Entry \cup Row, NEW f \in Entry \cup Row,
           Truthful(s, a, e), Truthful(s, a, f)
    PROVE  /\ Truthful(s, a, Widen(e, f))
           /\ Widen(e, f).first = MinOpt(e.first, f.first)
           /\ Widen(e, f).last = MaxOpt(e.last, f.last)
           /\ e \in Entry => Widen(e, f) \in Entry /\ Widen(e, f).sid = e.sid
           /\ e \in Row => Widen(e, f) \in Row
           /\ Within(e, Widen(e, f)) /\ Within(f, Widen(e, f))
<1>1. head \in Nat /\ None \notin Nat /\ head <= MaxHeight /\ MaxHeight \in Nat
  BY RegistryAssumption DEF Chain, Height
<1>2. /\ e.first \in Seen /\ e.last \in Seen /\ f.first \in Seen /\ f.last \in Seen
  BY DEF Entry, Row
<1> DEFINE first == MinOpt(e.first, f.first)
           last  == MaxOpt(e.last, f.last)
           new   == Widen(e, f)
<1>3. /\ first \in Seen /\ last \in Seen /\ first \in {e.first, f.first} /\ last \in {e.last, f.last}
      /\ first = None <=> e.first = None /\ f.first = None
      /\ last = None <=> e.last = None /\ f.last = None
      /\ first # None /\ e.first # None => first <= e.first
      /\ first # None /\ f.first # None => first <= f.first
      /\ last # None /\ e.last # None => last >= e.last
      /\ last # None /\ f.last # None => last >= f.last
  BY <1>1, <1>2 DEF MinOpt, MaxOpt, Seen, Height
<1>4. new = [e EXCEPT !.first = first, !.last = last]
  BY DEF Widen
<1>5. ASSUME e \in Entry
      PROVE  new \in Entry /\ new.sid = e.sid /\ new.first = first /\ new.last = last
  <2>1. e = [sid |-> e.sid, first |-> e.first, last |-> e.last] /\ e.sid \in System
    BY <1>5 DEF Entry
  <2> HIDE DEF first, last, new
  <2>2. new = [sid |-> e.sid, first |-> first, last |-> last]
    BY <1>4, <2>1
  <2> QED BY <1>3, <2>1, <2>2 DEF Entry
<1>6. ASSUME e \in Row
      PROVE  new \in Row /\ new.first = first /\ new.last = last
  <2>1. e = [first |-> e.first, last |-> e.last]
    BY <1>6 DEF Row
  <2> HIDE DEF first, last, new
  <2>2. new = [first |-> first, last |-> last]
    BY <1>4, <2>1
  <2> QED BY <1>3, <2>2 DEF Row
<1>7. new.first = first /\ new.last = last
  BY <1>5, <1>6
<1> HIDE DEF first, last, new
<1>8. Truthful(s, a, new)
  <2>1. CASE e.first = None
    <3>1. e.last = None
      BY <1>1, <2>1 DEF Truthful
    <3>2. first = f.first /\ last = f.last
      BY <2>1, <3>1 DEF MinOpt, MaxOpt, first, last
    <3> QED BY <1>7, <3>2 DEF Truthful
  <2>2. CASE f.first = None
    <3>1. f.last = None
      BY <1>1, <2>2 DEF Truthful
    <3>2. first = e.first /\ last = e.last
      BY <1>3, <2>2, <3>1
    <3> QED BY <1>7, <3>2 DEF Truthful
  <2>3. CASE e.first # None /\ f.first # None
    <3>1. /\ e.first \in 1 .. head /\ e.last \in e.first .. head
          /\ chain[e.first][s] = a /\ chain[e.last][s] = a
          /\ f.first \in 1 .. head /\ f.last \in f.first .. head
          /\ chain[f.first][s] = a /\ chain[f.last][s] = a
      BY <2>3 DEF Truthful
    <3>2. /\ first \in 1 .. head /\ last \in 1 .. head /\ first <= last
          /\ chain[first][s] = a /\ chain[last][s] = a
      BY <1>1, <1>3, <3>1
    <3> QED BY <1>1, <1>7, <3>2 DEF Truthful
  <2> QED BY <2>1, <2>2, <2>3
<1>9. Within(e, new) /\ Within(f, new)
  BY <1>1, <1>2, <1>3, <1>7 DEF Within, MinOpt, MaxOpt, Seen, Height
<1> QED BY <1>5, <1>6, <1>7, <1>8, <1>9 DEF first, last, new

-----------------------------------------------------------------------------
(* The inductive invariant                                                 *)

Registered(r) == \A a \in Known(r) : r[a] \in Entry /\ True(r[a].sid, a, r[a])

Table ==
    \A k \in DOMAIN snap : k = <<k[1], k[2]>> /\ snap[k] \in Row /\ True(k[1], k[2], snap[k])

Seens == Registered(reg) /\ Registered(fresh) /\ Table

Typed ==
    /\ pc \in RegistryPC /\ job \in {"service", "backfill"}
    /\ rows \subseteq Known(reg)
    /\ heights = {None} \/ heights \subseteq 1 .. head
    /\ todo \in Seq(System)
    /\ index \in {None} \cup SUBSET System
    /\ window \in Height \X Height /\ window[2] <= head
    /\ next \in 1 .. MaxHeight + 1
    /\ stored \subseteq Address /\ decoded \subseteq stored
    /\ failed \in BOOLEAN /\ faults \in 0 .. MaxFaults

Flow ==
    /\ pc = "resolve" => heights # {}
    /\ pc # "resolve" => heights = {}
    /\ pc = "upsert" \/ rows = {}
    /\ pc = "down" => job = "service"
    /\ pc \in {"down", "prior"} => index = None
    /\ pc = "loop" => index # None
    /\ pc = "resolve" /\ index # None => heights = {None} /\ job = "service"
    /\ None \in heights => \A a \in Known(fresh) : fresh[a].first = None /\ fresh[a].last = None

(* Once the prior rows are joined, the registry has whatever is stored.    *)
Joined == pc \in {"upsert", "loop"} \/ index # None

Covers ==
    Joined => \A k \in DOMAIN snap : k[2] \in Known(reg) /\ Within(snap[k], reg[k[2]])

Saved(a) ==
    LET k == <<reg[a].sid, a>>
    IN k \in DOMAIN snap /\ snap[k] = [first |-> reg[a].first, last |-> reg[a].last]

Saves == Joined /\ ~failed => \A a \in Known(reg) \ rows : Saved(a)

Boot ==
    /\ \A s \in atBoot : \E k \in DOMAIN snap : k[1] = s
    /\ index # None => atBoot \subseteq index

Among(s, q) == \E i \in DOMAIN q : q[i] = s

Probed ==
    IF window[1] < window[2] /\ Probes > 1
    THEN EvenlySpaced(window[1], window[2], Probes) ELSE {}

(* What a probe found is in the registry; what the probe in progress found *)
(* is in fresh.                                                            *)
Probing ==
    /\ job = "backfill" =>
         \A h \in Probed \ heights, s \in System :
            Among(s, SystemOrder) => chain[h][s] \in Known(reg) \cup {None}
    /\ pc = "resolve" =>
         LET h == Lowest(heights) IN
         h # None =>
            \A s \in System :
               Among(s, SystemOrder) => Among(s, todo) \/ chain[h][s] \in Known(fresh) \cup {None}

IInv == Chain /\ Seens /\ Typed /\ Flow /\ Covers /\ Saves /\ Boot /\ Probing

-----------------------------------------------------------------------------
(* The operators on registries and rows                                    *)

LEMMA Located ==
    /\ \A s \in System : Deployments[s] \subseteq Address
    /\ \A s, t \in System, a \in Address :
          a \in Deployments[s] /\ a \in Deployments[t] => s = t
BY OneSystemPerAddress DEF Address

LEMMA TrueIs ==
    /\ \A s, t, a, e, f : True(s, a, e) /\ True(t, a, f) => s = t
    /\ \A s, a, e : True(s, a, e) => s \in System /\ a \in Address /\ Truthful(s, a, e)
BY Located DEF True

(* Two views that include each other are the same.                         *)
LEMMA Views ==
    /\ \A x \in Seen : MinOpt(x, x) = x /\ MaxOpt(x, x) = x
    /\ \A x \in Seen : MinOpt(x, None) = x /\ MaxOpt(x, None) = x
    /\ \A x, y \in Seen : MinOpt(x, y) = MinOpt(y, x) /\ MaxOpt(x, y) = MaxOpt(y, x)
    /\ \A x, y \in Seen : MinOpt(x, y) = x /\ y # None => x # None /\ x <= y
    /\ \A x, y \in Seen : MaxOpt(x, y) = x /\ y # None => x # None /\ x >= y
BY RegistryAssumption DEF MinOpt, MaxOpt, Seen, Height

LEMMA ExtendIs ==
    ASSUME Chain, NEW r, NEW o, Registered(r), Registered(o)
    PROVE  LET x == Extend(r, o) IN
           /\ Known(x) = Known(r) \cup Known(o)
           /\ Registered(x)
           /\ \A a \in Known(r) : x[a].sid = r[a].sid /\ Within(r[a], x[a])
           /\ \A a \in Known(o) : x[a].sid = o[a].sid /\ Within(o[a], x[a])
           /\ \A a \in Known(r) :
                a \notin Known(o) \/ (o[a].first = None /\ o[a].last = None) =>
                  x[a].first = r[a].first /\ x[a].last = r[a].last
<1> DEFINE x == Extend(r, o)
<1>1. Known(x) = Known(r) \cup Known(o)
  BY DEF Known, Extend
<1>2. \A a \in Known(x) : x[a] = IF a \notin Known(r) THEN o[a]
                                 ELSE IF a \notin Known(o) THEN r[a] ELSE Widen(r[a], o[a])
  BY <1>1 DEF Extend
<1>3. ASSUME NEW a \in Known(r) \cup Known(o)
      PROVE  /\ x[a] \in Entry /\ True(x[a].sid, a, x[a])
             /\ a \in Known(r) => x[a].sid = r[a].sid /\ Within(r[a], x[a])
             /\ a \in Known(o) => x[a].sid = o[a].sid /\ Within(o[a], x[a])
             /\ a \in Known(r) /\ (a \notin Known(o) \/ (o[a].first = None /\ o[a].last = None)) =>
                  x[a].first = r[a].first /\ x[a].last = r[a].last
  <2>1. \A e \in Entry : Within(e, e) /\ e.first \in Seen /\ e.last \in Seen
    BY Views DEF Within, Entry
  <2>2. CASE a \notin Known(r)
    <3>1. x[a] = o[a] /\ o[a] \in Entry /\ True(o[a].sid, a, o[a])
      BY <1>1, <1>2, <2>2 DEF Registered
    <3> QED BY <2>1, <2>2, <3>1
  <2>3. CASE a \in Known(r) /\ a \notin Known(o)
    <3>1. x[a] = r[a] /\ r[a] \in Entry /\ True(r[a].sid, a, r[a])
      BY <1>1, <1>2, <2>3 DEF Registered
    <3> QED BY <2>1, <2>3, <3>1
  <2>4. CASE a \in Known(r) /\ a \in Known(o)
    <3>1. /\ r[a] \in Entry /\ True(r[a].sid, a, r[a])
          /\ o[a] \in Entry /\ True(o[a].sid, a, o[a])
      BY <2>4 DEF Registered
    <3>2. r[a].sid = o[a].sid
      BY <3>1, TrueIs
    <3>3. Truthful(r[a].sid, a, r[a]) /\ Truthful(r[a].sid, a, o[a])
      BY <3>1, <3>2, TrueIs
    <3> DEFINE w == Widen(r[a], o[a])
    <3>4. /\ Truthful(r[a].sid, a, w)
          /\ w \in Entry /\ w.sid = r[a].sid
          /\ w.first = MinOpt(r[a].first, o[a].first)
          /\ w.last = MaxOpt(r[a].last, o[a].last)
          /\ Within(r[a], w) /\ Within(o[a], w)
      BY <3>1, <3>3, WidenIs
    <3>5. x[a] = w
      BY <1>1, <1>2, <2>4
    <3>6. True(w.sid, a, w)
      BY <3>1, <3>4 DEF True
    <3> HIDE DEF w, x
    <3>7. o[a].first = None /\ o[a].last = None => w.first = r[a].first /\ w.last = r[a].last
      BY <2>1, <3>1, <3>4, Views
    <3> QED BY <2>4, <3>2, <3>4, <3>5, <3>6, <3>7
  <2> QED BY <2>2, <2>3, <2>4
<1> HIDE DEF x
<1>4. Registered(x)
  BY <1>1, <1>3 DEF Registered
<1>5. /\ Known(x) = Known(r) \cup Known(o)
      /\ Registered(x)
      /\ \A a \in Known(r) : x[a].sid = r[a].sid /\ Within(r[a], x[a])
      /\ \A a \in Known(o) : x[a].sid = o[a].sid /\ Within(o[a], x[a])
      /\ \A a \in Known(r) :
           a \notin Known(o) \/ (o[a].first = None /\ o[a].last = None) =>
             x[a].first = r[a].first /\ x[a].last = r[a].last
  BY <1>1, <1>3, <1>4
<1> QED BY <1>5 DEF x

LEMMA FromRowsIs ==
    ASSUME Chain, Table, NEW prior \in FromRows
    PROVE  /\ Registered(prior)
           /\ \A k \in DOMAIN snap :
                /\ k[2] \in Known(prior)
                /\ prior[k[2]].sid = k[1]
                /\ prior[k[2]].first = snap[k].first /\ prior[k[2]].last = snap[k].last
<1> DEFINE held == {k[2] : k \in DOMAIN snap}
           last == {p \in [held -> System] : \A a \in held : <<p[a], a>> \in DOMAIN snap}
<1>1. PICK p \in last :
         prior = [a \in held |-> [sid   |-> p[a],
                                  first |-> snap[<<p[a], a>>].first,
                                  last  |-> snap[<<p[a], a>>].last]]
  BY DEF FromRows
<1>2. Known(prior) = held
  BY <1>1 DEF Known
<1>3. ASSUME NEW a \in held
      PROVE  /\ <<p[a], a>> \in DOMAIN snap
             /\ prior[a] \in Entry /\ True(prior[a].sid, a, prior[a])
             /\ prior[a].sid = p[a]
             /\ prior[a].first = snap[<<p[a], a>>].first /\ prior[a].last = snap[<<p[a], a>>].last
  <2>1. <<p[a], a>> \in DOMAIN snap /\ p[a] \in System
    BY <1>1
  <2> DEFINE row == snap[<<p[a], a>>]
             e   == prior[a]
  <2>2. row \in Row /\ True(p[a], a, row)
    BY <2>1 DEF Table
  <2>3. e = [sid |-> p[a], first |-> row.first, last |-> row.last]
    BY <1>1
  <2> HIDE DEF row, e
  <2>4. e \in Entry /\ e.sid = p[a] /\ e.first = row.first /\ e.last = row.last
    BY <2>1, <2>2, <2>3 DEF Entry, Row
  <2>5. True(p[a], a, e)
    BY <2>2, <2>4 DEF True, Truthful
  <2> QED BY <2>1, <2>4, <2>5 DEF row, e
<1>4. ASSUME NEW k \in DOMAIN snap
      PROVE  /\ k[2] \in held
             /\ prior[k[2]].sid = k[1]
             /\ prior[k[2]].first = snap[k].first /\ prior[k[2]].last = snap[k].last
  <2>1. k[2] \in held /\ k = <<k[1], k[2]>> /\ True(k[1], k[2], snap[k])
    BY DEF Table
  <2>2. True(p[k[2]], k[2], prior[k[2]])
    BY <1>3, <2>1
  <2>3. p[k[2]] = k[1]
    <3> DEFINE a == k[2]
               s == k[1]
               e == prior[k[2]]
               f == snap[k]
    <3>1. True(p[a], a, e) /\ True(s, a, f)
      BY <2>1, <2>2
    <3> HIDE DEF a, s, e, f
    <3>2. p[a] = s
      BY <3>1, TrueIs
    <3> QED BY <3>2 DEF a, s
  <2> QED BY <1>3, <2>1, <2>3
<1> HIDE DEF held
<1> QED BY <1>2, <1>3, <1>4 DEF Registered

(* A row written has the range of the registry, if that includes its own.  *)
LEMMA UpsertIs ==
    ASSUME Chain, Table, Registered(reg), NEW a \in Known(reg),
           \A k \in DOMAIN snap : k[2] \in Known(reg) /\ Within(snap[k], reg[k[2]])
    PROVE  LET t == UpsertRow(snap, a, reg[a])
               k == <<reg[a].sid, a>>
           IN /\ DOMAIN t = DOMAIN snap \cup {k}
              /\ \A x \in DOMAIN snap : x # k => t[x] = snap[x]
              /\ t[k] = [first |-> reg[a].first, last |-> reg[a].last]
<1> DEFINE e   == reg[a]
           k   == <<e.sid, a>>
           new == [first |-> e.first, last |-> e.last]
           t   == UpsertRow(snap, a, e)
<1>1. e \in Entry /\ True(e.sid, a, e) /\ Truthful(e.sid, a, e)
  BY TrueIs DEF Registered
<1>2. /\ DOMAIN t = DOMAIN snap \cup {k}
      /\ \A x \in DOMAIN snap : x # k => t[x] = snap[x]
      /\ t[k] = IF k \notin DOMAIN snap THEN new ELSE Widen(snap[k], new)
  BY DEF UpsertRow
<1>3. ASSUME k \in DOMAIN snap
      PROVE  Widen(snap[k], new) = new
  <2> DEFINE old == snap[k]
             w   == Widen(old, new)
  <2>1. old \in Row /\ Truthful(e.sid, a, old) /\ Within(old, e)
    <3>1. k[1] = e.sid /\ k[2] = a
      OBVIOUS
    <3>2. True(k[1], k[2], snap[k]) /\ snap[k] \in Row
      BY <1>3 DEF Table
    <3> QED BY <1>3, <3>1, <3>2, TrueIs
  <2>2. new \in Row /\ new.first = e.first /\ new.last = e.last
    BY <1>1 DEF Entry, Row
  <2> HIDE DEF e, new, old
  <2>3. Truthful(e.sid, a, new)
    BY <1>1, <2>2 DEF Truthful
  <2>4. w \in Row /\ w.first = MinOpt(old.first, new.first) /\ w.last = MaxOpt(old.last, new.last)
    BY <2>1, <2>2, <2>3, WidenIs
  <2>5. w.first = e.first /\ w.last = e.last
    BY <2>1, <2>2, <2>4, Views DEF Within, Row
  <2> HIDE DEF w
  <2>6. w = new
    BY <2>2, <2>4, <2>5 DEF Row
  <2> QED BY <2>6 DEF w, old
<1> QED BY <1>2, <1>3

-----------------------------------------------------------------------------
(* Steps                                                                   *)

LEMMA Grown ==
    ASSUME Chain, [Next]_vars
    PROVE  /\ Chain'
           /\ head' \in Nat /\ head <= head' /\ head' <= MaxHeight
           /\ \A h \in 1 .. head : chain'[h] = chain[h]
<1>0. head \in Nat /\ head >= 1 /\ head <= MaxHeight /\ head = Len(chain) /\ MaxHeight \in Nat
  BY RegistryAssumption DEF Chain, Height, head
<1>1. CASE UNCHANGED chain
  BY <1>0, <1>1 DEF Chain, head
<1>2. CASE NewBlock
  <2>1. PICK s \in System :
          \E a \in Deployments[s] : chain' = Append(chain, [chain[head] EXCEPT ![s] = a])
    BY <1>2 DEF NewBlock
  <2>0. PICK a \in Deployments[s] : chain' = Append(chain, [chain[head] EXCEPT ![s] = a])
    BY <2>1
  <2> DEFINE b == [chain[head] EXCEPT ![s] = a]
  <2>2. chain[head] \in [System -> Address \cup {None}]
    BY <1>0 DEF Chain
  <2>3. b \in [System -> Address \cup {None}]
    BY <2>2, Located
  <2>4. \A t \in System : b[t] \in Deployments[t] \cup {None}
    BY <1>0, <2>2 DEF Chain
  <2>5. chain \in Seq([System -> Address \cup {None}])
    BY DEF Chain
  <2> HIDE DEF b
  <2>6. chain' \in Seq([System -> Address \cup {None}]) /\ Len(chain') = head + 1
    BY <1>0, <2>0, <2>3, <2>5 DEF b
  <2>7. \A h \in 1 .. head : chain'[h] = chain[h]
    BY <1>0, <2>0, <2>3, <2>5 DEF b
  <2>8. chain'[head + 1] = b
    BY <1>0, <2>0, <2>3, <2>5 DEF b
  <2>9. head' = head + 1 /\ head + 1 <= MaxHeight
    BY <1>0, <1>2, <2>6 DEF head, NewBlock
  <2>10. \A h \in 1 .. head', t \in System : chain'[h][t] \in Deployments[t] \cup {None}
    <3> SUFFICES ASSUME NEW h \in 1 .. head', NEW t \in System
                 PROVE  chain'[h][t] \in Deployments[t] \cup {None}
      OBVIOUS
    <3>1. h \in 1 .. head \/ h = head + 1
      BY <1>0, <2>9
    <3> QED BY <2>4, <2>7, <2>8, <3>1 DEF Chain
  <2>11. head' \in Height
    BY <1>0, <2>9 DEF Height
  <2>12. Chain'
    BY <2>6, <2>10, <2>11 DEF Chain
  <2> QED BY <1>0, <2>7, <2>9, <2>12
<1>3. UNCHANGED chain \/ NewBlock
  BY DEF Next, RegistryStep, StartService, StartBackfill, ResolveSystem, Resolved, JoinPrior,
         UpsertSnapshotRow, Upserted, BackfillEnds, Reprobe, ScanBlock, ReprobeRaises, Crash, vars
<1> QED BY <1>1, <1>2, <1>3

LEMMA StillTrue ==
    ASSUME Chain, [Next]_vars, NEW s, NEW a, NEW e, True(s, a, e)
    PROVE  True(s, a, e)'
<1>1. /\ head \in Nat /\ head' \in Nat /\ head <= head'
      /\ \A h \in 1 .. head : chain'[h] = chain[h]
  BY Grown, RegistryAssumption DEF Chain, Height
<1> QED BY <1>1 DEF True, Truthful

LEMMA Later ==
    ASSUME Chain, [Next]_vars
    PROVE  /\ \A r : Registered(r) => Registered(r)'
           /\ Table /\ UNCHANGED snap => Table'
<1>1. /\ head \in Nat /\ head' \in Nat /\ head <= head'
      /\ \A h \in 1 .. head : chain'[h] = chain[h]
  BY Grown, RegistryAssumption DEF Chain, Height
<1>2. \A s, a, e : True(s, a, e) => True(s, a, e)'
  BY <1>1 DEF True, Truthful
<1> QED BY <1>2 DEF Registered, Table, Known

LEMMA SameRegistry ==
    ASSUME Chain, [Next]_vars, Registered(reg), UNCHANGED reg
    PROVE  Registered(reg)'
BY Later DEF Registered, Known

LEMMA LowestSeen ==
    ASSUME Chain, Typed, heights # {}
    PROVE  /\ Lowest(heights) \in heights
           /\ Lowest(heights) = None \/ Lowest(heights) \in 1 .. head
           /\ Lowest(heights) \in Seen
           /\ Lowest(heights) = None <=> None \in heights
<1>1. head \in Nat /\ None \notin Nat /\ head <= MaxHeight /\ MaxHeight \in Nat
  BY RegistryAssumption DEF Chain, Height
<1>2. heights = {None} \/ heights \subseteq 1 .. head
  BY DEF Typed
<1>3. heights = {None} \/ heights \subseteq Nat
  BY <1>1, <1>2
<1>4. Lowest(heights) \in heights
  BY <1>3, LowestIs
<1> QED BY <1>1, <1>2, <1>4 DEF Seen, Height

(* What resolve_systems learns of one system is true.                      *)
LEMMA Asked ==
    ASSUME Chain, Registered(fresh), Typed, Flow, ResolveSystem
    PROVE  /\ Head(todo) \in System
           /\ Registered(fresh')
           /\ Known(fresh) \subseteq Known(fresh')
           /\ LET h == Lowest(heights)
                  a == chain[IF h = None THEN head ELSE h][Head(todo)]
              IN a \in Known(fresh') \cup {None}
           /\ None \in heights => \A a \in Known(fresh') \ Known(fresh) :
                                     fresh'[a].first = None /\ fresh'[a].last = None
           /\ \A a \in Known(fresh) : fresh'[a] = fresh[a]
<1> DEFINE s == Head(todo)
           h == Lowest(heights)
           a == chain[IF h = None THEN head ELSE h][s]
           e == [sid |-> s, first |-> h, last |-> h]
<1>1. /\ todo # << >> /\ pc = "resolve" /\ s \in System
      /\ fresh' = IF a = None \/ a \in Known(fresh) THEN fresh
                  ELSE [b \in Known(fresh) \cup {a} |-> IF b = a THEN e ELSE fresh[b]]
  BY DEF ResolveSystem, Typed
<1>2. /\ h = None \/ h \in 1 .. head
      /\ h \in Seen
      /\ h = None <=> None \in heights
  BY <1>1, LowestSeen DEF Flow
<1>3. head \in Nat /\ head >= 1 /\ None \notin Nat
  BY RegistryAssumption DEF Chain, Height
<1>4. a \in Deployments[s] \cup {None}
  BY <1>1, <1>2, <1>3 DEF Chain
<1>5. CASE a = None \/ a \in Known(fresh)
  BY <1>1, <1>5
<1>6. CASE a # None /\ a \notin Known(fresh)
  <2>1. e \in Entry /\ e.sid = s /\ e.first = h /\ e.last = h
    BY <1>1, <1>2 DEF Entry
  <2>2. h # None => chain[h][s] = a
    OBVIOUS
  <2>3. a \in Deployments[s]
    BY <1>4, <1>6
  <2>4. fresh' = [b \in Known(fresh) \cup {a} |-> IF b = a THEN e ELSE fresh[b]]
    BY <1>1, <1>6
  <2> HIDE DEF a, e, s, h
  <2>5. Truthful(s, a, e)
    BY <1>2, <1>3, <2>1, <2>2 DEF Truthful
  <2>6. True(e.sid, a, e)
    BY <1>1, <2>1, <2>3, <2>5 DEF True
  <2>7. /\ Known(fresh') = Known(fresh) \cup {a} /\ fresh'[a] = e
        /\ \A b \in Known(fresh) : fresh'[b] = fresh[b]
    BY <1>6, <2>4 DEF Known
  <2>8. Registered(fresh')
    BY <2>1, <2>6, <2>7 DEF Registered
  <2>9. None \in heights => \A b \in Known(fresh') \ Known(fresh) :
                               fresh'[b].first = None /\ fresh'[b].last = None
    BY <1>2, <2>1, <2>7
  <2> QED BY <1>1, <2>7, <2>8, <2>9 DEF a, s, h
<1> QED BY <1>5, <1>6

LEMMA EmptyIs == Known(Empty) = {} /\ Registered(Empty)
BY DEF Known, Empty, Registered

LEMMA SeensKept ==
    ASSUME Chain, Seens, Typed, Flow, Covers, [Next]_vars
    PROVE  Seens'
<1> USE DEF Seens
<1>1. CASE reg' = Empty /\ fresh' = Empty /\ UNCHANGED snap
  BY <1>1, EmptyIs, Later DEF Registered, Known
<1>2. CASE UNCHANGED <<reg, fresh, snap>>
  BY <1>2, Later DEF Registered, Known
<1>3. CASE ResolveSystem
  <2>1. PICK r : r = fresh' /\ Registered(r)
    BY <1>3, Asked
  <2>2. Registered(r)'
    BY <2>1, Later
  <2>3. Registered(fresh)'
    BY <2>1, <2>2 DEF Registered, Known
  <2>4. UNCHANGED <<reg, snap>>
    BY <1>3 DEF ResolveSystem
  <2> QED BY <2>3, <2>4, SameRegistry, Later
<1>4. CASE Resolved
  <2>1. reg' = Extend(reg, fresh) /\ fresh' = Empty /\ UNCHANGED snap
    BY <1>4 DEF Resolved
  <2>2. PICK r : r = reg' /\ Registered(r)
    BY <2>1, ExtendIs
  <2>3. Registered(r)'
    BY <2>2, Later
  <2>4. Registered(reg)'
    BY <2>2, <2>3 DEF Registered, Known
  <2>5. Registered(fresh)'
    BY <2>1, EmptyIs, Later DEF Registered, Known
  <2> QED BY <2>1, <2>4, <2>5, Later
<1>5. CASE JoinPrior
  <2>1. UNCHANGED <<snap, fresh>>
    BY <1>5 DEF JoinPrior, probeVars
  <2>2. PICK prior \in FromRows : reg' = Extend(reg, prior)
    BY <1>5 DEF JoinPrior
  <2>3. PICK r : r = reg' /\ Registered(r)
    BY <2>2, ExtendIs, FromRowsIs
  <2>4. Registered(r)'
    BY <2>3, Later
  <2>5. Registered(reg)'
    BY <2>3, <2>4 DEF Registered, Known
  <2>6. Registered(fresh)'
    BY <2>1, Later DEF Registered, Known
  <2> QED BY <2>1, <2>5, <2>6, Later
<1>6. CASE UpsertSnapshotRow
  <2>1. PICK a \in rows : snap' = UpsertRow(snap, a, reg[a])
    BY <1>6 DEF UpsertSnapshotRow
  <2>2. UNCHANGED <<reg, fresh, chain>> /\ pc = "upsert"
    BY <1>6 DEF UpsertSnapshotRow, probeVars
  <2>3. a \in Known(reg) /\ reg[a] \in Entry /\ True(reg[a].sid, a, reg[a])
    BY <2>1 DEF Typed, Registered
  <2> DEFINE k == <<reg[a].sid, a>>
             new == [first |-> reg[a].first, last |-> reg[a].last]
  <2>4. /\ DOMAIN snap' = DOMAIN snap \cup {k}
        /\ \A x \in DOMAIN snap : x # k => snap'[x] = snap[x]
        /\ snap'[k] = new
    BY <2>1, <2>2, <2>3, UpsertIs DEF Covers, Joined
  <2>5. new \in Row /\ new.first = reg[a].first /\ new.last = reg[a].last
    BY <2>3 DEF Entry, Row
  <2>6. k = <<k[1], k[2]>> /\ k[1] = reg[a].sid /\ k[2] = a
    OBVIOUS
  <2> HIDE DEF k, new
  <2>7. True(k[1], k[2], new)
    BY <2>3, <2>5, <2>6 DEF True, Truthful
  <2>8. \A x \in DOMAIN snap' :
          x = <<x[1], x[2]>> /\ snap'[x] \in Row /\ True(x[1], x[2], snap'[x])
    BY <2>4, <2>5, <2>6, <2>7 DEF Table
  <2>9. Table'
    BY <2>2, <2>8 DEF Table, True, Truthful, head
  <2> QED BY <2>2, <2>9, Later DEF Registered, Known
<1>7. CASE StartService \/ StartBackfill \/ BackfillEnds \/ Crash
  <2>1. reg' = Empty /\ fresh' = Empty /\ UNCHANGED snap
    BY <1>7 DEF StartService, StartBackfill, BackfillEnds, Crash, Start, Exit
  <2> QED BY <1>1, <2>1
<1>8. CASE ReprobeRaises \/ Reprobe
  <2>1. fresh' = Empty /\ UNCHANGED <<reg, snap>>
    BY <1>8 DEF ReprobeRaises, Reprobe
  <2> QED BY <2>1, EmptyIs, Later DEF Registered, Known
<1>9. CASE Upserted \/ ScanBlock \/ NewBlock \/ UNCHANGED vars
  BY <1>2, <1>9 DEF Upserted, ScanBlock, NewBlock, probeVars, vars
<1> QED BY <1>3, <1>4, <1>5, <1>6, <1>7, <1>8, <1>9 DEF Next, RegistryStep

LEMMA TypedKept ==
    ASSUME Chain, Seens, Typed, Flow, [Next]_vars
    PROVE  Typed'
<1>1. /\ head \in Nat /\ head >= 1 /\ head' \in Nat /\ head <= head' /\ head' <= MaxHeight
      /\ MaxHeight \in Nat /\ MaxFaults \in Nat
  BY Grown, RegistryAssumption DEF Chain, Height
<1>2. /\ heights = {None} \/ heights \subseteq 1 .. head
      /\ heights = {None} \/ heights \subseteq 1 .. head'
  BY <1>1 DEF Typed
<1>3. window[2] <= head /\ window[2] <= head' /\ window \in Height \X Height
  BY <1>1 DEF Typed, Height
<1>4. CASE StartService
  <2>1. /\ pc' = "resolve" /\ job' = "service" /\ heights' = {None} /\ todo' = SystemOrder
        /\ index' = None /\ rows' = {} /\ failed' = FALSE
        /\ UNCHANGED <<window, next, stored, decoded, faults>>
    BY <1>4 DEF StartService, Start, scanVars
  <2> QED BY <1>3, <2>1, RegistryAssumption DEF Typed, RegistryPC
<1>5. CASE StartBackfill
  <2>1. PICK start \in 1 .. head :
          /\ Start("backfill", IF Probes > 1 /\ head > start
                               THEN EvenlySpaced(start, head, Probes) ELSE {None})
          /\ window' = <<start, head>>
          /\ next' = start
          /\ Fault
          /\ UNCHANGED <<chain, snap, stored, decoded>>
    BY <1>5 DEF StartBackfill
  <2>2. /\ pc' = "resolve" /\ job' = "backfill" /\ todo' = SystemOrder
        /\ heights' = IF Probes > 1 /\ head > start THEN EvenlySpaced(start, head, Probes) ELSE {None}
        /\ index' = None /\ rows' = {} /\ failed' = FALSE
    BY <2>1 DEF Start
  <2>3. heights' = {None} \/ heights' \subseteq 1 .. head
    <3>1. CASE Probes > 1 /\ head > start
      <4>1. EvenlySpaced(start, head, Probes) \subseteq start .. head
        BY <1>1, <3>1, ProbesAre, RegistryAssumption
      <4> QED BY <2>2, <3>1, <4>1
    <3>2. CASE ~(Probes > 1 /\ head > start)
      BY <2>2, <3>2
    <3> QED BY <3>1, <3>2
  <2>4. heights' = {None} \/ heights' \subseteq 1 .. head'
    BY <1>1, <2>3
  <2>5. start \in Height /\ head \in Height /\ start \in 1 .. MaxHeight + 1
    BY <1>1 DEF Height
  <2>6. faults' \in 0 .. MaxFaults
    BY <1>1, <2>1 DEF Fault, Typed
  <2>7. window' \in Height \X Height /\ window'[2] <= head'
    BY <1>1, <2>1, <2>5
  <2> QED BY <2>1, <2>2, <2>4, <2>5, <2>6, <2>7, RegistryAssumption DEF Typed, RegistryPC
<1>6. CASE ResolveSystem
  <2>1. UNCHANGED <<pc, job, heights, index, window, rows, reg, scanVars, histVars>>
    BY <1>6 DEF ResolveSystem
  <2>2. todo # << >> /\ todo' = Tail(todo) /\ todo \in Seq(System)
    BY <1>6 DEF ResolveSystem, Typed
  <2>3. todo' \in Seq(System)
    BY <2>2
  <2> QED BY <1>2, <1>3, <2>1, <2>3 DEF Typed, Known, scanVars, histVars
<1>7. CASE Resolved
  <2>1. /\ reg' = Extend(reg, fresh)
        /\ heights' = heights \ {Lowest(heights)} /\ pc = "resolve"
        /\ pc' \in {"resolve", "prior", "upsert"} /\ todo' \in {SystemOrder, << >>}
        /\ rows' \in {rows, {}, Known(reg')}
        /\ UNCHANGED <<job, index, window, scanVars, histVars>>
    BY <1>7 DEF Resolved
  <2>2. Known(reg) \subseteq Known(reg')
    BY <2>1, ExtendIs DEF Seens
  <2>3. Lowest(heights) \in heights
    BY <2>1, LowestSeen DEF Flow
  <2>4. heights' = {None} \/ heights' \subseteq 1 .. head'
    BY <1>2, <2>1, <2>3
  <2>5. todo' \in Seq(System)
    <3>1. SystemOrder \in Seq(System) /\ << >> \in Seq(System)
      BY RegistryAssumption
    <3> QED BY <2>1, <3>1
  <2>6. rows' \subseteq Known(reg')
    BY <2>1, <2>2 DEF Typed
  <2> QED BY <1>3, <2>1, <2>4, <2>5, <2>6 DEF Typed, RegistryPC, scanVars, histVars, Known
<1>8. CASE JoinPrior
  <2>1. /\ rows' = Known(reg') /\ pc' = "upsert"
        /\ UNCHANGED <<job, index, window, probeVars, scanVars, histVars>>
    BY <1>8 DEF JoinPrior
  <2> QED BY <1>2, <1>3, <2>1 DEF Typed, RegistryPC, probeVars, scanVars, histVars, Known
<1>9. CASE UpsertSnapshotRow
  <2>1. /\ \E a \in rows : rows' = rows \ {a}
        /\ UNCHANGED <<reg, pc, job, index, window, probeVars, scanVars, histVars>>
    BY <1>9 DEF UpsertSnapshotRow
  <2> QED BY <1>2, <1>3, <2>1 DEF Typed, Known, probeVars, scanVars, histVars
<1>10. CASE Upserted
  <2>1. /\ index' = IF index = None THEN SystemIds(reg) ELSE index
        /\ pc' = "loop"
        /\ UNCHANGED <<reg, job, window, rows, probeVars, scanVars, histVars>>
    BY <1>10 DEF Upserted
  <2>2. SystemIds(reg) \subseteq System
    BY DEF SystemIds, Seens, Registered, Known, Entry
  <2>3. index' \in {None} \cup SUBSET System
    BY <2>1, <2>2 DEF Typed
  <2> QED BY <1>2, <1>3, <2>1, <2>3 DEF Typed, RegistryPC, Known, probeVars, scanVars, histVars
<1>11. CASE BackfillEnds \/ Crash
  <2>1. /\ pc' = "down" /\ job' = "service" /\ window' = <<1, 1>>
        /\ index' = None /\ rows' = {} /\ heights' = {} /\ todo' = << >> /\ failed' = FALSE
        /\ UNCHANGED <<next, stored, decoded>>
    BY <1>11 DEF BackfillEnds, Crash, Exit, scanVars
  <2>2. faults' \in 0 .. MaxFaults
    BY <1>1, <1>11 DEF BackfillEnds, Crash, Fault, Typed
  <2>3. window' \in Height \X Height /\ window'[2] <= head'
    BY <1>1, <2>1 DEF Height
  <2>4. << >> \in Seq(System)
    OBVIOUS
  <2> QED BY <2>1, <2>2, <2>3, <2>4 DEF Typed, RegistryPC
<1>12. CASE Reprobe
  <2>1. /\ pc' = "resolve" /\ heights' = {None} /\ todo' = SystemOrder
        /\ UNCHANGED <<reg, job, index, window, rows, scanVars, histVars>>
    BY <1>12 DEF Reprobe
  <2> QED BY <1>3, <2>1, RegistryAssumption DEF Typed, RegistryPC, Known, scanVars, histVars
<1>13. CASE ReprobeRaises
  <2>1. /\ pc' = "loop" /\ heights' = {} /\ todo' = << >> /\ rows' = {}
        /\ failed' = (failed \/ pc = "upsert")
        /\ UNCHANGED <<reg, job, index, window, scanVars>>
    BY <1>13 DEF ReprobeRaises
  <2>2. faults' \in 0 .. MaxFaults
    BY <1>1, <1>13 DEF ReprobeRaises, Fault, Typed
  <2>3. << >> \in Seq(System)
    OBVIOUS
  <2>4. failed' \in BOOLEAN
    BY <2>1
  <2> HIDE DEF Fault
  <2> QED BY <1>3, <2>1, <2>2, <2>3, <2>4 DEF Typed, RegistryPC, scanVars
<1>14. CASE ScanBlock
  <2>1. /\ next <= IF job = "service" THEN head ELSE window[2]
        /\ stored' = Deployed(next) \cap Known(reg)
        /\ decoded' \subseteq stored' /\ next' = next + 1
        /\ UNCHANGED <<reg, pc, job, index, window, rows, probeVars, histVars>>
    BY <1>14 DEF ScanBlock
  <2>2. next' \in 1 .. MaxHeight + 1
    BY <1>1, <1>3, <2>1 DEF Typed, Height
  <2>3. stored' \subseteq Address
    BY <2>1, TrueIs DEF Seens, Registered
  <2> QED BY <1>2, <1>3, <2>1, <2>2, <2>3 DEF Typed, Known, probeVars, histVars
<1>15. CASE NewBlock \/ UNCHANGED vars
  <2>1. UNCHANGED <<reg, pc, job, index, window, rows, probeVars, scanVars, histVars>>
    BY <1>15 DEF NewBlock, vars
  <2> QED BY <1>2, <1>3, <2>1 DEF Typed, Known, probeVars, scanVars, histVars
<1> QED BY <1>4, <1>5, <1>6, <1>7, <1>8, <1>9, <1>10, <1>11, <1>12, <1>13, <1>14, <1>15
     DEF Next, RegistryStep

LEMMA FlowKept ==
    ASSUME Chain, Seens, Typed, Flow, [Next]_vars
    PROVE  Flow'
<1>1. CASE StartService
  BY <1>1, EmptyIs DEF StartService, Start, Flow
<1>2. CASE StartBackfill
  <2>1. PICK start \in 1 .. head :
          Start("backfill", IF Probes > 1 /\ head > start
                            THEN EvenlySpaced(start, head, Probes) ELSE {None})
    BY <1>2 DEF StartBackfill
  <2>2. /\ pc' = "resolve" /\ job' = "backfill" /\ rows' = {} /\ index' = None /\ fresh' = Empty
        /\ heights' = IF Probes > 1 /\ head > start THEN EvenlySpaced(start, head, Probes) ELSE {None}
    BY <2>1 DEF Start
  <2>3. heights' # {}
    <3>1. head \in Nat
      BY DEF Chain, Height
    <3>2. CASE Probes > 1 /\ head > start
      <4>1. start \in Nat /\ start < head /\ Probes \in Nat
        BY <3>1, <3>2, RegistryAssumption
      <4>2. EvenlySpaced(start, head, Probes) # {}
        BY <3>1, <3>2, <4>1, ProbesAre
      <4> QED BY <2>2, <3>2, <4>2
    <3>3. CASE ~(Probes > 1 /\ head > start)
      BY <2>2, <3>3
    <3> QED BY <3>2, <3>3
  <2> QED BY <2>2, <2>3, EmptyIs DEF Flow
<1>3. CASE ResolveSystem
  <2>1. UNCHANGED <<pc, job, heights, index, rows>>
    BY <1>3 DEF ResolveSystem
  <2>2. None \in heights => \A a \in Known(fresh') : fresh'[a].first = None /\ fresh'[a].last = None
    BY <1>3, Asked DEF Flow, Seens
  <2>3. None \in heights' => \A a \in Known(fresh)' : fresh'[a].first = None /\ fresh'[a].last = None
    BY <2>1, <2>2 DEF Known
  <2> QED BY <2>1, <2>3 DEF Flow
<1>4. CASE Resolved
  <2>1. /\ heights' = heights \ {Lowest(heights)} /\ pc = "resolve" /\ rows = {}
        /\ fresh' = Empty /\ UNCHANGED <<job, index>>
        /\ IF heights' # {} THEN pc' = "resolve" /\ rows' = rows
           ELSE IF index = None THEN pc' = "prior" /\ rows' = rows
           ELSE pc' = "upsert"
    BY <1>4 DEF Resolved, Flow
  <2>2. Lowest(heights) \in heights
    BY <2>1, LowestSeen DEF Flow
  <2>3. index # None => heights' = {}
    BY <2>1, <2>2 DEF Flow
  <2> QED BY <2>1, <2>3, EmptyIs DEF Flow
<1>5. CASE JoinPrior
  BY <1>5 DEF JoinPrior, Flow, probeVars
<1>6. CASE UpsertSnapshotRow
  BY <1>6 DEF UpsertSnapshotRow, Flow, probeVars
<1>7. CASE Upserted
  <2>1. /\ index' = IF index = None THEN SystemIds(reg) ELSE index
        /\ pc = "upsert" /\ rows = {}
        /\ pc' = "loop"
        /\ UNCHANGED <<reg, job, window, rows, probeVars>>
    BY <1>7 DEF Upserted
  <2>2. SystemIds(reg) \in SUBSET System
    BY DEF SystemIds, Seens, Registered, Known, Entry
  <2>3. index' # None
    BY <2>1, <2>2, RegistryAssumption
  <2> QED BY <2>1, <2>3 DEF Flow, probeVars
<1>8. CASE BackfillEnds \/ Crash
  BY <1>8, EmptyIs DEF BackfillEnds, Crash, Exit, Flow
<1>9. CASE Reprobe
  <2>1. /\ pc = "loop" /\ job = "service" /\ pc' = "resolve" /\ heights' = {None} /\ fresh' = Empty
        /\ UNCHANGED <<job, index, rows>>
    BY <1>9 DEF Reprobe
  <2> QED BY <2>1, EmptyIs DEF Flow
<1>10. CASE ReprobeRaises
  <2>1. /\ index # None /\ pc' = "loop" /\ heights' = {} /\ fresh' = Empty /\ rows' = {}
        /\ UNCHANGED <<job, index>>
    BY <1>10 DEF ReprobeRaises
  <2> QED BY <2>1, EmptyIs DEF Flow
<1>11. CASE ScanBlock \/ NewBlock \/ UNCHANGED vars
  <2>1. UNCHANGED <<pc, job, index, rows, probeVars>>
    BY <1>11 DEF ScanBlock, NewBlock, vars
  <2> QED BY <2>1 DEF Flow, probeVars, Known
<1> QED BY <1>1, <1>2, <1>3, <1>4, <1>5, <1>6, <1>7, <1>8, <1>9, <1>10, <1>11 DEF Next, RegistryStep

LEMMA CoversKept ==
    ASSUME Chain, Seens, Typed, Flow, Covers, [Next]_vars
    PROVE  Covers'
<1>1. CASE StartService \/ StartBackfill \/ BackfillEnds \/ Crash
  <2>1. pc' \in {"resolve", "down"} /\ index' = None
    BY <1>1 DEF StartService, StartBackfill, BackfillEnds, Crash, Start, Exit
  <2> QED BY <2>1 DEF Covers, Joined
<1>2. CASE Resolved
  <2>1. /\ reg' = Extend(reg, fresh) /\ UNCHANGED <<snap, index>> /\ pc = "resolve"
        /\ index = None => pc' \in {"resolve", "prior"}
    BY <1>2 DEF Resolved
  <2>2. CASE index = None
    BY <2>1, <2>2 DEF Covers, Joined
  <2>3. CASE index # None
    <3>1. \A a \in Known(fresh) : fresh[a].first = None /\ fresh[a].last = None
      BY <2>1, <2>3 DEF Flow
    <3>2. Known(reg') = Known(reg) \cup Known(fresh)
      BY <2>1, ExtendIs DEF Seens
    <3>3. \A a \in Known(reg) : reg'[a].first = reg[a].first /\ reg'[a].last = reg[a].last
      BY <2>1, <3>1, ExtendIs DEF Seens
    <3>4. \A k \in DOMAIN snap : k[2] \in Known(reg) /\ Within(snap[k], reg[k[2]])
      BY <2>3 DEF Covers, Joined
    <3>5. \A k \in DOMAIN snap : k[2] \in Known(reg') /\ Within(snap[k], reg'[k[2]])
      BY <3>2, <3>3, <3>4 DEF Within
    <3> QED BY <2>1, <3>5 DEF Covers, Within, Known
  <2> QED BY <2>2, <2>3
<1>3. CASE JoinPrior
  <2>1. PICK prior \in FromRows : reg' = Extend(reg, prior)
    BY <1>3 DEF JoinPrior
  <2>2. UNCHANGED snap
    BY <1>3 DEF JoinPrior
  <2>3. /\ Registered(prior)
        /\ \A k \in DOMAIN snap :
             /\ k[2] \in Known(prior)
             /\ prior[k[2]].first = snap[k].first /\ prior[k[2]].last = snap[k].last
    BY FromRowsIs DEF Seens
  <2>4. /\ Known(reg') = Known(reg) \cup Known(prior)
        /\ \A a \in Known(prior) : Within(prior[a], reg'[a])
    BY <2>1, <2>3, ExtendIs DEF Seens
  <2>5. \A k \in DOMAIN snap : k[2] \in Known(reg') /\ Within(snap[k], reg'[k[2]])
    BY <2>3, <2>4 DEF Within
  <2> QED BY <2>2, <2>5 DEF Covers, Within, Known
<1>4. CASE UpsertSnapshotRow
  <2>1. PICK a \in rows : snap' = UpsertRow(snap, a, reg[a])
    BY <1>4 DEF UpsertSnapshotRow
  <2>2. UNCHANGED reg /\ pc = "upsert" /\ a \in Known(reg) /\ reg[a] \in Entry
    BY <1>4, <2>1 DEF UpsertSnapshotRow, Typed, Seens, Registered
  <2>3. \A k \in DOMAIN snap : k[2] \in Known(reg) /\ Within(snap[k], reg[k[2]])
    BY <2>2 DEF Covers, Joined
  <2> DEFINE k == <<reg[a].sid, a>>
             new == [first |-> reg[a].first, last |-> reg[a].last]
  <2>4. /\ DOMAIN snap' = DOMAIN snap \cup {k}
        /\ \A x \in DOMAIN snap : x # k => snap'[x] = snap[x]
        /\ snap'[k] = new
    BY <2>1, <2>2, <2>3, UpsertIs DEF Seens
  <2>5. k[2] = a /\ Within(new, reg[a])
    BY <2>2, Views DEF Within, Entry
  <2> HIDE DEF k, new
  <2>6. \A x \in DOMAIN snap' : x[2] \in Known(reg) /\ Within(snap'[x], reg[x[2]])
    BY <2>2, <2>3, <2>4, <2>5
  <2> QED BY <2>2, <2>6 DEF Covers, Within, Known
<1>5. CASE ResolveSystem \/ Upserted \/ Reprobe \/ ReprobeRaises \/ ScanBlock \/ NewBlock
        \/ UNCHANGED vars
  <2>1. UNCHANGED <<reg, snap>> /\ (Joined' => Joined)
    BY <1>5 DEF ResolveSystem, Upserted, Reprobe, ReprobeRaises, ScanBlock, NewBlock, vars, Joined, Flow
  <2> QED BY <2>1 DEF Covers, Within, Known
<1> QED BY <1>1, <1>2, <1>3, <1>4, <1>5 DEF Next, RegistryStep

LEMMA SavesKept ==
    ASSUME Chain, Seens, Typed, Flow, Covers, Saves, [Next]_vars
    PROVE  Saves'
<1>1. CASE StartService \/ StartBackfill \/ BackfillEnds \/ Crash
  <2>1. pc' \in {"resolve", "down"} /\ index' = None
    BY <1>1 DEF StartService, StartBackfill, BackfillEnds, Crash, Start, Exit
  <2> QED BY <2>1 DEF Saves, Joined
<1>2. CASE Resolved
  <2>1. /\ reg' = Extend(reg, fresh) /\ UNCHANGED <<snap, index, failed>> /\ pc = "resolve"
        /\ index = None => pc' \in {"resolve", "prior"}
        /\ heights' = heights \ {Lowest(heights)}
    BY <1>2 DEF Resolved, histVars
  <2>2. CASE index = None
    BY <2>1, <2>2 DEF Saves, Joined
  <2>3. CASE index # None /\ ~failed
    <3>1. heights = {None} /\ rows = {}
      BY <2>1, <2>3 DEF Flow
    <3>2. heights' = {}
      BY <2>1, <3>1, LowestSeen
    <3>3. rows' = IF Known(fresh) \subseteq Known(reg) THEN {} ELSE Known(reg')
      BY <1>2, <2>3, <3>2 DEF Resolved
    <3>4. CASE Known(fresh) \subseteq Known(reg)
      <4>1. Known(reg') = Known(reg)
        <5>1. Known(reg') = Known(reg) \cup Known(fresh)
          BY <2>1, ExtendIs DEF Seens
        <5> QED BY <3>4, <5>1
      <4>2. \A a \in Known(reg) :
              reg'[a].sid = reg[a].sid /\ reg'[a].first = reg[a].first /\ reg'[a].last = reg[a].last
        <5>1. \A a \in Known(fresh) : fresh[a].first = None /\ fresh[a].last = None
          BY <3>1 DEF Flow
        <5> QED BY <2>1, <5>1, ExtendIs DEF Seens
      <4>3. \A a \in Known(reg) : Saved(a)
        BY <2>3, <3>1 DEF Saves, Joined
      <4>4. \A a \in Known(reg') : Saved(a)'
        BY <2>1, <4>1, <4>2, <4>3 DEF Saved
      <4> QED BY <4>4 DEF Saves, Known
    <3>5. CASE ~(Known(fresh) \subseteq Known(reg))
      BY <3>3, <3>5 DEF Saves, Known
    <3> QED BY <3>4, <3>5
  <2>4. CASE failed
    BY <2>1, <2>4 DEF Saves
  <2> QED BY <2>2, <2>3, <2>4
<1>3. CASE JoinPrior
  <2>1. rows' = Known(reg')
    BY <1>3 DEF JoinPrior
  <2> QED BY <2>1 DEF Saves, Known
<1>4. CASE UpsertSnapshotRow
  <2>1. PICK a \in rows : snap' = UpsertRow(snap, a, reg[a]) /\ rows' = rows \ {a}
    BY <1>4 DEF UpsertSnapshotRow
  <2>2. UNCHANGED <<reg, failed>> /\ pc = "upsert" /\ a \in Known(reg)
    BY <1>4, <2>1 DEF UpsertSnapshotRow, Typed, histVars
  <2>3. \A x \in DOMAIN snap : x[2] \in Known(reg) /\ Within(snap[x], reg[x[2]])
    BY <2>2 DEF Covers, Joined
  <2> DEFINE k == <<reg[a].sid, a>>
             new == [first |-> reg[a].first, last |-> reg[a].last]
  <2>4. /\ DOMAIN snap' = DOMAIN snap \cup {k}
        /\ \A x \in DOMAIN snap : x # k => snap'[x] = snap[x]
        /\ snap'[k] = new
    BY <2>1, <2>2, <2>3, UpsertIs DEF Seens
  <2>5. ASSUME NEW b \in Known(reg), b = a \/ Saved(b)
        PROVE  Saved(b)'
    <3>1. CASE b = a
      BY <2>2, <2>4, <3>1 DEF Saved
    <3>2. CASE b # a
      <4>1. <<reg[b].sid, b>> # k
        BY <3>2
      <4> QED BY <2>2, <2>4, <2>5, <3>2, <4>1 DEF Saved
    <3> QED BY <3>1, <3>2
  <2>6. ~failed => \A b \in Known(reg) \ rows : Saved(b)
    BY <2>2 DEF Saves, Joined
  <2>7. ~failed => \A b \in Known(reg) \ rows' : Saved(b)'
    BY <2>1, <2>5, <2>6
  <2> QED BY <2>2, <2>7 DEF Saves, Known
<1>5. CASE ReprobeRaises
  <2>1. /\ UNCHANGED <<reg, snap, index>> /\ index # None /\ rows' = {}
        /\ failed' = (failed \/ pc = "upsert")
    BY <1>5 DEF ReprobeRaises
  <2>2. CASE pc = "upsert"
    BY <2>1, <2>2 DEF Saves
  <2>3. CASE pc # "upsert"
    <3>1. rows = {}
      BY <2>3 DEF Flow
    <3>2. ~failed' => \A a \in Known(reg) : Saved(a)
      BY <2>1, <2>3, <3>1 DEF Saves, Joined
    <3> QED BY <2>1, <3>2 DEF Saves, Saved, Known
  <2> QED BY <2>2, <2>3
<1>6. CASE ResolveSystem \/ Upserted \/ Reprobe \/ ScanBlock \/ NewBlock \/ UNCHANGED vars
  <2>1. UNCHANGED <<reg, snap, rows, failed>> /\ (Joined' => Joined)
    BY <1>6 DEF ResolveSystem, Upserted, Reprobe, ScanBlock, NewBlock, vars, histVars, Joined, Flow
  <2> QED BY <2>1 DEF Saves, Saved, Known
<1> QED BY <1>1, <1>2, <1>3, <1>4, <1>5, <1>6 DEF Next, RegistryStep

(* Whatever has a row keeps it, and the row only widens.                   *)
LEMMA RowsKept ==
    ASSUME Chain, Seens, Typed, Flow, Covers, [Next]_vars
    PROVE  \A k \in DOMAIN snap :
             /\ k \in DOMAIN snap'
             /\ snap'[k] = snap[k] \/ (k[2] \in Known(reg) /\ Within(snap[k], reg[k[2]])
                                       /\ snap'[k].first = reg[k[2]].first
                                       /\ snap'[k].last = reg[k[2]].last)
<1>1. CASE UpsertSnapshotRow
  <2>1. PICK a \in rows : snap' = UpsertRow(snap, a, reg[a])
    BY <1>1 DEF UpsertSnapshotRow
  <2>2. pc = "upsert" /\ a \in Known(reg)
    BY <1>1, <2>1 DEF UpsertSnapshotRow, Typed
  <2>3. \A x \in DOMAIN snap : x[2] \in Known(reg) /\ Within(snap[x], reg[x[2]])
    BY <2>2 DEF Covers, Joined
  <2> DEFINE k == <<reg[a].sid, a>>
             new == [first |-> reg[a].first, last |-> reg[a].last]
  <2>4. /\ DOMAIN snap' = DOMAIN snap \cup {k}
        /\ \A x \in DOMAIN snap : x # k => snap'[x] = snap[x]
        /\ snap'[k] = new
    BY <2>1, <2>2, <2>3, UpsertIs DEF Seens
  <2>5. k[2] = a /\ new.first = reg[a].first /\ new.last = reg[a].last
    OBVIOUS
  <2> HIDE DEF k, new
  <2> QED BY <2>3, <2>4, <2>5
<1>2. CASE ~UpsertSnapshotRow
  <2>1. UNCHANGED snap
    BY <1>2 DEF Next, RegistryStep, StartService, StartBackfill, ResolveSystem, Resolved, JoinPrior,
         Upserted, BackfillEnds, Reprobe, ScanBlock, ReprobeRaises, Crash, NewBlock, Start, Exit, vars
  <2> QED BY <2>1
<1> QED BY <1>1, <1>2

LEMMA BootKept ==
    ASSUME Chain, Seens, Typed, Flow, Covers, Boot, [Next]_vars
    PROVE  Boot'
<1>1. CASE StartService \/ StartBackfill
  <2>1. atBoot' = {k[1] : k \in DOMAIN snap} /\ UNCHANGED snap /\ index' = None
    BY <1>1 DEF StartService, StartBackfill, Start
  <2> QED BY <2>1 DEF Boot
<1>2. CASE BackfillEnds \/ Crash
  <2>1. atBoot' = {} /\ index' = None
    BY <1>2 DEF BackfillEnds, Crash, Exit
  <2> QED BY <2>1 DEF Boot
<1>3. DOMAIN snap \subseteq DOMAIN snap'
  BY RowsKept
<1>4. CASE Upserted
  <2>1. index' = IF index = None THEN SystemIds(reg) ELSE index
    BY <1>4 DEF Upserted
  <2>2. UNCHANGED <<snap, atBoot>> /\ pc = "upsert"
    BY <1>4 DEF Upserted, histVars
  <2>3. ASSUME NEW s \in atBoot
        PROVE  s \in SystemIds(reg)
    <3>1. PICK k \in DOMAIN snap : k[1] = s
      BY DEF Boot
    <3>2. k[2] \in Known(reg) /\ True(k[1], k[2], snap[k])
      BY <2>2 DEF Covers, Joined, Seens, Table
    <3>3. True(reg[k[2]].sid, k[2], reg[k[2]])
      BY <3>2 DEF Seens, Registered
    <3>4. reg[k[2]].sid = s
      <4> DEFINE a == k[2]
                 e == reg[a]
                 t == e.sid
                 f == snap[k]
      <4>1. True(s, a, f) /\ True(t, a, e)
        BY <3>1, <3>2, <3>3
      <4> HIDE DEF a, e, t, f
      <4>2. t = s
        BY <4>1, TrueIs
      <4> QED BY <4>2 DEF a, e, t
    <3> QED BY <3>2, <3>4 DEF SystemIds, Known
  <2>4. atBoot \subseteq index'
    BY <2>1, <2>3 DEF Boot
  <2> QED BY <2>2, <2>4 DEF Boot
<1>5. CASE ~(StartService \/ StartBackfill \/ BackfillEnds \/ Crash \/ Upserted)
  <2>1. UNCHANGED <<atBoot, index>>
    BY <1>5 DEF Next, RegistryStep, ResolveSystem, Resolved, JoinPrior, UpsertSnapshotRow,
         Reprobe, ScanBlock, ReprobeRaises, NewBlock, histVars, vars
  <2> QED BY <1>3, <2>1 DEF Boot
<1> QED BY <1>1, <1>2, <1>4, <1>5

LEMMA AmongTail ==
    ASSUME NEW s, NEW q \in Seq(System), q # << >>, Among(s, q)
    PROVE  s = Head(q) \/ Among(s, Tail(q))
<1>1. PICK i \in DOMAIN q : q[i] = s
  BY DEF Among
<1>2. CASE i = 1
  BY <1>1, <1>2
<1>3. CASE i # 1
  <2>1. i \in 1 .. Len(q) /\ Len(q) \in Nat
    OBVIOUS
  <2>2. i - 1 \in 1 .. Len(q) - 1
    BY <1>3, <2>1
  <2>3. i - 1 \in DOMAIN Tail(q) /\ Tail(q)[i - 1] = q[i]
    BY <2>1, <2>2
  <2> QED BY <1>1, <2>3 DEF Among
<1> QED BY <1>2, <1>3

LEMMA ProbedIs ==
    ASSUME Chain, Typed
    PROVE  Probed \subseteq 1 .. head /\ None \notin Probed
<1>1. /\ window[1] \in Nat /\ window[1] >= 1 /\ window[2] \in Nat /\ window[2] <= head
      /\ head \in Nat /\ Probes \in Nat /\ None \notin Nat
  BY RegistryAssumption DEF Typed, Chain, Height
<1>2. CASE window[1] < window[2] /\ Probes > 1
  <2>1. EvenlySpaced(window[1], window[2], Probes) \subseteq window[1] .. window[2]
    BY <1>1, <1>2, ProbesAre
  <2>2. Probed = EvenlySpaced(window[1], window[2], Probes)
    BY <1>2 DEF Probed
  <2> HIDE DEF Probed
  <2> QED BY <1>1, <2>1, <2>2
<1>3. CASE ~(window[1] < window[2] /\ Probes > 1)
  BY <1>3 DEF Probed
<1> QED BY <1>2, <1>3

ProbedDone ==
    job = "backfill" =>
      \A h \in Probed \ heights, s \in System :
         Among(s, SystemOrder) => chain[h][s] \in Known(reg) \cup {None}

ProbeUnderWay ==
    pc = "resolve" =>
      LET h == Lowest(heights) IN
      h # None =>
         \A s \in System :
            Among(s, SystemOrder) => Among(s, todo) \/ chain[h][s] \in Known(fresh) \cup {None}

LEMMA ProbingIs == Probing <=> ProbedDone /\ ProbeUnderWay
BY DEF Probing, ProbedDone, ProbeUnderWay

LEMMA DoneKept ==
    ASSUME Chain, Seens, Typed, Flow, ProbedDone, ProbeUnderWay, [Next]_vars
    PROVE  ProbedDone'
<1>1. /\ head \in Nat
      /\ \A h \in 1 .. head : chain'[h] = chain[h]
      /\ Probed \subseteq 1 .. head /\ None \notin Probed
  BY Grown, ProbedIs DEF Chain, Height
<1>2. CASE StartService \/ BackfillEnds \/ Crash
  <2>1. job' = "service"
    BY <1>2 DEF StartService, BackfillEnds, Crash, Start, Exit
  <2> QED BY <2>1 DEF ProbedDone
<1>3. CASE StartBackfill
  <2>1. PICK start \in 1 .. head :
          /\ Start("backfill", IF Probes > 1 /\ head > start
                               THEN EvenlySpaced(start, head, Probes) ELSE {None})
          /\ window' = <<start, head>>
    BY <1>3 DEF StartBackfill
  <2>2. heights' = IF Probes > 1 /\ head > start THEN EvenlySpaced(start, head, Probes) ELSE {None}
    BY <2>1 DEF Start
  <2>3. Probed' = IF start < head /\ Probes > 1 THEN EvenlySpaced(start, head, Probes) ELSE {}
    BY <2>1 DEF Probed
  <2>4. start < head <=> head > start
    BY <1>1
  <2>5. Probed' \subseteq heights'
    <3> HIDE DEF Probed
    <3> QED BY <2>2, <2>3, <2>4
  <2> HIDE DEF Probed
  <2> QED BY <2>5 DEF ProbedDone
<1>4. CASE Resolved
  <2>1. /\ reg' = Extend(reg, fresh) /\ heights' = heights \ {Lowest(heights)}
        /\ pc = "resolve" /\ todo = << >> /\ UNCHANGED <<job, window, chain>>
    BY <1>4 DEF Resolved
  <2>2. Known(reg') = Known(reg) \cup Known(fresh)
    BY <2>1, ExtendIs DEF Seens
  <2>3. Probed' = Probed
    BY <2>1 DEF Probed
  <2>4. ASSUME NEW h \in Probed \ heights', NEW s \in System, Among(s, SystemOrder), job = "backfill"
        PROVE  chain[h][s] \in Known(reg') \cup {None}
    <3>1. CASE h = Lowest(heights)
      <4>1. h # None
        BY <1>1
      <4>2. ~Among(s, todo)
        BY <2>1 DEF Among
      <4>3. chain[h][s] \in Known(fresh) \cup {None}
        BY <2>1, <2>4, <3>1, <4>1, <4>2 DEF ProbeUnderWay
      <4> QED BY <2>2, <4>3
    <3>2. CASE h # Lowest(heights)
      <4>1. h \in Probed \ heights
        BY <2>1, <3>2
      <4>2. chain[h][s] \in Known(reg) \cup {None}
        BY <2>4, <4>1 DEF ProbedDone
      <4> QED BY <2>2, <4>2
    <3> QED BY <3>1, <3>2
  <2> HIDE DEF Probed
  <2> QED BY <2>1, <2>3, <2>4 DEF ProbedDone, Known
<1>5. CASE JoinPrior
  <2>1. PICK prior \in FromRows : reg' = Extend(reg, prior)
    BY <1>5 DEF JoinPrior
  <2>2. UNCHANGED <<chain, job, window, heights>>
    BY <1>5 DEF JoinPrior, probeVars
  <2>3. Known(reg) \subseteq Known(reg')
    BY <2>1, ExtendIs, FromRowsIs DEF Seens
  <2>4. Probed' = Probed
    BY <2>2 DEF Probed
  <2> HIDE DEF Probed
  <2> QED BY <2>2, <2>3, <2>4 DEF ProbedDone, Known
<1>6. CASE Reprobe \/ (ReprobeRaises /\ pc = "resolve")
  <2>1. job' = "service"
    BY <1>6 DEF ReprobeRaises, Reprobe, Flow
  <2> QED BY <2>1 DEF ProbedDone
<1>7. CASE ReprobeRaises /\ pc # "resolve"
  <2>1. heights = {} /\ heights' = {} /\ UNCHANGED <<chain, reg, job, window>>
    BY <1>7 DEF ReprobeRaises, Flow
  <2>2. Probed' = Probed
    BY <2>1 DEF Probed
  <2> HIDE DEF Probed
  <2> QED BY <2>1, <2>2 DEF ProbedDone, Known
<1>8. CASE ResolveSystem \/ UpsertSnapshotRow \/ Upserted \/ ScanBlock \/ NewBlock \/ UNCHANGED vars
  <2>1. UNCHANGED <<reg, job, window, heights>>
    BY <1>8 DEF ResolveSystem, UpsertSnapshotRow, Upserted, ScanBlock, NewBlock, probeVars, vars
  <2>2. Probed' = Probed
    BY <2>1 DEF Probed
  <2> HIDE DEF Probed
  <2> QED BY <1>1, <2>1, <2>2 DEF ProbedDone, Known
<1> QED BY <1>2, <1>3, <1>4, <1>5, <1>6, <1>7, <1>8 DEF Next, RegistryStep

LEMMA UnderWayKept ==
    ASSUME Chain, Seens, Typed, Flow, ProbeUnderWay, [Next]_vars
    PROVE  ProbeUnderWay'
<1>1. /\ head \in Nat
      /\ \A h \in 1 .. head : chain'[h] = chain[h]
  BY Grown DEF Chain, Height
<1>2. CASE StartService \/ StartBackfill \/ Reprobe
  <2>1. todo' = SystemOrder
    BY <1>2 DEF StartService, StartBackfill, Reprobe, Start
  <2> QED BY <2>1 DEF ProbeUnderWay
<1>3. CASE BackfillEnds \/ Crash \/ ReprobeRaises \/ JoinPrior \/ Upserted
  <2>1. pc' # "resolve"
    BY <1>3 DEF BackfillEnds, Crash, ReprobeRaises, JoinPrior, Upserted, Exit
  <2> QED BY <2>1 DEF ProbeUnderWay
<1>4. CASE Resolved
  <2>1. pc' = "resolve" => todo' = SystemOrder
    BY <1>4 DEF Resolved
  <2> QED BY <2>1 DEF ProbeUnderWay
<1>5. CASE ResolveSystem
  <2> DEFINE h == Lowest(heights)
             a == chain[IF h = None THEN head ELSE h][Head(todo)]
  <2>1. /\ todo # << >> /\ todo' = Tail(todo) /\ todo \in Seq(System) /\ pc = "resolve"
        /\ UNCHANGED <<chain, heights>>
    BY <1>5 DEF ResolveSystem, Typed
  <2>2. Known(fresh) \subseteq Known(fresh') /\ a \in Known(fresh') \cup {None}
    BY <1>5, Asked DEF Seens
  <2>3. ASSUME NEW s \in System, Among(s, SystemOrder), h # None
        PROVE  Among(s, todo') \/ chain[h][s] \in Known(fresh') \cup {None}
    <3>1. Among(s, todo) \/ chain[h][s] \in Known(fresh) \cup {None}
      BY <2>1, <2>3 DEF ProbeUnderWay
    <3>2. Among(s, todo) => s = Head(todo) \/ Among(s, todo')
      BY <2>1, AmongTail
    <3>3. s = Head(todo) => chain[h][s] \in Known(fresh') \cup {None}
      BY <2>2, <2>3
    <3> HIDE DEF h, a
    <3> QED BY <2>2, <3>1, <3>2, <3>3
  <2>4. Lowest(heights') = h
    BY <2>1
  <2> QED BY <2>1, <2>3, <2>4 DEF ProbeUnderWay, Among, Known
<1>6. CASE ScanBlock \/ UpsertSnapshotRow
  <2>1. pc' # "resolve"
    BY <1>6 DEF ScanBlock, UpsertSnapshotRow
  <2> QED BY <2>1 DEF ProbeUnderWay
<1>7. CASE NewBlock \/ UNCHANGED vars
  <2>1. UNCHANGED <<pc, heights, todo, fresh>>
    BY <1>7 DEF NewBlock, probeVars, vars
  <2>2. CASE pc # "resolve"
    BY <2>1, <2>2 DEF ProbeUnderWay
  <2>3. CASE pc = "resolve"
    <3>1. Lowest(heights) = None \/ Lowest(heights) \in 1 .. head
      BY <2>3, LowestSeen DEF Flow
    <3>2. Lowest(heights') = Lowest(heights)
      BY <2>1
    <3> QED BY <1>1, <2>1, <2>3, <3>1, <3>2 DEF ProbeUnderWay, Among, Known
  <2> QED BY <2>2, <2>3
<1> QED BY <1>2, <1>3, <1>4, <1>5, <1>6, <1>7 DEF Next, RegistryStep

-----------------------------------------------------------------------------
(* The invariant and what follows from it                                  *)

LEMMA AtFirst == Init => IInv
<1> SUFFICES ASSUME Init PROVE IInv
  OBVIOUS
<1>1. /\ Before \in Nat /\ Before >= 1 /\ MaxHeight \in Nat /\ Before <= MaxHeight
      /\ MaxFaults \in Nat /\ None \notin Nat
  BY RegistryAssumption
<1>2. Chain /\ head = Before
  <2>1. chain \in [1 .. Before -> [System -> Address \cup {None}]]
    BY DEF Init
  <2>2. chain \in Seq([System -> Address \cup {None}]) /\ Len(chain) = Before
    BY <1>1, <2>1
  <2> QED BY <1>1, <2>2 DEF Chain, Height, head, Init
<1>3. Seens
  BY EmptyIs DEF Init, Seens, Registered, Table, Known, Empty
<1>4. Typed
  <2>1. << >> \in Seq(System) /\ <<1, 1>> \in Height \X Height /\ Before \in 1 .. MaxHeight + 1
    BY <1>1 DEF Height
  <2>2. window \in Height \X Height /\ window[2] <= head
    BY <1>1, <1>2, <2>1 DEF Init
  <2>3. next \in 1 .. MaxHeight + 1 /\ faults \in 0 .. MaxFaults
    BY <1>1, <2>1 DEF Init
  <2> QED BY <2>1, <2>2, <2>3 DEF Init, Typed, RegistryPC
<1>5. Flow
  BY DEF Init, Flow
<1>6. Covers /\ Saves
  BY DEF Init, Covers, Saves, Joined
<1>7. Boot
  BY DEF Init, Boot
<1>8. Probing
  BY DEF Init, Probing
<1> QED BY <1>2, <1>3, <1>4, <1>5, <1>6, <1>7, <1>8 DEF IInv

LEMMA Inductive == IInv /\ [Next]_vars => IInv'
<1> SUFFICES ASSUME IInv, [Next]_vars PROVE IInv'
  OBVIOUS
<1>1. Chain /\ Seens /\ Typed /\ Flow /\ Covers /\ Saves /\ Boot /\ ProbedDone /\ ProbeUnderWay
  BY ProbingIs DEF IInv
<1>2. Chain'
  BY <1>1, Grown
<1>3. Seens'
  BY <1>1, SeensKept
<1>4. Typed'
  BY <1>1, TypedKept
<1>5. Flow'
  BY <1>1, FlowKept
<1>6. Covers'
  BY <1>1, CoversKept
<1>7. Saves'
  BY <1>1, SavesKept
<1>8. Boot'
  BY <1>1, BootKept
<1>9. ProbedDone' /\ ProbeUnderWay'
  BY <1>1, DoneKept, UnderWayKept
<1>10. Probing'
  BY <1>9 DEF Probing, ProbedDone, ProbeUnderWay
<1> QED BY <1>2, <1>3, <1>4, <1>5, <1>6, <1>7, <1>8, <1>10 DEF IInv

LEMMA Invariant == Spec => []IInv
<1>1. Init => IInv
  BY AtFirst
<1>2. IInv /\ [Next]_vars => IInv'
  BY Inductive
<1> QED BY <1>1, <1>2, PTL DEF Spec

(* Every variable of the registry has its type.                            *)
THEOREM TypeCorrect == Spec => []TypeOK
<1>1. IInv => TypeOK
  <2> SUFFICES ASSUME IInv PROVE TypeOK
    OBVIOUS
  <2> USE DEF IInv
  <2>1. Known(reg) \subseteq Address /\ \A a \in Known(reg) : reg[a] \in Entry
    BY TrueIs DEF Seens, Registered
  <2>2. Known(fresh) \subseteq Address /\ \A a \in Known(fresh) : fresh[a] \in Entry
    BY TrueIs DEF Seens, Registered
  <2>3. DOMAIN snap \subseteq System \X Address /\ \A k \in DOMAIN snap : snap[k] \in Row
    <3>1. ASSUME NEW k \in DOMAIN snap
          PROVE  k \in System \X Address /\ snap[k] \in Row
      <4>1. k = <<k[1], k[2]>> /\ snap[k] \in Row /\ True(k[1], k[2], snap[k])
        BY DEF Seens, Table
      <4>2. k[1] \in System /\ k[2] \in Address
        BY <4>1, TrueIs
      <4> QED BY <4>1, <4>2
    <3> QED BY <3>1
  <2>4. heights \subseteq Seen
    BY RegistryAssumption DEF Typed, Chain, Seen, Height
  <2>5. atBoot \subseteq System
    BY TrueIs DEF Boot, Seens, Table
  <2> QED BY <2>1, <2>2, <2>3, <2>4, <2>5 DEF Chain, Typed, TypeOK
<1> QED BY <1>1, Invariant, PTL

(* At both ends of a seen range, in memory and in the table, the system    *)
(* was deployed at that address.                                           *)
THEOREM SeenTrue == Spec => []SeenIsTrue
<1>1. IInv => SeenIsTrue
  BY TrueIs DEF IInv, Seens, Registered, Table, SeenIsTrue
<1> QED BY <1>1, Invariant, PTL

(* Unless an upsert failed, the table has the registry of the process.     *)
THEOREM Remembered == Spec => []MemoryIsStored
<1>1. IInv => MemoryIsStored
  <2> SUFFICES ASSUME IInv, pc = "loop", ~failed
               PROVE  \A a \in Known(reg) : Saved(a)
    BY DEF MemoryIsStored, Saved
  <2>1. rows = {}
    BY DEF IInv, Flow
  <2> QED BY <2>1 DEF IInv, Saves, Joined
<1> QED BY <1>1, Invariant, PTL

(* The backfill knows every deployment that lasted a spacing.              *)
THEOREM LongLived == Spec => []LongLivedObserved
<1>1. IInv => LongLivedObserved
  <2> SUFFICES ASSUME IInv, pc = "loop", job = "backfill", window[1] < window[2], Probes > 1,
                      NEW i \in DOMAIN SystemOrder, NEW a \in Address,
                      NEW lo \in window[1] .. window[2],
                      lo + Spacing - 1 <= window[2],
                      \A h \in lo .. lo + Spacing - 1 : chain[h][SystemOrder[i]] = a
               PROVE  a \in Known(reg)
    BY DEF LongLivedObserved
  <2> USE DEF IInv
  <2>1. /\ window[1] \in Nat /\ window[2] \in Nat /\ Probes \in Nat
        /\ None \notin Address
    BY RegistryAssumption DEF Typed, Height
  <2>2. Spacing = SpacingOf(window[1], window[2], Probes - 1)
    <3>1. window[2] - window[1] + Probes - 2 = window[2] - window[1] + (Probes - 1) - 1
      BY <2>1
    <3> QED BY <3>1 DEF Spacing, SpacingOf
  <2>3. PICK h \in EvenlySpaced(window[1], window[2], Probes) : h \in lo .. lo + Spacing - 1
    <3> DEFINE start == window[1]
               end   == window[2]
               w     == SpacingOf(start, end, Probes - 1)
    <3>1. lo \in start .. end /\ lo + w - 1 <= end /\ start \in Nat /\ end \in Nat /\ start < end
      BY <2>1, <2>2
    <3> HIDE DEF start, end
    <3>2. \E h \in EvenlySpaced(start, end, Probes) : h \in lo .. lo + w - 1
      BY <2>1, <3>1, ProbesAre
    <3> QED BY <2>2, <3>2 DEF start, end
  <2>4. h \in Probed /\ heights = {}
    BY <2>3 DEF Probed, Flow
  <2>5. SystemOrder[i] \in System /\ Among(SystemOrder[i], SystemOrder)
    BY RegistryAssumption DEF Among
  <2>6. chain[h][SystemOrder[i]] \in Known(reg) \cup {None}
    <3> HIDE DEF Probed
    <3> QED BY <2>4, <2>5 DEF Probing
  <2> QED BY <2>1, <2>3, <2>6
<1> QED BY <1>1, Invariant, PTL

(* What is stored is scanned for, and decoded if it was stored at boot.    *)
THEOREM Ingested == Spec => ObservedIsIngested
<1> DEFINE Scanned ==
             pc = "loop" /\ next' = next + 1 =>
               \A k \in DOMAIN snap : k[2] \in Deployed(next) =>
                  /\ k[2] \in stored'
                  /\ k[1] \in atBoot => k[2] \in decoded'
<1>1. IInv /\ [Next]_vars => [Scanned]_vars
  <2> SUFFICES ASSUME IInv, [Next]_vars, pc = "loop", next' = next + 1,
                      NEW k \in DOMAIN snap, k[2] \in Deployed(next)
               PROVE  k[2] \in stored' /\ (k[1] \in atBoot => k[2] \in decoded')
    OBVIOUS
  <2> USE DEF IInv
  <2>1. next \in Nat /\ next' # next
    BY RegistryAssumption DEF Typed
  <2>2. ScanBlock
    BY <2>1 DEF Next, RegistryStep, StartService, StartBackfill, ResolveSystem, Resolved, JoinPrior,
         UpsertSnapshotRow, Upserted, BackfillEnds, Reprobe, ReprobeRaises, Crash, NewBlock,
         Start, scanVars, vars
  <2>3. k[2] \in Known(reg) /\ True(k[1], k[2], snap[k])
    BY DEF Covers, Joined, Seens, Table
  <2>4. True(reg[k[2]].sid, k[2], reg[k[2]])
    BY <2>3 DEF Seens, Registered
  <2>5. reg[k[2]].sid = k[1]
    <3> DEFINE a == k[2]
               e == reg[a]
               t == e.sid
               s == k[1]
               f == snap[k]
    <3>1. True(s, a, f) /\ True(t, a, e)
      BY <2>3, <2>4
    <3> HIDE DEF a, e, t, f, s
    <3>2. t = s
      BY <3>1, TrueIs
    <3> QED BY <3>2 DEF a, e, t, s
  <2>6. index # None /\ atBoot \subseteq index
    BY DEF Flow, Boot
  <2>7. /\ stored' = Deployed(next) \cap Known(reg)
        /\ decoded' = {a \in stored' : reg[a].sid \in index}
    BY <2>2 DEF ScanBlock
  <2> QED BY <2>3, <2>5, <2>6, <2>7
<1>2. ObservedIsIngested <=> [][Scanned]_vars
  BY DEF ObservedIsIngested
<1> HIDE DEF Scanned
<1>3. Spec => [][Scanned]_vars
  BY <1>1, Invariant, PTL DEF Spec
<1> QED BY <1>2, <1>3, PTL

(* No row is lost and no seen range shrinks.                               *)
THEOREM Grows == Spec => SnapshotGrows
<1> DEFINE Widened ==
             \A k \in DOMAIN snap :
               /\ k \in DOMAIN snap'
               /\ snap[k].first # None => snap'[k].first # None /\ snap'[k].first <= snap[k].first
               /\ snap[k].last # None => snap'[k].last # None /\ snap'[k].last >= snap[k].last
<1>1. IInv /\ [Next]_vars => Widened
  <2> SUFFICES ASSUME IInv, [Next]_vars, NEW k \in DOMAIN snap
               PROVE  /\ k \in DOMAIN snap'
                      /\ snap[k].first # None => snap'[k].first # None /\ snap'[k].first <= snap[k].first
                      /\ snap[k].last # None => snap'[k].last # None /\ snap'[k].last >= snap[k].last
    OBVIOUS
  <2>1. /\ k \in DOMAIN snap'
        /\ snap'[k] = snap[k] \/ (k[2] \in Known(reg) /\ Within(snap[k], reg[k[2]])
                                  /\ snap'[k].first = reg[k[2]].first
                                  /\ snap'[k].last = reg[k[2]].last)
    BY RowsKept DEF IInv
  <2>2. snap[k].first \in Seen /\ snap[k].last \in Seen
    BY DEF IInv, Seens, Table, Row
  <2>3. CASE snap'[k] = snap[k]
    BY <2>1, <2>2, <2>3 DEF Seen, Height
  <2>4. CASE /\ k[2] \in Known(reg) /\ Within(snap[k], reg[k[2]])
             /\ snap'[k].first = reg[k[2]].first
             /\ snap'[k].last = reg[k[2]].last
    <3>1. reg[k[2]].first \in Seen /\ reg[k[2]].last \in Seen
      BY <2>4 DEF IInv, Seens, Registered, Entry
    <3> QED BY <2>1, <2>2, <2>4, <3>1, Views DEF Within
  <2> QED BY <2>1, <2>3, <2>4
<1>2. SnapshotGrows <=> [][Widened]_vars
  BY DEF SnapshotGrows
<1> HIDE DEF Widened
<1>3. IInv /\ [Next]_vars => [Widened]_vars
  BY <1>1
<1>4. Spec => [][Widened]_vars
  BY <1>3, Invariant, PTL DEF Spec
<1> QED BY <1>2, <1>4, PTL
=============================================================================
