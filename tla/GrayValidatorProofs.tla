------------------------ MODULE GrayValidatorProofs ------------------------
(***************************************************************************)
(* The validator's verdict is right for every stream, however long it is,  *)
(* wherever the counter begins and whenever its edges fall.                *)
(***************************************************************************)
EXTENDS GrayValidator, TLAPS

---------------------------------------------------------------------------
(* The Gray code, in the lanes that a validator sees.                      *)

LEMMA GrayEven ==
  ASSUME NEW s \in Nat, NEW lanes \in 1 .. 8
  PROVE  Gray(s, lanes) % 2 = ((s + 1) \div 2) % 2
  BY SMTT(60) DEF Gray

\* Two counts further the lowest lane has changed.
LEMMA TwoApart ==
  ASSUME NEW x \in Int, NEW lanes \in 1 .. 8
  PROVE  Gray((x - 2) % 256, lanes) # Gray(x % 256, lanes)
<1>1. (x - 2) % 256 \in Nat /\ x % 256 \in Nat OBVIOUS
<1>2. ((((x - 2) % 256) + 1) \div 2) % 2 # (((x % 256) + 1) \div 2) % 2 BY SMTT(60)
<1> QED BY <1>1, <1>2, GrayEven

\* Two lanes repeat every eight counts.
LEMMA TwoLanes ==
  ASSUME NEW s \in Nat
  PROVE  Gray(s, 2) = IF s % 8 \in {0, 7} THEN 0 ELSE IF s % 8 \in {1, 6} THEN 1
                      ELSE IF s % 8 \in {2, 5} THEN 3 ELSE 2
  BY SMTT(60) DEF Gray

LEMMA GrayIsNat ==
  ASSUME NEW s \in Nat, NEW lanes \in Nat
  PROVE  Gray(s, lanes) \in Nat
  BY SMTT(60) DEF Gray

Bit(s, weight) == ((s + weight) \div (2 * weight)) % 2

LEMMA GrayBits ==
  ASSUME NEW s \in Nat
  PROVE  Gray(s, 8) = Bit(s, 1) * 1 + Bit(s, 2) * 2 + Bit(s, 4) * 4 + Bit(s, 8) * 8
                      + Bit(s, 16) * 16 + Bit(s, 32) * 32 + Bit(s, 64) * 64 + Bit(s, 128) * 128
<1>1. 0 < 8 /\ 1 < 8 /\ 2 < 8 /\ 3 < 8 /\ 4 < 8 /\ 5 < 8 /\ 6 < 8 /\ 7 < 8 OBVIOUS
<1> QED BY <1>1, Zenon DEF Gray, Bit

\* The bit of a weight is that of the count in units of this weight.
UnitBit(s, weight) == ((s \div weight + 1) \div 2) % 2

LEMMA BitOfUnits ==
  ASSUME NEW s \in Nat
  PROVE  /\ Bit(s, 1) = UnitBit(s, 1) /\ Bit(s, 1) \in {0, 1}
         /\ Bit(s, 2) = UnitBit(s, 2) /\ Bit(s, 2) \in {0, 1}
         /\ Bit(s, 4) = UnitBit(s, 4) /\ Bit(s, 4) \in {0, 1}
         /\ Bit(s, 8) = UnitBit(s, 8) /\ Bit(s, 8) \in {0, 1}
         /\ Bit(s, 16) = UnitBit(s, 16) /\ Bit(s, 16) \in {0, 1}
         /\ Bit(s, 32) = UnitBit(s, 32) /\ Bit(s, 32) \in {0, 1}
         /\ Bit(s, 64) = UnitBit(s, 64) /\ Bit(s, 64) \in {0, 1}
         /\ Bit(s, 128) = UnitBit(s, 128) /\ Bit(s, 128) \in {0, 1}
<1>1. Bit(s, 1) = UnitBit(s, 1) /\ Bit(s, 1) \in {0, 1}
  <2>1. 2 * 1 = 2 OBVIOUS
  <2>2. (s + 1) \div 2 = (s \div 1 + 1) \div 2 BY SMTT(30)
  <2>3. ((s \div 1 + 1) \div 2) % 2 \in {0, 1} BY SMTT(30)
  <2> QED BY <2>1, <2>2, <2>3, Zenon DEF Bit, UnitBit
<1>2. Bit(s, 2) = UnitBit(s, 2) /\ Bit(s, 2) \in {0, 1}
  <2>1. 2 * 2 = 4 OBVIOUS
  <2>2. (s + 2) \div 4 = (s \div 2 + 1) \div 2 BY SMTT(30)
  <2>3. ((s \div 2 + 1) \div 2) % 2 \in {0, 1} BY SMTT(30)
  <2> QED BY <2>1, <2>2, <2>3, Zenon DEF Bit, UnitBit
<1>3. Bit(s, 4) = UnitBit(s, 4) /\ Bit(s, 4) \in {0, 1}
  <2>1. 2 * 4 = 8 OBVIOUS
  <2>2. (s + 4) \div 8 = (s \div 4 + 1) \div 2 BY SMTT(30)
  <2>3. ((s \div 4 + 1) \div 2) % 2 \in {0, 1} BY SMTT(30)
  <2> QED BY <2>1, <2>2, <2>3, Zenon DEF Bit, UnitBit
<1>4. Bit(s, 8) = UnitBit(s, 8) /\ Bit(s, 8) \in {0, 1}
  <2>1. 2 * 8 = 16 OBVIOUS
  <2>2. (s + 8) \div 16 = (s \div 8 + 1) \div 2 BY SMTT(30)
  <2>3. ((s \div 8 + 1) \div 2) % 2 \in {0, 1} BY SMTT(30)
  <2> QED BY <2>1, <2>2, <2>3, Zenon DEF Bit, UnitBit
<1>5. Bit(s, 16) = UnitBit(s, 16) /\ Bit(s, 16) \in {0, 1}
  <2>1. 2 * 16 = 32 OBVIOUS
  <2>2. (s + 16) \div 32 = (s \div 16 + 1) \div 2 BY SMTT(30)
  <2>3. ((s \div 16 + 1) \div 2) % 2 \in {0, 1} BY SMTT(30)
  <2> QED BY <2>1, <2>2, <2>3, Zenon DEF Bit, UnitBit
<1>6. Bit(s, 32) = UnitBit(s, 32) /\ Bit(s, 32) \in {0, 1}
  <2>1. 2 * 32 = 64 OBVIOUS
  <2>2. (s + 32) \div 64 = (s \div 32 + 1) \div 2 BY SMTT(30)
  <2>3. ((s \div 32 + 1) \div 2) % 2 \in {0, 1} BY SMTT(30)
  <2> QED BY <2>1, <2>2, <2>3, Zenon DEF Bit, UnitBit
<1>7. Bit(s, 64) = UnitBit(s, 64) /\ Bit(s, 64) \in {0, 1}
  <2>1. 2 * 64 = 128 OBVIOUS
  <2>2. (s + 64) \div 128 = (s \div 64 + 1) \div 2 BY SMTT(30)
  <2>3. ((s \div 64 + 1) \div 2) % 2 \in {0, 1} BY SMTT(30)
  <2> QED BY <2>1, <2>2, <2>3, Zenon DEF Bit, UnitBit
<1>8. Bit(s, 128) = UnitBit(s, 128) /\ Bit(s, 128) \in {0, 1}
  <2>1. 2 * 128 = 256 OBVIOUS
  <2>2. (s + 128) \div 256 = (s \div 128 + 1) \div 2 BY SMTT(30)
  <2>3. ((s \div 128 + 1) \div 2) % 2 \in {0, 1} BY SMTT(30)
  <2> QED BY <2>1, <2>2, <2>3, Zenon DEF Bit, UnitBit
<1> QED BY <1>1, <1>2, <1>3, <1>4, <1>5, <1>6, <1>7, <1>8

LEMMA HalfAndBit ==
  ASSUME NEW a \in Nat, NEW b \in Nat, a \div 2 = b \div 2,
         ((a + 1) \div 2) % 2 = ((b + 1) \div 2) % 2
  PROVE  a = b
  BY SMTT(30)

\* A count is known from all eight lanes.
LEMMA GrayOneToOne ==
  ASSUME NEW s \in 0 .. 255, NEW t \in 0 .. 255, Gray(s, 8) = Gray(t, 8)
  PROVE  s = t
<1>1. s \in Nat /\ t \in Nat OBVIOUS
<1>2. /\ Bit(s, 1) = UnitBit(s, 1) /\ Bit(s, 1) \in {0, 1}
      /\ Bit(s, 2) = UnitBit(s, 2) /\ Bit(s, 2) \in {0, 1}
      /\ Bit(s, 4) = UnitBit(s, 4) /\ Bit(s, 4) \in {0, 1}
      /\ Bit(s, 8) = UnitBit(s, 8) /\ Bit(s, 8) \in {0, 1}
      /\ Bit(s, 16) = UnitBit(s, 16) /\ Bit(s, 16) \in {0, 1}
      /\ Bit(s, 32) = UnitBit(s, 32) /\ Bit(s, 32) \in {0, 1}
      /\ Bit(s, 64) = UnitBit(s, 64) /\ Bit(s, 64) \in {0, 1}
      /\ Bit(s, 128) = UnitBit(s, 128) /\ Bit(s, 128) \in {0, 1}
  BY <1>1, BitOfUnits
<1>3. /\ Bit(t, 1) = UnitBit(t, 1) /\ Bit(t, 1) \in {0, 1}
      /\ Bit(t, 2) = UnitBit(t, 2) /\ Bit(t, 2) \in {0, 1}
      /\ Bit(t, 4) = UnitBit(t, 4) /\ Bit(t, 4) \in {0, 1}
      /\ Bit(t, 8) = UnitBit(t, 8) /\ Bit(t, 8) \in {0, 1}
      /\ Bit(t, 16) = UnitBit(t, 16) /\ Bit(t, 16) \in {0, 1}
      /\ Bit(t, 32) = UnitBit(t, 32) /\ Bit(t, 32) \in {0, 1}
      /\ Bit(t, 64) = UnitBit(t, 64) /\ Bit(t, 64) \in {0, 1}
      /\ Bit(t, 128) = UnitBit(t, 128) /\ Bit(t, 128) \in {0, 1}
  BY <1>1, BitOfUnits
<1>4. /\ Bit(s, 1) = Bit(t, 1)
      /\ Bit(s, 2) = Bit(t, 2)
      /\ Bit(s, 4) = Bit(t, 4)
      /\ Bit(s, 8) = Bit(t, 8)
      /\ Bit(s, 16) = Bit(t, 16)
      /\ Bit(s, 32) = Bit(t, 32)
      /\ Bit(s, 64) = Bit(t, 64)
      /\ Bit(s, 128) = Bit(t, 128)
  <2>1. Bit(s, 1) * 1 + Bit(s, 2) * 2 + Bit(s, 4) * 4 + Bit(s, 8) * 8 + Bit(s, 16) * 16
        + Bit(s, 32) * 32 + Bit(s, 64) * 64 + Bit(s, 128) * 128
        = Bit(t, 1) * 1 + Bit(t, 2) * 2 + Bit(t, 4) * 4 + Bit(t, 8) * 8 + Bit(t, 16) * 16
          + Bit(t, 32) * 32 + Bit(t, 64) * 64 + Bit(t, 128) * 128
    BY <1>1, GrayBits, SMTT(30)
  <2> QED BY <1>2, <1>3, <2>1, SMTT(60)
<1>5. s \div 256 = t \div 256 OBVIOUS
<1>6. s \div 128 = t \div 128
  <2>1. (s \div 128) \div 2 = s \div 256 /\ (t \div 128) \div 2 = t \div 256 BY <1>1, SMTT(30)
  <2>2. s \div 128 \in Nat /\ t \div 128 \in Nat BY <1>1, SMTT(30)
  <2>3. UnitBit(s, 128) = UnitBit(t, 128) BY <1>2, <1>3, <1>4
  <2>4. ((s \div 128 + 1) \div 2) % 2 = ((t \div 128 + 1) \div 2) % 2 BY <2>3 DEF UnitBit
  <2>5. (s \div 128) \div 2 = (t \div 128) \div 2 BY <2>1, <1>5
  <2> QED BY <2>2, <2>4, <2>5, HalfAndBit
<1>7. s \div 64 = t \div 64
  <2>1. (s \div 64) \div 2 = s \div 128 /\ (t \div 64) \div 2 = t \div 128 BY <1>1, SMTT(30)
  <2>2. s \div 64 \in Nat /\ t \div 64 \in Nat BY <1>1, SMTT(30)
  <2>3. UnitBit(s, 64) = UnitBit(t, 64) BY <1>2, <1>3, <1>4
  <2>4. ((s \div 64 + 1) \div 2) % 2 = ((t \div 64 + 1) \div 2) % 2 BY <2>3 DEF UnitBit
  <2>5. (s \div 64) \div 2 = (t \div 64) \div 2 BY <2>1, <1>6
  <2> QED BY <2>2, <2>4, <2>5, HalfAndBit
<1>8. s \div 32 = t \div 32
  <2>1. (s \div 32) \div 2 = s \div 64 /\ (t \div 32) \div 2 = t \div 64 BY <1>1, SMTT(30)
  <2>2. s \div 32 \in Nat /\ t \div 32 \in Nat BY <1>1, SMTT(30)
  <2>3. UnitBit(s, 32) = UnitBit(t, 32) BY <1>2, <1>3, <1>4
  <2>4. ((s \div 32 + 1) \div 2) % 2 = ((t \div 32 + 1) \div 2) % 2 BY <2>3 DEF UnitBit
  <2>5. (s \div 32) \div 2 = (t \div 32) \div 2 BY <2>1, <1>7
  <2> QED BY <2>2, <2>4, <2>5, HalfAndBit
<1>9. s \div 16 = t \div 16
  <2>1. (s \div 16) \div 2 = s \div 32 /\ (t \div 16) \div 2 = t \div 32 BY <1>1, SMTT(30)
  <2>2. s \div 16 \in Nat /\ t \div 16 \in Nat BY <1>1, SMTT(30)
  <2>3. UnitBit(s, 16) = UnitBit(t, 16) BY <1>2, <1>3, <1>4
  <2>4. ((s \div 16 + 1) \div 2) % 2 = ((t \div 16 + 1) \div 2) % 2 BY <2>3 DEF UnitBit
  <2>5. (s \div 16) \div 2 = (t \div 16) \div 2 BY <2>1, <1>8
  <2> QED BY <2>2, <2>4, <2>5, HalfAndBit
<1>10. s \div 8 = t \div 8
  <2>1. (s \div 8) \div 2 = s \div 16 /\ (t \div 8) \div 2 = t \div 16 BY <1>1, SMTT(30)
  <2>2. s \div 8 \in Nat /\ t \div 8 \in Nat BY <1>1, SMTT(30)
  <2>3. UnitBit(s, 8) = UnitBit(t, 8) BY <1>2, <1>3, <1>4
  <2>4. ((s \div 8 + 1) \div 2) % 2 = ((t \div 8 + 1) \div 2) % 2 BY <2>3 DEF UnitBit
  <2>5. (s \div 8) \div 2 = (t \div 8) \div 2 BY <2>1, <1>9
  <2> QED BY <2>2, <2>4, <2>5, HalfAndBit
<1>11. s \div 4 = t \div 4
  <2>1. (s \div 4) \div 2 = s \div 8 /\ (t \div 4) \div 2 = t \div 8 BY <1>1, SMTT(30)
  <2>2. s \div 4 \in Nat /\ t \div 4 \in Nat BY <1>1, SMTT(30)
  <2>3. UnitBit(s, 4) = UnitBit(t, 4) BY <1>2, <1>3, <1>4
  <2>4. ((s \div 4 + 1) \div 2) % 2 = ((t \div 4 + 1) \div 2) % 2 BY <2>3 DEF UnitBit
  <2>5. (s \div 4) \div 2 = (t \div 4) \div 2 BY <2>1, <1>10
  <2> QED BY <2>2, <2>4, <2>5, HalfAndBit
<1>12. s \div 2 = t \div 2
  <2>1. (s \div 2) \div 2 = s \div 4 /\ (t \div 2) \div 2 = t \div 4 BY <1>1, SMTT(30)
  <2>2. s \div 2 \in Nat /\ t \div 2 \in Nat BY <1>1, SMTT(30)
  <2>3. UnitBit(s, 2) = UnitBit(t, 2) BY <1>2, <1>3, <1>4
  <2>4. ((s \div 2 + 1) \div 2) % 2 = ((t \div 2 + 1) \div 2) % 2 BY <2>3 DEF UnitBit
  <2>5. (s \div 2) \div 2 = (t \div 2) \div 2 BY <2>1, <1>11
  <2> QED BY <2>2, <2>4, <2>5, HalfAndBit
<1>13. s \div 1 = t \div 1
  <2>1. (s \div 1) \div 2 = s \div 2 /\ (t \div 1) \div 2 = t \div 2 BY <1>1, SMTT(30)
  <2>2. s \div 1 \in Nat /\ t \div 1 \in Nat BY <1>1, SMTT(30)
  <2>3. UnitBit(s, 1) = UnitBit(t, 1) BY <1>2, <1>3, <1>4
  <2>4. ((s \div 1 + 1) \div 2) % 2 = ((t \div 1 + 1) \div 2) % 2 BY <2>3 DEF UnitBit
  <2>5. (s \div 1) \div 2 = (t \div 1) \div 2 BY <2>1, <1>12
  <2> QED BY <2>2, <2>4, <2>5, HalfAndBit
<1>14. s \div 1 = s /\ t \div 1 = t OBVIOUS
<1> QED BY <1>13, <1>14

LEMMA FullWord ==
  ASSUME NEW s \in 0 .. 255
  PROVE  FromGray(Gray(s, 8)) = s
  BY GrayOneToOne DEF FromGray
---------------------------------------------------------------------------
(* One step of the walk.                                                   *)

LEMMA FollowIs ==
  ASSUME NEW symbol \in Int, NEW value, NEW d \in 0 .. 2, value = Seen((symbol + d) % 256),
         \A o \in 0 .. 2 : o < d => value # Seen((symbol + o) % 256)
  PROVE  Follow(symbol, value) = (symbol + d) % 256
<1> DEFINE fits == {o \in 0 .. 2 : value = Seen((symbol + o) % 256)}
<1>1. d \in fits /\ \A o \in fits : d <= o OBVIOUS
<1>2. (CHOOSE o \in fits : \A p \in fits : o <= p) = d
  <2>1. \A o \in fits : (\A p \in fits : o <= p) => o = d BY <1>1
  <2>2. \E o \in fits : \A p \in fits : o <= p BY <1>1
  <2> HIDE DEF fits
  <2> QED BY <2>1, <2>2
<1> QED BY <1>1, <1>2 DEF Follow

LEMMA FollowNone ==
  ASSUME NEW symbol \in Int, NEW value, \A d \in 0 .. 2 : value # Seen((symbol + d) % 256)
  PROVE  Follow(symbol, value) = -1
  BY DEF Follow

\* The counts of the walk and of the source differ by one at most, where the lanes do not show it.
LEMMA FollowKeeps ==
  ASSUME host.profile.lanes \in 1 .. 8, NEW x \in Int, NEW k \in 0 .. 2,
         k = 2 => Seen((x - 2) % 256) = Seen((x - 1) % 256)
  PROVE  \E lag \in {0, 1} :
            /\ lag <= k
            /\ Follow((x - k) % 256, Seen(x % 256)) = (x - lag) % 256
            /\ lag = 1 => Seen((x - 1) % 256) = Seen(x % 256)
<1>1. \A d \in 0 .. 2 : (((x - k) % 256) + d) % 256 = (x - k + d) % 256 OBVIOUS
<1>2. (x - k) % 256 \in Int OBVIOUS
<1>3. Seen((x - 2) % 256) # Seen(x % 256) BY TwoApart DEF Seen
<1>4. CASE k = 0
  <2>1. Follow((x - k) % 256, Seen(x % 256)) = (((x - k) % 256) + 0) % 256
    BY <1>1, <1>2, <1>4, FollowIs
  <2> QED BY <1>1, <1>4, <2>1
<1>5. CASE k = 1 /\ Seen((x - 1) % 256) = Seen(x % 256)
  <2>1. Follow((x - k) % 256, Seen(x % 256)) = (((x - k) % 256) + 0) % 256
    BY <1>1, <1>2, <1>5, FollowIs
  <2> QED BY <1>1, <1>5, <2>1
<1>6. CASE k = 1 /\ Seen((x - 1) % 256) # Seen(x % 256)
  <2>1. Follow((x - k) % 256, Seen(x % 256)) = (((x - k) % 256) + 1) % 256
    <3>1. \A o \in 0 .. 2 : o < 1 => o = 0 OBVIOUS
    <3> QED BY <1>1, <1>2, <1>6, <3>1, FollowIs
  <2> QED BY <1>1, <1>6, <2>1
<1>7. CASE k = 2
  <2>1. Seen((x - 1) % 256) # Seen(x % 256) BY <1>3, <1>7
  <2>2. Follow((x - k) % 256, Seen(x % 256)) = (((x - k) % 256) + 2) % 256
    <3>1. \A o \in 0 .. 2 : o < 2 => o = 0 \/ o = 1 OBVIOUS
    <3> QED BY <1>1, <1>2, <1>3, <1>7, <2>1, <3>1, FollowIs
  <2> QED BY <1>1, <1>7, <2>2
<1> QED BY <1>4, <1>5, <1>6, <1>7

---------------------------------------------------------------------------
(* The walks of a block of two lanes that has no snapshot.                 *)

\* The lanes repeat every eight counts, and show each of their values twice in these.
Shown(r) == IF r \in {0, 7} THEN 0 ELSE IF r \in {1, 6} THEN 1 ELSE IF r \in {2, 5} THEN 3 ELSE 2

LEMMA SeenShown ==
  ASSUME host.profile.lanes = 2, NEW y \in Int
  PROVE  Seen(y % 256) = Shown(y % 8)
<1>1. y % 256 \in Nat /\ (y % 256) % 8 = y % 8 OBVIOUS
<1> QED BY <1>1, TwoLanes DEF Seen, Shown

LEMMA FollowEight ==
  ASSUME host.profile.lanes = 2, NEW symbol \in 0 .. 255, NEW x \in Int, NEW k \in 0 .. 2,
         symbol % 8 = (x - k) % 8, k = 2 => x % 4 = 1
  PROVE  \E lag \in {0, 1} :
            /\ lag <= k
            /\ Follow(symbol, Seen(x % 256)) = (symbol + k - lag) % 256
            /\ ((symbol + k - lag) % 256) % 8 = (x - lag) % 8
            /\ lag = 1 => x % 4 = 0
<1> DEFINE r == x % 8
<1>1. r \in 0 .. 7 OBVIOUS
<1>2. Seen(x % 256) = Shown(r) BY SeenShown
<1>3. \A d \in 0 .. 2 : Seen((symbol + d) % 256) = Shown((r - k + d) % 8)
  <2> TAKE d \in 0 .. 2
  <2>1. (symbol + d) % 8 = (r - k + d) % 8 BY SMTT(30)
  <2> QED BY <2>1, SeenShown
<1>4. \A lag \in {0, 1} : ((symbol + k - lag) % 256) % 8 = (x - lag) % 8 BY SMTT(30)
<1>5. x % 4 = r % 4 BY SMTT(30)
<1> HIDE DEF r
<1>6. CASE k = 0
  <2>1. (r - k + 0) % 8 = r BY <1>1, <1>6
  <2>2. Follow(symbol, Seen(x % 256)) = (symbol + 0) % 256
    BY <1>2, <1>3, <2>1, FollowIs
  <2> QED BY <1>4, <1>6, <2>2
<1>7. CASE k = 1 /\ r \in {0, 4}
  <2>1. Shown((r - k + 0) % 8) = Shown(r) BY <1>7 DEF Shown
  <2>2. Follow(symbol, Seen(x % 256)) = (symbol + 0) % 256
    BY <1>2, <1>3, <2>1, FollowIs
  <2> QED BY <1>4, <1>5, <1>7, <2>2
<1>8. CASE k = 1 /\ r \notin {0, 4}
  <2>1. Shown((r - k + 0) % 8) # Shown(r) /\ (r - k + 1) % 8 = r BY <1>1, <1>8 DEF Shown
  <2>2. \A o \in 0 .. 2 : o < 1 => o = 0 OBVIOUS
  <2>3. Follow(symbol, Seen(x % 256)) = (symbol + 1) % 256
    BY <1>2, <1>3, <2>1, <2>2, FollowIs
  <2> QED BY <1>4, <1>8, <2>3
<1>9. CASE k = 2
  <2>1. r \in {1, 5} BY <1>1, <1>5, <1>9
  <2>2. /\ Shown((r - k + 0) % 8) # Shown(r) /\ Shown((r - k + 1) % 8) # Shown(r)
        /\ (r - k + 2) % 8 = r
    BY <1>9, <2>1 DEF Shown
  <2>3. \A o \in 0 .. 2 : o < 2 => o = 0 \/ o = 1 OBVIOUS
  <2>4. Follow(symbol, Seen(x % 256)) = (symbol + 2) % 256
    BY <1>2, <1>3, <2>2, <2>3, FollowIs
  <2> QED BY <1>4, <1>9, <2>4
<1> QED BY <1>1, <1>6, <1>7, <1>8, <1>9

\* At the first edge of a block the walk that counts backwards ends, or joins the other.
LEMMA FirstEdge ==
  ASSUME host.profile.lanes = 2, NEW a \in 0 .. 7, NEW start \in 0 .. 255,
         Seen(a) = Seen(start), Follow(a, Seen((start + 1) % 256)) # -1
  PROVE  \E ahead \in {-1, 0, 1}, lag \in {0, 1} :
            /\ Follow(a, Seen((start + 1) % 256)) = (a + 1 - ahead - lag) % 256
            /\ ((a + 1 - ahead - lag) % 256) % 8 = (start + 1 - lag) % 8
            /\ ahead = 1 => start % 4 = 3
            /\ lag = 1 => (start + 1) % 4 = 0
<1> DEFINE r == start % 8
<1>1. r \in 0 .. 7 OBVIOUS
<1>2. Shown(a) = Shown(r)
  <2>1. a % 256 = a /\ a % 8 = a /\ start % 256 = start OBVIOUS
  <2> QED BY <2>1, SeenShown
<1>3. Seen((start + 1) % 256) = Shown((r + 1) % 8)
  <2>1. (start + 1) % 8 = (r + 1) % 8 BY SMTT(30)
  <2> QED BY <2>1, SeenShown
<1>4. \A d \in 0 .. 2 : Seen((a + d) % 256) = Shown((a + d) % 8) BY SeenShown
<1>5. start % 4 = r % 4 /\ (start + 1) % 4 = (r + 1) % 4 BY SMTT(30)
<1>6. \A lag \in {0, 1} : (start + 1 - lag) % 8 = (r + 1 - lag) % 8 BY SMTT(30)
<1> HIDE DEF r
<1>7. CASE a = r
  <2>1. PICK x \in Int : x = start + 1 OBVIOUS
  <2>2. PICK k \in 0 .. 2 : k = 1 OBVIOUS
  <2>3. a % 8 = (x - k) % 8 /\ a \in 0 .. 255 /\ (k = 2 => x % 4 = 1) BY <1>7, <2>1, <2>2 DEF r
  <2>4. PICK lag \in {0, 1} :
           /\ lag <= k
           /\ Follow(a, Seen(x % 256)) = (a + k - lag) % 256
           /\ ((a + k - lag) % 256) % 8 = (x - lag) % 8
           /\ lag = 1 => x % 4 = 0
    BY <2>3, FollowEight, ZenonT(30)
  <2>5. a + k - lag = a + 1 - 0 - lag BY <2>2
  <2> QED BY <2>1, <2>4, <2>5
<1>8. a = r \/ a = 7 - r BY <1>1, <1>2 DEF Shown
<1>9. CASE r = 0 /\ a = 7
  <2>1. Shown((7 + 0) % 8) # Shown((r + 1) % 8) /\ Shown((7 + 1) % 8) # Shown((r + 1) % 8)
        /\ Shown((7 + 2) % 8) = Shown((r + 1) % 8)
    BY <1>9 DEF Shown
  <2>2. \A o \in 0 .. 2 : o < 2 => o = 0 \/ o = 1 OBVIOUS
  <2>3. Follow(a, Seen((start + 1) % 256)) = (a + 2) % 256
    BY <1>3, <1>4, <1>9, <2>1, <2>2, FollowIs
  <2>4. a + 2 = a + 1 - (-1) - 0 OBVIOUS
  <2>5. ((a + 2) % 256) % 8 = (start + 1 - 0) % 8 BY <1>6, <1>9
  <2> QED BY <2>3, <2>4, <2>5
<1>10. CASE r = 4 /\ a = 3
  <2>1. Shown((3 + 0) % 8) # Shown((r + 1) % 8) /\ Shown((3 + 1) % 8) # Shown((r + 1) % 8)
        /\ Shown((3 + 2) % 8) = Shown((r + 1) % 8)
    BY <1>10 DEF Shown
  <2>2. \A o \in 0 .. 2 : o < 2 => o = 0 \/ o = 1 OBVIOUS
  <2>3. Follow(a, Seen((start + 1) % 256)) = (a + 2) % 256
    BY <1>3, <1>4, <1>10, <2>1, <2>2, FollowIs
  <2>4. a + 2 = a + 1 - (-1) - 0 OBVIOUS
  <2>5. ((a + 2) % 256) % 8 = (start + 1 - 0) % 8 BY <1>6, <1>10
  <2> QED BY <2>3, <2>4, <2>5
<1>11. CASE (r = 3 /\ a = 4) \/ (r = 7 /\ a = 0)
  <2>1. Shown((a + 0) % 8) = Shown((r + 1) % 8) BY <1>11 DEF Shown
  <2>2. Follow(a, Seen((start + 1) % 256)) = (a + 0) % 256
    BY <1>3, <1>4, <2>1, FollowIs
  <2>3. a + 0 = a + 1 - 1 - 0 OBVIOUS
  <2>4. start % 4 = 3 BY <1>5, <1>11
  <2>5. ((a + 0) % 256) % 8 = (r + 1 - 0) % 8 BY <1>11
  <2> QED BY <1>6, <2>2, <2>3, <2>4, <2>5
<1>12. CASE (r = 1 /\ a = 6) \/ (r = 2 /\ a = 5) \/ (r = 5 /\ a = 2) \/ (r = 6 /\ a = 1)
  <2>1. /\ Shown((a + 0) % 8) # Shown((r + 1) % 8) /\ Shown((a + 1) % 8) # Shown((r + 1) % 8)
        /\ Shown((a + 2) % 8) # Shown((r + 1) % 8)
    BY <1>12 DEF Shown
  <2>2. \A o \in 0 .. 2 : o = 0 \/ o = 1 \/ o = 2 OBVIOUS
  <2> QED BY <1>3, <1>4, <2>1, <2>2, FollowNone
<1> QED BY <1>1, <1>7, <1>8, <1>9, <1>10, <1>11, <1>12
---------------------------------------------------------------------------
(* The inductive invariant.                                                *)

Types ==
  /\ host \in [profile : Profiles, index : Nat, binary0 : 0 .. 255, symbol : 0 .. 255,
               walks : SUBSET ((0 .. 7) \X (0 .. 255)), failed : BOOLEAN,
               previous : -1 .. 255, bad : Nat, blocks : Nat]
  /\ wire \in {"whole", "lost", "repeated"}
  /\ dev \in [count : 0 .. 255, left : 1 .. 5, late : {0, 1}]
  /\ dev.left - dev.late \in 0 .. 4
  /\ host.index <= host.profile.samples /\ host.blocks <= MaxBlocks

\* The samples since the edge was due that brought the counter where it is.
Since == 4 - dev.left + dev.late

\* The block began with the counter at start, and there were so many edges up to the last sample.
Timed(start, edges) ==
  \E r0 \in 0 .. 4, r1 \in 0 .. 4 :
     /\ 4 * edges + r1 = host.index - 1 + r0
     /\ \/ dev.count = (start + edges) % 256 /\ Since = r1 + 1
        \/ dev.count = (start + edges + 1) % 256 /\ Since = r1 - 3

\* The lanes do not tell count x - k of the walk from the counts up to x.
Behind(x, k) == k = 2 => Seen((x - 2) % 256) = Seen((x - 1) % 256)

\* The walk from a known count: its counts are those of the source or, without a snapshot, differ
\* from them by full turns of the lanes; either may be one behind where the lanes do not show it.
Counts(own, first, last, start, edges) ==
  /\ own % 8 = start % 8
  /\ host.profile.anchored => own = start /\ first = 0
  /\ host.binary0 = (own - first) % 256
  /\ host.symbol = (own + edges - last) % 256
  /\ edges + first - last \in Nat
  /\ last = 1 => Seen((own + edges - 1) % 256) = Seen((own + edges) % 256)

Single(start, edges) ==
  /\ host.walks = {} /\ ~host.failed
  /\ \E own \in Int, first \in {0, 1}, last \in {0, 1} : Counts(own, first, last, start, edges)

\* A walk from an anchor: ahead of the source at the start by its anchor, behind it now by last.
Walk(anchor, symbol, start, edges) ==
  IF edges = 0 THEN symbol = anchor /\ Seen(anchor) = Seen(start)
  ELSE \E ahead \in {-1, 0, 1}, last \in {0, 1} :
          /\ symbol = (anchor + edges - ahead - last) % 256
          /\ symbol % 8 = (start + edges - last) % 8
          /\ ahead = 1 => start % 4 = 3
          /\ last = 1 => (start + edges) % 4 = 0

Several(start, edges) ==
  /\ ~host.profile.anchored /\ ~host.failed /\ host.walks # {}
  /\ edges = 0 => <<start % 8, start % 8>> \in host.walks
  /\ \A w \in host.walks : Walk(w[1], w[2], start, edges)

InBlock ==
  \E start \in 0 .. 255, edges \in Nat :
     Timed(start, edges) /\ (Single(start, edges) \/ Several(start, edges))

\* The counter since the block before began, but for a jump.
Apart(jump) ==
  \E edges \in Nat, r0 \in 0 .. 4 :
     /\ 4 * edges + Since = host.profile.samples + r0
     /\ dev.count = (host.previous + edges + jump) % 256

Between ==
  /\ host.walks = {} /\ ~host.failed
  /\ host.blocks = 0 => host.previous = -1
  /\ host.blocks # 0 =>
       /\ host.previous # -1
       /\ host.profile.anchored => Apart(0)
       /\ ~host.profile.anchored =>
            \E x \in Int, k \in 0 .. 2 :
               /\ host.previous = (x - k) % 256 /\ x % 8 = dev.count % 8
               /\ Behind(x, k)

\* Nothing is wrong with a stream that nothing happened to.
Undisturbed ==
  wire = "whole" =>
    /\ host.bad = 0
    /\ host.index = 0 => Between
    /\ host.index # 0 => InBlock

\* What was lost or repeated shows at the next snapshot, and there is one.
Marred ==
  wire # "whole" /\ host.profile.anchored =>
    \/ host.bad > 0
    \/ /\ host.index = 0 /\ host.blocks < MaxBlocks /\ host.previous # -1
       /\ \E jump \in {host.profile.samples \div 4, -(host.profile.samples \div 4)} : Apart(jump)

\* A block is begun only where there is one.
Inside == host.index # 0 => host.blocks < MaxBlocks

IInv == Types /\ Undisturbed /\ Marred /\ Inside

---------------------------------------------------------------------------
(* The profiles and the clock.                                             *)

LEMMA ProfileFacts ==
  ASSUME NEW p \in Profiles
  PROVE  /\ p.samples \in {64, 128, 256} /\ p.lanes \in 1 .. 8 /\ p.step \in {0, 32}
         /\ p.low \in Nat /\ p.high \in Nat /\ p.anchored \in BOOLEAN
         /\ p.anchored => \/ p.samples = 64 /\ p.low = 14 /\ p.high = 17 /\ p.step = 0
                          \/ p.samples = 128 /\ p.low = 30 /\ p.high = 34
         /\ ~p.anchored => /\ p.samples = 256 /\ p.lanes = 2 /\ p.low = 62 /\ p.high = 66
                           /\ p.step = 0
<1>1. p \in {Legacy, Wide, Four, Five, Two}
  BY DEF Profiles, e106_profiles, e107_profiles, e108_profiles, e109_profiles, e110_profiles,
         e111_profiles, e112_profiles, e113_profiles, e114_profiles, e117_profiles
<1>2. CASE p = Legacy BY <1>2 DEF Legacy, Profile
<1>3. CASE p = Wide BY <1>3 DEF Wide, Profile
<1>4. CASE p = Four BY <1>4 DEF Four, Profile
<1>5. CASE p = Five BY <1>5 DEF Five, Profile
<1>6. CASE p = Two BY <1>6 DEF Two, Profile
<1> QED BY <1>1, <1>2, <1>3, <1>4, <1>5, <1>6

LEMMA AdvanceKeeps ==
  ASSUME Types, Advance
  PROVE  /\ dev' \in [count : 0 .. 255, left : 1 .. 5, late : {0, 1}]
         /\ dev'.left - dev'.late \in 0 .. 4
         /\ \/ Since' = Since + 1 /\ dev'.count = dev.count
            \/ Since' = Since - 3 /\ dev'.count = (dev.count + 1) % 256
<1>1. /\ dev \in [count : 0 .. 255, left : 1 .. 5, late : {0, 1}]
      /\ dev.left - dev.late \in 0 .. 4
  BY DEF Types
<1>2. CASE dev.left > 1
  <2>1. dev' = [dev EXCEPT !.left = @ - 1] BY <1>2 DEF Advance
  <2>2. dev'.left = dev.left - 1 /\ dev'.late = dev.late /\ dev'.count = dev.count BY <1>1, <2>1
  <2> QED BY <1>1, <1>2, <2>1, <2>2 DEF Since
<1>3. CASE ~(dev.left > 1)
  <2>1. PICK late \in {0, 1} :
           dev' = [count |-> (dev.count + 1) % 256, left |-> 4 + late - dev.late, late |-> late]
    BY <1>3 DEF Advance
  <2>2. dev'.left = 4 + late - dev.late /\ dev'.late = late /\ dev'.count = (dev.count + 1) % 256
    BY <2>1
  <2>3. dev.left = 1 BY <1>1, <1>3
  <2>4. dev'.left \in 1 .. 5 /\ dev'.left - dev'.late \in 0 .. 4 BY <1>1, <2>2, <2>3
  <2>5. (dev.count + 1) % 256 \in 0 .. 255 BY <1>1
  <2>6. Since' = Since - 3 BY <1>1, <2>2, <2>3 DEF Since
  <2> QED BY <1>1, <2>1, <2>2, <2>4, <2>5, <2>6
<1> QED BY <1>2, <1>3

LEMMA SinceSmall ==
  ASSUME Types
  PROVE  Since \in 0 .. 4
  BY DEF Types, Since

\* One sample further in a block there is an edge more or there is none.
LEMMA TimedStep ==
  ASSUME Types, Advance, NEW start \in 0 .. 255, NEW edges \in Nat, Timed(start, edges),
         host'.index = host.index + 1, host.index # 0
  PROVE  \E more \in {0, 1} :
            /\ dev.count = (start + (edges + more)) % 256
            /\ Timed(start, edges + more)'
            /\ \E r0 \in 0 .. 4, r1 \in 0 .. 4 : 4 * (edges + more) + r1 = host.index + r0
<1>1. PICK r0 \in 0 .. 4, r1 \in 0 .. 4 :
         /\ 4 * edges + r1 = host.index - 1 + r0
         /\ \/ dev.count = (start + edges) % 256 /\ Since = r1 + 1
            \/ dev.count = (start + edges + 1) % 256 /\ Since = r1 - 3
  BY DEF Timed
<1>2. Since \in 0 .. 4 BY SinceSmall
<1>3. \/ Since' = Since + 1 /\ dev'.count = dev.count
      \/ Since' = Since - 3 /\ dev'.count = (dev.count + 1) % 256
  BY AdvanceKeeps
<1>4. host.index \in Nat BY DEF Types
<1>5. PICK more \in {0, 1} :
         /\ dev.count = (start + (edges + more)) % 256
         /\ Since = r1 + 1 - 4 * more
  BY <1>1
<1>6. 4 * (edges + more) + Since = host.index + r0 BY <1>1, <1>2, <1>4, <1>5
<1>7. 4 * (edges + more) + Since = host'.index - 1 + r0 BY <1>4, <1>6
<1>8. (dev.count + 1) % 256 = (start + (edges + more) + 1) % 256 BY <1>5
<1>9. \/ dev'.count = (start + (edges + more)) % 256 /\ Since' = Since + 1
      \/ dev'.count = (start + (edges + more) + 1) % 256 /\ Since' = Since - 3
  BY <1>3, <1>5, <1>8
<1>10. Timed(start, edges + more)' BY <1>2, <1>7, <1>9 DEF Timed
<1> QED BY <1>2, <1>5, <1>6, <1>10
---------------------------------------------------------------------------
(* The types.                                                              *)

LEMMA FollowRange ==
  ASSUME NEW symbol \in Int, NEW value
  PROVE  Follow(symbol, value) \in -1 .. 255
<1>1. CASE \A d \in 0 .. 2 : value # Seen((symbol + d) % 256)
  BY <1>1, FollowNone
<1>2. CASE \E d \in 0 .. 2 : value = Seen((symbol + d) % 256)
  <2>1. PICK d \in 0 .. 2 :
           /\ value = Seen((symbol + d) % 256)
           /\ \A o \in 0 .. 2 : o < d => value # Seen((symbol + o) % 256)
    <3>1. CASE value = Seen((symbol + 0) % 256) BY <3>1
    <3>2. CASE value # Seen((symbol + 0) % 256) /\ value = Seen((symbol + 1) % 256)
      <4>1. \A o \in 0 .. 2 : o < 1 => o = 0 OBVIOUS
      <4> QED BY <3>2, <4>1
    <3>3. CASE value # Seen((symbol + 0) % 256) /\ value # Seen((symbol + 1) % 256)
      <4>1. \A o \in 0 .. 2 : o < 2 => o = 0 \/ o = 1 OBVIOUS
      <4>2. value = Seen((symbol + 2) % 256)
        <5>1. \A o \in 0 .. 2 : o = 0 \/ o = 1 \/ o = 2 OBVIOUS
        <5> QED BY <1>2, <3>3, <5>1
      <4> QED BY <3>3, <4>1, <4>2
    <3> QED BY <3>1, <3>2, <3>3
  <2>2. Follow(symbol, value) = (symbol + d) % 256 BY <2>1, FollowIs
  <2> QED BY <2>2
<1> QED BY <1>1, <1>2

HostRecord ==
  [profile : Profiles, index : Nat, binary0 : 0 .. 255, symbol : 0 .. 255,
   walks : SUBSET ((0 .. 7) \X (0 .. 255)), failed : BOOLEAN,
   previous : -1 .. 255, bad : Nat, blocks : Nat]

LEMMA HostTypes ==
  ASSUME Types
  PROVE  /\ host.binary0 \in 0 .. 255 /\ host.symbol \in 0 .. 255 /\ host.failed \in BOOLEAN
         /\ host.walks \in SUBSET ((0 .. 7) \X (0 .. 255)) /\ host.bad \in Nat
         /\ host.index \in Nat /\ host.profile \in Profiles /\ host \in HostRecord
  BY DEF Types, HostRecord

LEMMA OutsideIs ==
  ASSUME NEW low, NEW high, NEW delta
  PROVE  Outside(low, high, delta) \in {0, 1}
  BY DEF Outside

LEMMA AnchoredTypes ==
  ASSUME Types, NEW value, NEW next,
         next = FirstAnchored(value, Gray(dev.count, 8))
  PROVE  /\ next \in HostRecord /\ next.profile = host.profile /\ next.index = 1
         /\ next.blocks = host.blocks /\ next.bad >= host.bad
<1>1. host \in HostRecord /\ dev.count \in 0 .. 255 BY DEF Types, HostRecord
<1>2. PICK bad \in Nat :
         /\ bad >= host.bad
         /\ bad = IF host.previous = -1 THEN host.bad
                  ELSE host.bad + Outside(host.profile.low, host.profile.high, dev.count - host.previous)
  BY <1>1, OutsideIs DEF HostRecord
<1>3. next =
        [host EXCEPT !.index = 1, !.binary0 = dev.count, !.symbol = dev.count, !.bad = bad]
  BY <1>1, <1>2, FullWord DEF FirstAnchored, HostRecord
<1> DEFINE n1 == [host EXCEPT !.index = 1]
           n2 == [n1 EXCEPT !.binary0 = dev.count]
           n3 == [n2 EXCEPT !.symbol = dev.count]
           n4 == [n3 EXCEPT !.bad = bad]
<1>4. host \in HostRecord BY HostTypes
<1>5. /\ n1 \in HostRecord /\ n1.profile = host.profile /\ n1.blocks = host.blocks
      /\ n1.index = 1 /\ n1.bad = host.bad
  BY <1>4, <1>1, <1>2 DEF HostRecord
<1> HIDE DEF n1
<1>6. /\ n2 \in HostRecord /\ n2.profile = host.profile /\ n2.blocks = host.blocks
      /\ n2.index = 1 /\ n2.bad = host.bad
  BY <1>5, <1>1, <1>2 DEF HostRecord
<1> HIDE DEF n2
<1>7. /\ n3 \in HostRecord /\ n3.profile = host.profile /\ n3.blocks = host.blocks
      /\ n3.index = 1 /\ n3.bad = host.bad
  BY <1>6, <1>1, <1>2 DEF HostRecord
<1> HIDE DEF n3
<1>8. /\ n4 \in HostRecord /\ n4.profile = host.profile /\ n4.blocks = host.blocks
      /\ n4.index = 1 /\ n4.bad = bad
  BY <1>7, <1>1, <1>2 DEF HostRecord
<1> HIDE DEF n4
<1>9. next = n4 BY <1>3, Zenon DEF n1, n2, n3, n4
<1> QED BY <1>8, <1>9, <1>2

LEMMA FollowingTypes ==
  ASSUME Types, NEW value, host.previous # -1, NEW next,
         next = FirstFollowing(value)
  PROVE  /\ next \in HostRecord /\ next.profile = host.profile /\ next.index = 1
         /\ next.blocks = host.blocks /\ next.bad >= host.bad
<1> DEFINE near == {d \in 0 .. 3 : Seen((host.previous + d) % 256) = value}
           start == IF near = {} THEN host.previous
                    ELSE (host.previous + (CHOOSE d \in near : \A o \in near : d <= o)) % 256
<1>1. host \in HostRecord /\ host.previous \in 0 .. 255 BY DEF Types, HostRecord
<1>2. near # {} => (CHOOSE d \in near : \A o \in near : d <= o) \in near
  <2> SUFFICES ASSUME near # {} PROVE \E d \in near : \A o \in near : d <= o OBVIOUS
  <2>1. CASE 0 \in near BY <2>1
  <2>2. CASE 0 \notin near /\ 1 \in near
    <3>1. \A o \in near : 1 <= o BY <2>2
    <3> QED BY <2>2, <3>1
  <2>3. CASE 0 \notin near /\ 1 \notin near /\ 2 \in near
    <3>1. \A o \in near : 2 <= o BY <2>3
    <3> QED BY <2>3, <3>1
  <2>4. CASE 0 \notin near /\ 1 \notin near /\ 2 \notin near
    <3>1. \A o \in near : o = 3 BY <2>4
    <3> QED BY <3>1
  <2> QED BY <2>1, <2>2, <2>3, <2>4
<1>3. start \in 0 .. 255
  <2>1. CASE near = {} BY <1>1, <2>1
  <2>2. CASE near # {}
    <3>1. PICK d \in 0 .. 3 : start = (host.previous + d) % 256 BY <1>2, <2>2
    <3> QED BY <1>1, <3>1
  <2> QED BY <2>1, <2>2
<1>4. PICK bad \in Nat : bad >= host.bad /\ bad = IF near = {} THEN host.bad + 1 ELSE host.bad
  BY <1>1 DEF HostRecord
<1>5. next =
        [host EXCEPT !.index = 1, !.binary0 = start, !.symbol = start, !.bad = bad]
  BY <1>1, <1>4 DEF FirstFollowing, HostRecord
<1> HIDE DEF near, start
<1> DEFINE n1 == [host EXCEPT !.index = 1]
           n2 == [n1 EXCEPT !.binary0 = start]
           n3 == [n2 EXCEPT !.symbol = start]
           n4 == [n3 EXCEPT !.bad = bad]
<1>6. host \in HostRecord BY HostTypes
<1>7. /\ n1 \in HostRecord /\ n1.profile = host.profile /\ n1.blocks = host.blocks
      /\ n1.index = 1 /\ n1.bad = host.bad
  BY <1>6, <1>1, <1>3, <1>4 DEF HostRecord
<1> HIDE DEF n1
<1>8. /\ n2 \in HostRecord /\ n2.profile = host.profile /\ n2.blocks = host.blocks
      /\ n2.index = 1 /\ n2.bad = host.bad
  BY <1>7, <1>1, <1>3, <1>4 DEF HostRecord
<1> HIDE DEF n2
<1>9. /\ n3 \in HostRecord /\ n3.profile = host.profile /\ n3.blocks = host.blocks
      /\ n3.index = 1 /\ n3.bad = host.bad
  BY <1>8, <1>1, <1>3, <1>4 DEF HostRecord
<1> HIDE DEF n3
<1>10. /\ n4 \in HostRecord /\ n4.profile = host.profile /\ n4.blocks = host.blocks
      /\ n4.index = 1 /\ n4.bad = bad
  BY <1>9, <1>1, <1>3, <1>4 DEF HostRecord
<1> HIDE DEF n4
<1>11. next = n4 BY <1>5, Zenon DEF n1, n2, n3, n4
<1> QED BY <1>10, <1>11, <1>4

LEMMA AnchoringTypes ==
  ASSUME Types, NEW value, NEW next,
         next = FirstAnchoring(value)
  PROVE  /\ next \in HostRecord /\ next.profile = host.profile /\ next.index = 1
         /\ next.blocks = host.blocks /\ next.bad >= host.bad
<1>1. host \in HostRecord BY DEF Types, HostRecord
<1> DEFINE pairs == {<<a, a>> : a \in {a \in 0 .. 7 : Seen(a) = value}}
<1>2. pairs \subseteq (0 .. 7) \X (0 .. 255) OBVIOUS
<1>3. next =
        [host EXCEPT !.index = 1,
                     !.walks = pairs]
  BY <1>1 DEF FirstAnchoring, HostRecord
<1> DEFINE n1 == [host EXCEPT !.index = 1]
           n2 == [n1 EXCEPT !.walks = pairs]
<1>4. host \in HostRecord BY HostTypes
<1>5. /\ n1 \in HostRecord /\ n1.profile = host.profile /\ n1.blocks = host.blocks
      /\ n1.index = 1 /\ n1.bad = host.bad
  BY <1>4, <1>2 DEF HostRecord
<1> HIDE DEF n1
<1>6. /\ n2 \in HostRecord /\ n2.profile = host.profile /\ n2.blocks = host.blocks
      /\ n2.index = 1 /\ n2.bad = host.bad
  BY <1>5, <1>2 DEF HostRecord
<1> HIDE DEF n2
<1>7. next = n2 BY <1>3, Zenon DEF n1, n2
<1>8. host.bad \in Nat BY <1>1 DEF HostRecord
<1> QED BY <1>6, <1>7, <1>8

LEMMA WalkedTypes ==
  ASSUME Types, NEW value, NEW full, NEW next,
         next = Walked(value, full)
  PROVE  /\ next \in HostRecord /\ next.profile = host.profile /\ next.index = host.index + 1
         /\ next.blocks = host.blocks /\ next.bad >= host.bad
<1>1. host \in HostRecord /\ host.symbol \in Int BY DEF Types, HostRecord
<1>2. Snapshot(full) \in {0, 1} BY OutsideIs DEF Snapshot
<1>3. Follow(host.symbol, value) \in -1 .. 255 BY <1>1, FollowRange
<1>4. PICK step \in -1 .. 255 : step = Follow(host.symbol, value) BY <1>3
<1>5. PICK bad \in Nat :
         /\ bad >= host.bad
         /\ bad = host.bad + Snapshot(full) + (IF step = -1 /\ ~host.failed THEN 1 ELSE 0)
  BY <1>1, <1>2 DEF HostRecord
<1>6. PICK symbol \in 0 .. 255 : symbol = IF host.failed \/ step = -1 THEN host.symbol ELSE step
  BY <1>1, <1>4 DEF HostRecord
<1>7. PICK failed \in BOOLEAN : failed = (host.failed \/ step = -1) BY <1>1 DEF HostRecord
<1>8. next =
        [host EXCEPT !.index = host.index + 1, !.symbol = symbol, !.failed = failed, !.bad = bad]
  BY <1>1, <1>4, <1>5, <1>6, <1>7 DEF Walked, HostRecord
<1> DEFINE n1 == [host EXCEPT !.index = host.index + 1]
           n2 == [n1 EXCEPT !.symbol = symbol]
           n3 == [n2 EXCEPT !.failed = failed]
           n4 == [n3 EXCEPT !.bad = bad]
<1>9. failed \in BOOLEAN OBVIOUS
<1>10. host \in HostRecord BY HostTypes
<1>11. /\ n1 \in HostRecord /\ n1.profile = host.profile /\ n1.blocks = host.blocks
      /\ n1.index = host.index + 1 /\ n1.bad = host.bad
  BY <1>10, <1>1, <1>5, <1>6, <1>7 DEF HostRecord
<1> HIDE DEF n1
<1>12. /\ n2 \in HostRecord /\ n2.profile = host.profile /\ n2.blocks = host.blocks
      /\ n2.index = host.index + 1 /\ n2.bad = host.bad
  BY <1>11, <1>1, <1>5, <1>6, <1>7 DEF HostRecord
<1> HIDE DEF n2
<1>13. /\ n3 \in HostRecord /\ n3.profile = host.profile /\ n3.blocks = host.blocks
      /\ n3.index = host.index + 1 /\ n3.bad = host.bad
  BY <1>12, <1>9 DEF HostRecord
<1> HIDE DEF n3
<1>14. /\ n4 \in HostRecord /\ n4.profile = host.profile /\ n4.blocks = host.blocks
      /\ n4.index = host.index + 1 /\ n4.bad = bad
  BY <1>13, <1>1, <1>5, <1>6, <1>7 DEF HostRecord
<1> HIDE DEF n4
<1>15. next = n4 BY <1>8, Zenon DEF n1, n2, n3, n4
<1> QED BY <1>5, <1>14, <1>15

LEMMA WalkedAllTypes ==
  ASSUME Types, NEW value, NEW next,
         next = WalkedAll(value)
  PROVE  /\ next \in HostRecord /\ next.profile = host.profile /\ next.index = host.index + 1
         /\ next.blocks = host.blocks /\ next.bad >= host.bad
<1>1. host \in HostRecord BY DEF Types, HostRecord
<1> DEFINE walks == {w \in {<<w[1], Follow(w[2], value)>> : w \in host.walks} : w[2] # -1}
<1>2. walks \subseteq (0 .. 7) \X (0 .. 255)
  <2> SUFFICES ASSUME NEW w \in host.walks, Follow(w[2], value) # -1
      PROVE  <<w[1], Follow(w[2], value)>> \in (0 .. 7) \X (0 .. 255)
    OBVIOUS
  <2>1. w[1] \in 0 .. 7 /\ w[2] \in Int BY <1>1 DEF HostRecord
  <2>2. Follow(w[2], value) \in -1 .. 255 BY <2>1, FollowRange
  <2> QED BY <2>1, <2>2
<1>3. next =
        [host EXCEPT !.index = host.index + 1,
                     !.walks = walks]
  BY <1>1 DEF WalkedAll, HostRecord
<1> HIDE DEF walks
<1> DEFINE n1 == [host EXCEPT !.index = host.index + 1]
           n2 == [n1 EXCEPT !.walks = walks]
<1>4. host \in HostRecord BY HostTypes
<1>5. /\ n1 \in HostRecord /\ n1.profile = host.profile /\ n1.blocks = host.blocks
      /\ n1.index = host.index + 1 /\ n1.bad = host.bad
  BY <1>4, <1>2 DEF HostRecord
<1> HIDE DEF n1
<1>6. /\ n2 \in HostRecord /\ n2.profile = host.profile /\ n2.blocks = host.blocks
      /\ n2.index = host.index + 1 /\ n2.bad = host.bad
  BY <1>5, <1>2 DEF HostRecord
<1> HIDE DEF n2
<1>7. next = n2 BY <1>3, Zenon DEF n1, n2
<1>8. host.bad \in Nat BY <1>1 DEF HostRecord
<1> QED BY <1>6, <1>7, <1>8
\* What a sample leaves as it is.
LEMMA SampleTypes ==
  ASSUME Types, Sample
  PROVE  /\ Types' /\ host'.profile = host.profile /\ host'.index = host.index + 1
         /\ host'.blocks = host.blocks /\ host'.bad >= host.bad
<1>1. PICK full, value : full = Gray(dev.count, 8) /\ value = Seen(dev.count) OBVIOUS
<1>2. host' = IF host.index = 0 /\ host.profile.anchored THEN FirstAnchored(value, full)
              ELSE IF host.index = 0 /\ host.previous # -1 THEN FirstFollowing(value)
              ELSE IF host.index = 0 THEN FirstAnchoring(value)
              ELSE IF host.walks # {} THEN WalkedAll(value)
              ELSE Walked(value, full)
  BY <1>1 DEF Sample
<1>3. /\ host' \in HostRecord /\ host'.profile = host.profile /\ host'.index = host.index + 1
      /\ host'.blocks = host.blocks /\ host'.bad >= host.bad
  <2>1. CASE host.index = 0 /\ host.profile.anchored
    <3>1. host' = FirstAnchored(value, Gray(dev.count, 8)) BY <1>1, <1>2, <2>1
    <3> QED BY <2>1, <3>1, AnchoredTypes
  <2>2. CASE host.index = 0 /\ ~host.profile.anchored /\ host.previous # -1
    <3>1. host' = FirstFollowing(value) BY <1>2, <2>2
    <3> QED BY <2>2, <3>1, FollowingTypes
  <2>3. CASE host.index = 0 /\ ~host.profile.anchored /\ host.previous = -1
    <3>1. host' = FirstAnchoring(value) BY <1>2, <2>3
    <3> QED BY <2>3, <3>1, AnchoringTypes
  <2>4. CASE host.index # 0 /\ host.walks # {}
    <3>1. host' = WalkedAll(value) BY <1>2, <2>4
    <3> QED BY <3>1, WalkedAllTypes
  <2>5. CASE host.index # 0 /\ host.walks = {}
    <3>1. host' = Walked(value, full) BY <1>2, <2>5
    <3> QED BY <3>1, WalkedTypes
  <2> QED BY <2>1, <2>2, <2>3, <2>4, <2>5
<1>4. /\ dev' \in [count : 0 .. 255, left : 1 .. 5, late : {0, 1}]
      /\ dev'.left - dev'.late \in 0 .. 4
  BY AdvanceKeeps DEF Sample
<1>5. wire' \in {"whole", "lost", "repeated"} BY DEF Types, Sample
<1>6. host'.index <= host'.profile.samples /\ host'.blocks <= MaxBlocks
  <2>1. host.index < host.profile.samples /\ host.blocks <= MaxBlocks BY DEF Types, Sample
  <2>2. host.index \in Nat /\ host.profile \in Profiles BY HostTypes
  <2>3. host.profile.samples \in Nat BY <2>2, ProfileFacts
  <2> QED BY <1>3, <2>1, <2>2, <2>3
<1> QED BY <1>3, <1>4, <1>5, <1>6 DEF Types, HostRecord

LEMMA EndBlockTypes ==
  ASSUME MaxBlocks \in Nat, Types, EndBlock, host.blocks < MaxBlocks,
         host.walks = {} \/ Chosen \in host.walks
  PROVE  /\ Types' /\ host'.profile = host.profile /\ host'.index = 0
         /\ host'.blocks = host.blocks + 1 /\ host'.walks = {} /\ ~host'.failed
         /\ host'.bad = host.bad
              + Outside(host.profile.low, host.profile.high, Chosen[2] - Chosen[1])
         /\ host'.previous = IF host.profile.anchored THEN host.binary0
                             ELSE IF \/ host.failed
                                     \/ Outside(host.profile.low, host.profile.high,
                                                Chosen[2] - Chosen[1]) = 1
                                  THEN -1 ELSE Chosen[2]
<1>1. host \in HostRecord BY HostTypes
<1>2. PICK off \in {0, 1} :
         off = Outside(host.profile.low, host.profile.high, Chosen[2] - Chosen[1])
  BY OutsideIs
<1>3. Chosen[2] \in 0 .. 255
  <2>1. CASE host.walks = {}
    <3>1. Chosen = <<host.binary0, host.symbol>> BY <2>1 DEF Chosen
    <3> QED BY <1>1, <3>1 DEF HostRecord
  <2>2. CASE host.walks # {} BY <1>1, <2>2 DEF HostRecord
  <2> QED BY <2>1, <2>2
<1>4. PICK kept \in -1 .. 255 :
         kept = IF host.profile.anchored THEN host.binary0
                ELSE IF host.failed \/ off = 1 THEN -1 ELSE Chosen[2]
  BY <1>1, <1>3 DEF HostRecord
<1>5. PICK bad \in Nat : bad = host.bad + off BY <1>1, <1>2 DEF HostRecord
<1>6. PICK blocks \in Nat : blocks = host.blocks + 1 BY <1>1 DEF HostRecord
<1>7. PICK no \in BOOLEAN : no = FALSE OBVIOUS
<1>8. host' = [host EXCEPT !.index = 0, !.failed = no, !.walks = {}, !.bad = bad,
                           !.previous = kept, !.blocks = blocks]
  BY <1>1, <1>2, <1>4, <1>5, <1>6, <1>7 DEF EndBlock, HostRecord
<1> DEFINE n1 == [host EXCEPT !.index = 0]
           n2 == [n1 EXCEPT !.failed = no]
           n3 == [n2 EXCEPT !.walks = {}]
           n4 == [n3 EXCEPT !.bad = bad]
           n5 == [n4 EXCEPT !.previous = kept]
           n6 == [n5 EXCEPT !.blocks = blocks]
<1>9. no \in BOOLEAN OBVIOUS
<1>10. n1 \in HostRecord /\ n1.profile = host.profile /\ n1.index = 0
  BY <1>1 DEF HostRecord
<1> HIDE DEF n1
<1>11. n2 \in HostRecord /\ n2.profile = host.profile /\ n2.index = 0 /\ n2.failed = no
  BY <1>10, <1>9 DEF HostRecord
<1> HIDE DEF n2
<1>12. n3 \in HostRecord /\ n3.profile = host.profile /\ n3.index = 0 /\ n3.failed = no /\ n3.walks = {}
  BY <1>11 DEF HostRecord
<1> HIDE DEF n3
<1>13. /\ n4 \in HostRecord /\ n4.profile = host.profile /\ n4.index = 0 /\ n4.failed = no
       /\ n4.walks = {} /\ n4.bad = bad
  BY <1>12 DEF HostRecord
<1> HIDE DEF n4
<1>14. /\ n5 \in HostRecord /\ n5.profile = host.profile /\ n5.index = 0 /\ n5.failed = no
       /\ n5.walks = {} /\ n5.bad = bad /\ n5.previous = kept
  BY <1>13 DEF HostRecord
<1> HIDE DEF n5
<1>15. /\ n6 \in HostRecord /\ n6.profile = host.profile /\ n6.index = 0 /\ n6.failed = no
       /\ n6.walks = {} /\ n6.bad = bad /\ n6.previous = kept /\ n6.blocks = blocks
  BY <1>14 DEF HostRecord
<1> HIDE DEF n6
<1>16. host' = n6 BY <1>8, Zenon DEF n1, n2, n3, n4, n5, n6
<1>17. wire' \in {"whole", "lost", "repeated"} /\ dev' = dev BY DEF Types, EndBlock
<1>18. host'.index <= host'.profile.samples /\ host'.blocks <= MaxBlocks
  <2>1. host.profile \in Profiles /\ host.blocks \in Nat BY <1>1 DEF HostRecord
  <2>2. host.profile.samples \in Nat BY <2>1, ProfileFacts
  <2> QED BY <1>6, <1>15, <1>16, <2>1, <2>2
<1>19. Types' BY <1>15, <1>16, <1>17, <1>18 DEF Types, HostRecord
<1> QED BY <1>2, <1>4, <1>5, <1>6, <1>15, <1>16, <1>19, <1>7

LEMMA FaultTypes ==
  ASSUME Types, Fault
  PROVE  Types'
<1>1. PICK jump \in {-1, 1} :
         /\ wire' = IF jump = 1 THEN "lost" ELSE "repeated"
         /\ dev' = [dev EXCEPT !.count = (@ + jump * (host.profile.samples \div 4)) % 256]
  BY DEF Fault
<1>2. host.profile \in Profiles BY HostTypes
<1>3. host.profile.samples \in Nat BY <1>2, ProfileFacts
<1>4. dev \in [count : 0 .. 255, left : 1 .. 5, late : {0, 1}] BY DEF Types
<1>5. (dev.count + jump * (host.profile.samples \div 4)) % 256 \in 0 .. 255
  <2>1. PICK quarter \in Nat : quarter = host.profile.samples \div 4 BY <1>3
  <2>2. jump * quarter \in Int OBVIOUS
  <2>3. PICK sum \in Int : sum = dev.count + jump * quarter BY <1>4, <2>2
  <2>4. sum % 256 \in 0 .. 255 OBVIOUS
  <2> QED BY <2>1, <2>3, <2>4
<1>6. PICK count \in 0 .. 255 : dev' = [dev EXCEPT !.count = count] BY <1>1, <1>4, <1>5
<1>7. /\ dev' \in [count : 0 .. 255, left : 1 .. 5, late : {0, 1}]
      /\ dev'.left = dev.left /\ dev'.late = dev.late
  BY <1>4, <1>6
<1>8. host' = host BY DEF Fault
<1> QED BY <1>1, <1>7, <1>8 DEF Types
---------------------------------------------------------------------------
(* The first sample of a block.                                            *)

LEMMA Within ==
  ASSUME NEW low \in Nat, NEW high \in Nat, NEW delta \in Int, NEW n \in Nat,
         delta % 256 = n % 256, n < 256, low <= n, n <= high
  PROVE  Outside(low, high, delta) = 0
<1>1. n % 256 = n OBVIOUS
<1>2. n \in low .. high OBVIOUS
<1> QED BY <1>1, <1>2 DEF Outside

LEMMA TimedBegins ==
  ASSUME Types, Advance, host'.index = 1, NEW start \in 0 .. 255, start = dev.count
  PROVE  Timed(start, 0)'
<1>1. Since \in 0 .. 4 BY SinceSmall
<1>2. \/ Since' = Since + 1 /\ dev'.count = dev.count
      \/ Since' = Since - 3 /\ dev'.count = (dev.count + 1) % 256
  BY AdvanceKeeps
<1>3. start + 0 = start /\ start % 256 = start OBVIOUS
<1>4. 4 * 0 + Since = host'.index - 1 + Since BY <1>1
<1>5. \/ dev'.count = (start + 0) % 256 /\ Since' = Since + 1
      \/ dev'.count = (start + 0 + 1) % 256 /\ Since' = Since - 3
  BY <1>2, <1>3
<1> QED BY <1>1, <1>4, <1>5 DEF Timed

LEMMA SeenKept ==
  ASSUME host'.profile = host.profile
  PROVE  \A s : Seen(s)' = Seen(s)
  BY DEF Seen

\* The snapshot at the start of a block is what its distance from the last one says.
LEMMA FirstProgress ==
  ASSUME Types, host.profile.anchored, Apart(0), host.previous # -1
  PROVE  Outside(host.profile.low, host.profile.high, dev.count - host.previous) = 0
<1>1. PICK edges \in Nat, r0 \in 0 .. 4 :
         /\ 4 * edges + Since = host.profile.samples + r0
         /\ dev.count = (host.previous + edges + 0) % 256
  BY DEF Apart
<1>2. Since \in 0 .. 4 BY SinceSmall
<1>3. host.previous \in 0 .. 255 BY DEF Types
<1>4. /\ host.profile.low \in Nat /\ host.profile.high \in Nat
      /\ \/ host.profile.samples = 64 /\ host.profile.low = 14 /\ host.profile.high = 17
         \/ host.profile.samples = 128 /\ host.profile.low = 30 /\ host.profile.high = 34
  BY HostTypes, ProfileFacts
<1>5. host.profile.low <= edges /\ edges <= host.profile.high /\ edges < 256 BY <1>1, <1>2, <1>4
<1>6. (dev.count - host.previous) % 256 = edges % 256
  <2>1. dev.count = (host.previous + edges) % 256 BY <1>1, <1>3
  <2> QED BY <1>3, <2>1, SMTT(30)
<1>7. dev.count - host.previous \in Int BY <1>1, <1>3
<1> QED BY <1>4, <1>5, <1>6, <1>7, Within

\* The same over the counts that the first sample of a block is compared with.
LEMMA NearKeeps ==
  ASSUME Types, NEW x \in Int, NEW k \in 0 .. 2,
         k = 2 => Seen((x - 2) % 256) = Seen((x - 1) % 256), host.previous = (x - k) % 256
  PROVE  \E lag \in {0, 1} :
            /\ lag <= k
            /\ LET next == FirstFollowing(Seen(x % 256)) IN
               /\ next.binary0 = (x - lag) % 256 /\ next.symbol = (x - lag) % 256
               /\ next.walks = host.walks /\ next.failed = host.failed /\ next.bad = host.bad
            /\ lag = 1 => Seen((x - 1) % 256) = Seen(x % 256)
<1> DEFINE near == {o \in 0 .. 3 : Seen((host.previous + o) % 256) = Seen(x % 256)}
<1>1. \A d \in 0 .. 3 : (host.previous + d) % 256 = (x - k + d) % 256 OBVIOUS
<1>2. Seen((x - 2) % 256) # Seen(x % 256)
  BY HostTypes, ProfileFacts, TwoApart DEF Seen
<1>3. \E lag \in {0, 1} :
         /\ lag <= k /\ k - lag \in near /\ \A o \in near : k - lag <= o
         /\ lag = 1 => Seen((x - 1) % 256) = Seen(x % 256)
  <2>1. CASE k = 0
    <3>1. 0 \in near BY <1>1, <2>1
    <3>2. \A o \in near : 0 <= o OBVIOUS
    <3>3. k - 0 = 0 /\ 0 <= k /\ 0 # 1 /\ 0 \in {0, 1} BY <2>1
    <3> HIDE DEF near
    <3> QED BY <3>1, <3>2, <3>3, Zenon
  <2>2. CASE k = 1 /\ Seen((x - 1) % 256) = Seen(x % 256) BY <1>1, <2>2
  <2>3. CASE k = 1 /\ Seen((x - 1) % 256) # Seen(x % 256)
    <3>1. \A o \in near : 1 <= o BY <1>1, <2>3
    <3>2. 1 \in near BY <1>1, <2>3
    <3> QED BY <2>3, <3>1, <3>2
  <2>4. CASE k = 2
    <3>1. \A o \in near : 2 <= o BY <1>1, <1>2, <2>4
    <3>2. 2 \in near BY <1>1, <2>4
    <3> QED BY <2>4, <3>1, <3>2
  <2> QED BY <2>1, <2>2, <2>3, <2>4
<1>4. PICK lag \in {0, 1} :
         /\ lag <= k /\ k - lag \in near /\ \A o \in near : k - lag <= o
         /\ lag = 1 => Seen((x - 1) % 256) = Seen(x % 256)
  BY <1>3
<1>5. (CHOOSE o \in near : \A p \in near : o <= p) = k - lag
  <2>1. PICK d \in 0 .. 3 : d = k - lag BY <1>4
  <2>2. near \subseteq Int /\ d \in near /\ \A o \in near : d <= o BY <1>4, <2>1
  <2> HIDE DEF near
  <2>3. \A o \in near : (\A p \in near : o <= p) => o = d BY <2>2
  <2>4. \E o \in near : \A p \in near : o <= p BY <2>2
  <2> QED BY <2>1, <2>3, <2>4
<1>6. (host.previous + (k - lag)) % 256 = (x - lag) % 256
  <2>1. k - lag \in 0 .. 3 /\ x - k + (k - lag) = x - lag BY <1>4
  <2> QED BY <1>1, <2>1
<1>7. near # {} BY <1>4
<1>8. PICK v \in 0 .. 255 : v = (x - lag) % 256 OBVIOUS
<1>9. FirstFollowing(Seen(x % 256)) =
        [host EXCEPT !.index = 1, !.binary0 = v, !.symbol = v, !.bad = host.bad]
  BY <1>5, <1>6, <1>7, <1>8 DEF FirstFollowing
<1>10. PICK next : next = FirstFollowing(Seen(x % 256)) OBVIOUS
<1>11. host \in HostRecord BY HostTypes
<1>12. next = [host EXCEPT !.index = 1, !.binary0 = v, !.symbol = v, !.bad = host.bad]
  BY <1>9, <1>10
<1>13. /\ next.binary0 = v /\ next.symbol = v
       /\ next.walks = host.walks /\ next.bad = host.bad
  BY <1>11, <1>12 DEF HostRecord
<1>14. next.failed = host.failed
  BY <1>11, <1>12 DEF HostRecord
<1> QED BY <1>4, <1>8, <1>10, <1>13, <1>14

LEMMA BeginBlock ==
  ASSUME Types, Sample, host.index = 0, Between
  PROVE  InBlock' /\ host'.bad = host.bad
<1>1. host \in HostRecord /\ dev.count \in 0 .. 255 BY DEF Types, HostRecord
<1>2. PICK start \in 0 .. 255 : start = dev.count BY <1>1
<1>3. /\ Types' /\ host'.profile = host.profile /\ host'.index = 1
  BY SampleTypes
<1>4. Timed(start, 0)' BY <1>2, <1>3, TimedBegins DEF Sample
<1>5. host.profile.lanes \in 1 .. 8 /\ host.profile.anchored \in BOOLEAN
  BY HostTypes, ProfileFacts
<1>6. host.walks = {} /\ ~host.failed /\ host.bad \in Nat BY <1>1 DEF Between, HostRecord
<1>7. /\ start % 256 = start /\ start + 0 = start /\ start - 0 = start
      /\ start \in Int /\ 0 \in Nat
  OBVIOUS
<1>8. CASE host.profile.anchored
  <2>1. host' = FirstAnchored(Seen(dev.count), Gray(dev.count, 8)) BY <1>8 DEF Sample
  <2>2. FromGray(Gray(dev.count, 8)) = start BY <1>1, <1>2, FullWord
  <2>3. host' = [host EXCEPT !.index = 1, !.binary0 = start, !.symbol = start,
                             !.bad = IF host.previous = -1 THEN @
                                     ELSE @ + Outside(host.profile.low, host.profile.high,
                                                      start - host.previous)]
    BY <2>1, <2>2 DEF FirstAnchored
  <2>4. host.previous # -1 =>
          Outside(host.profile.low, host.profile.high, start - host.previous) = 0
    BY <1>2, <1>8, FirstProgress DEF Between
  <2>5. /\ host'.walks = {} /\ ~host'.failed /\ host'.binary0 = start /\ host'.symbol = start
        /\ host'.bad = host.bad
    BY <1>1, <1>6, <2>3, <2>4 DEF HostRecord
  <2>6. Single(start, 0)'
    <3>1. host'.binary0 = (start - 0) % 256 /\ host'.symbol = (start + 0 - 0) % 256
      BY <1>7, <2>5
    <3>2. 0 + 0 - 0 \in Nat /\ 0 # 1 /\ start \in Int OBVIOUS
    <3> QED BY <2>5, <3>1, <3>2 DEF Single, Counts
  <2>7. InBlock' BY <1>4, <1>7, <2>6, Zenon DEF InBlock
  <2> QED BY <2>5, <2>7
<1>9. CASE ~host.profile.anchored /\ host.previous # -1
  <2>1. host' = FirstFollowing(Seen(dev.count)) BY <1>9 DEF Sample
  <2>2. PICK x \in Int, k \in 0 .. 2 :
           host.previous = (x - k) % 256 /\ x % 8 = dev.count % 8 /\ Behind(x, k)
    BY <1>9 DEF Between
  <2>3. Seen(x % 256) = Seen(dev.count)
    <3>1. host.profile.lanes = 2 BY <1>9, HostTypes, ProfileFacts
    <3>2. Seen(x % 256) = Shown(x % 8) /\ Seen(start % 256) = Shown(start % 8)
      BY <1>7, <3>1, SeenShown
    <3> QED BY <1>2, <1>7, <2>2, <3>2
  <2>4. PICK lag \in {0, 1} :
           /\ lag <= k
           /\ LET next == FirstFollowing(Seen(x % 256)) IN
              /\ next.binary0 = (x - lag) % 256 /\ next.symbol = (x - lag) % 256
              /\ next.walks = host.walks /\ next.failed = host.failed /\ next.bad = host.bad
           /\ lag = 1 => Seen((x - 1) % 256) = Seen(x % 256)
    BY <2>2, NearKeeps DEF Behind
  <2>5. /\ host'.walks = {} /\ ~host'.failed /\ host'.bad = host.bad
        /\ host'.binary0 = (x - lag) % 256 /\ host'.symbol = (x - lag) % 256
    BY <1>6, <2>1, <2>3, <2>4
  <2>6. Single(start, 0)'
    <3>1. host'.symbol = (x + 0 - lag) % 256 BY <2>5
    <3>2. 0 + lag - lag \in Nat OBVIOUS
    <3>3. x % 8 = start % 8 BY <1>2, <2>2
    <3>4. lag = 1 => Seen((x + 0 - 1) % 256)' = Seen((x + 0) % 256)'
      <4>1. x + 0 - 1 = x - 1 /\ x + 0 = x OBVIOUS
      <4> QED BY <1>3, <2>4, <4>1, SeenKept
    <3>5. ~host'.profile.anchored BY <1>3, <1>9
    <3>6. Counts(x, lag, lag, start, 0)' BY <2>5, <3>1, <3>2, <3>3, <3>4, <3>5 DEF Counts
    <3> QED BY <2>5, <3>6, Zenon DEF Single
  <2>7. InBlock' BY <1>4, <1>7, <2>6, Zenon DEF InBlock
  <2> QED BY <2>5, <2>7
<1>10. CASE ~host.profile.anchored /\ host.previous = -1
  <2>1. host' = FirstAnchoring(Seen(dev.count)) BY <1>10 DEF Sample
  <2>2. /\ host'.walks = {<<a, a>> : a \in {a \in 0 .. 7 : Seen(a) = Seen(start)}}
        /\ host'.failed = host.failed /\ host'.bad = host.bad
    BY <1>1, <1>2, <2>1 DEF FirstAnchoring, HostRecord
  <2>3. host.profile.lanes = 2 BY <1>10, HostTypes, ProfileFacts
  <2>4. Seen(start % 8) = Seen(start)
    <3>1. (start % 8) % 256 = start % 8 /\ (start % 8) % 8 = start % 8 /\ start % 8 \in Int OBVIOUS
    <3>2. Seen((start % 8) % 256) = Shown((start % 8) % 8) BY <2>3, <3>1, SeenShown
    <3>3. Seen(start % 256) = Shown(start % 8) BY <1>7, <2>3, SeenShown
    <3> QED BY <1>7, <3>1, <3>2, <3>3
  <2>5. <<start % 8, start % 8>> \in host'.walks
    <3>1. start % 8 \in 0 .. 7 OBVIOUS
    <3> QED BY <2>2, <2>4, <3>1
  <2>6. \A w \in host'.walks : Walk(w[1], w[2], start, 0)' BY <1>3, <2>2, SeenKept DEF Walk
  <2>7. Several(start, 0)' BY <1>3, <1>6, <1>10, <2>2, <2>5, <2>6 DEF Several
  <2>8. InBlock' BY <1>4, <1>7, <2>7, Zenon DEF InBlock
  <2> QED BY <2>2, <2>8
<1> QED BY <1>5, <1>8, <1>9, <1>10
---------------------------------------------------------------------------
(* The later samples of a block.                                           *)

\* One sample on, with an edge more or without: a walk that goes on keeps its place, and the one
\* from the right anchor does go on.
WalksOn(a, symbol, start, edges, more, next) ==
  /\ next # -1 => Walk(a, next, start, edges + more)
  /\ edges # 0 \/ a = start % 8 => next # -1
  /\ edges + more = 0 => next = symbol

LEMMA WalkStep ==
  ASSUME host.profile.lanes = 2, NEW a \in 0 .. 7, NEW symbol \in 0 .. 255,
         NEW start \in 0 .. 255, NEW edges \in Nat, NEW more \in {0, 1},
         Walk(a, symbol, start, edges),
         NEW next, next = Follow(symbol, Seen((start + (edges + more)) % 256))
  PROVE  WalksOn(a, symbol, start, edges, more, next)
<1>1. CASE edges = 0 /\ more = 0
  <2>1. symbol = a /\ Seen(a) = Seen(start) BY <1>1 DEF Walk
  <2>2. (start + (edges + more)) % 256 = start /\ (a + 0) % 256 = a /\ a \in Int BY <1>1
  <2>3. \A o \in 0 .. 2 : ~(o < 0) OBVIOUS
  <2>4. Follow(a, Seen(start)) = (a + 0) % 256 BY <2>1, <2>2, <2>3, FollowIs
  <2>5. next = a BY <2>1, <2>2, <2>4
  <2> QED BY <1>1, <2>1, <2>5 DEF Walk, WalksOn
<1>2. CASE edges = 0 /\ more = 1
  <2>1. symbol = a /\ Seen(a) = Seen(start) BY <1>2 DEF Walk
  <2>2. start + (edges + more) = start + 1 /\ edges + more = 1 BY <1>2
  <2>3. next = Follow(a, Seen((start + 1) % 256)) BY <2>1, <2>2
  <2>4. ASSUME next # -1 PROVE Walk(a, next, start, edges + more)
    <3>1. PICK ahead \in {-1, 0, 1}, lag \in {0, 1} :
             /\ Follow(a, Seen((start + 1) % 256)) = (a + 1 - ahead - lag) % 256
             /\ ((a + 1 - ahead - lag) % 256) % 8 = (start + 1 - lag) % 8
             /\ ahead = 1 => start % 4 = 3
             /\ lag = 1 => (start + 1) % 4 = 0
      BY <2>1, <2>3, <2>4, FirstEdge, ZenonT(30)
    <3>2. PICK symbol1 \in 0 .. 255 : symbol1 = (a + 1 - ahead - lag) % 256 OBVIOUS
    <3>3. next = symbol1 /\ symbol1 % 8 = (start + 1 - lag) % 8 BY <2>3, <3>1, <3>2
    <3>4. 1 \in Nat /\ 1 # 0 OBVIOUS
    <3>5. /\ symbol1 = (a + 1 - ahead - lag) % 256 /\ symbol1 % 8 = (start + 1 - lag) % 8
          /\ ahead = 1 => start % 4 = 3
          /\ lag = 1 => (start + 1) % 4 = 0
      BY <3>1, <3>2, <3>3
    <3>6. Walk(a, symbol1, start, 1) BY <3>4, <3>5, ZenonT(30) DEF Walk
    <3> QED BY <2>2, <3>3, <3>6
  <2>5. ASSUME a = start % 8 PROVE next # -1
    <3>1. PICK x \in Int : x = start + 1 OBVIOUS
    <3>2. PICK k \in 0 .. 2 : k = 1 OBVIOUS
    <3>3. a % 8 = (x - k) % 8 /\ a \in 0 .. 255 /\ (k = 2 => x % 4 = 1) BY <2>5, <3>1, <3>2
    <3>4. PICK lag \in {0, 1} :
             /\ lag <= k
             /\ Follow(a, Seen(x % 256)) = (a + k - lag) % 256
             /\ ((a + k - lag) % 256) % 8 = (x - lag) % 8
             /\ lag = 1 => x % 4 = 0
      BY <3>3, FollowEight, ZenonT(30)
    <3>5. (a + k - lag) % 256 # -1 OBVIOUS
    <3> QED BY <2>3, <3>1, <3>4, <3>5
  <2> QED BY <1>2, <2>2, <2>4, <2>5 DEF WalksOn
<1>3. CASE edges # 0
  <2>1. PICK ahead \in {-1, 0, 1}, last \in {0, 1} :
           /\ symbol = (a + edges - ahead - last) % 256
           /\ symbol % 8 = (start + edges - last) % 8
           /\ ahead = 1 => start % 4 = 3
           /\ last = 1 => (start + edges) % 4 = 0
    BY <1>3 DEF Walk
  <2>2. PICK x \in Int : x = start + (edges + more) OBVIOUS
  <2>3. PICK k \in 0 .. 2 : k = last + more OBVIOUS
  <2>4. symbol % 8 = (x - k) % 8
    <3>1. x - k = start + edges - last BY <2>2, <2>3
    <3> QED BY <2>1, <3>1
  <2>5. k = 2 => x % 4 = 1
    <3> SUFFICES ASSUME k = 2 PROVE x % 4 = 1 OBVIOUS
    <3>1. last = 1 /\ more = 1 BY <2>3
    <3>2. x = (start + edges) + 1 /\ (start + edges) % 4 = 0 BY <2>1, <2>2, <3>1
    <3> QED BY <3>2
  <2>6. PICK lag \in {0, 1} :
           /\ lag <= k
           /\ Follow(symbol, Seen(x % 256)) = (symbol + k - lag) % 256
           /\ ((symbol + k - lag) % 256) % 8 = (x - lag) % 8
           /\ lag = 1 => x % 4 = 0
    BY <2>4, <2>5, FollowEight, ZenonT(30)
  <2>7. next = (symbol + k - lag) % 256 BY <2>2, <2>6
  <2>8. next = (a + (edges + more) - ahead - lag) % 256
    <3>1. (symbol + k - lag) % 256 = (a + edges - ahead - last + k - lag) % 256
      BY <2>1, SMTT(30)
    <3>2. a + edges - ahead - last + k - lag = a + (edges + more) - ahead - lag BY <2>3
    <3> QED BY <2>7, <3>1, <3>2
  <2>9. next % 8 = (start + (edges + more) - lag) % 8 BY <2>2, <2>6, <2>7
  <2>10. edges + more # 0 /\ next # -1 BY <1>3, <2>7
  <2>11. lag = 1 => (start + (edges + more)) % 4 = 0 BY <2>2, <2>6
  <2>12. PICK n \in Nat : n = edges + more OBVIOUS
  <2>13. PICK symbol1 \in 0 .. 255 : symbol1 = next BY <2>7
  <2>14. /\ symbol1 = (a + n - ahead - lag) % 256 /\ symbol1 % 8 = (start + n - lag) % 8
         /\ ahead = 1 => start % 4 = 3
         /\ lag = 1 => (start + n) % 4 = 0
         /\ n # 0
    BY <2>1, <2>8, <2>9, <2>10, <2>11, <2>12, <2>13
  <2>15. Walk(a, symbol1, start, n) BY <2>14, ZenonT(30) DEF Walk
  <2> QED BY <1>3, <2>10, <2>12, <2>13, <2>15 DEF WalksOn
<1> QED BY <1>1, <1>2, <1>3

LEMMA SeveralStep ==
  ASSUME Types, Sample, host.index # 0, NEW start \in 0 .. 255, NEW edges \in Nat,
         Several(start, edges), NEW more \in {0, 1}, dev.count = (start + (edges + more)) % 256
  PROVE  Several(start, edges + more)' /\ host'.bad = host.bad
<1>1. host \in HostRecord /\ host'.profile = host.profile BY HostTypes, SampleTypes
<1>2. host.profile.lanes = 2 BY HostTypes, ProfileFacts DEF Several
<1>3. host.walks # {} /\ host.walks \subseteq (0 .. 7) \X (0 .. 255)
  BY <1>1 DEF Several, HostRecord
<1> DEFINE step(w) == Follow(w[2], Seen(dev.count))
<1>4. host' = WalkedAll(Seen(dev.count)) BY <1>3 DEF Sample
<1>5. /\ host'.walks = {w \in {<<w[1], step(w)>> : w \in host.walks} : w[2] # -1}
      /\ host'.bad = host.bad
  BY <1>1, <1>4 DEF WalkedAll, HostRecord
<1>6. host'.failed = host.failed BY <1>1, <1>4 DEF WalkedAll, HostRecord
<1>7. ASSUME NEW w \in host.walks
      PROVE  /\ step(w) # -1 => Walk(w[1], step(w), start, edges + more)
             /\ edges # 0 \/ w[1] = start % 8 => step(w) # -1
             /\ edges + more = 0 => step(w) = w[2]
  <2>1. PICK a \in 0 .. 7, symbol \in 0 .. 255 : w = <<a, symbol>> BY <1>3
  <2>2. Walk(a, symbol, start, edges) BY <2>1 DEF Several
  <2>3. w[1] = a /\ w[2] = symbol BY <2>1
  <2>4. PICK next : next = Follow(symbol, Seen((start + (edges + more)) % 256)) OBVIOUS
  <2>5. step(w) = next BY <2>3, <2>4
  <2> HIDE DEF step
  <2>6. WalksOn(a, symbol, start, edges, more, next) BY <1>2, <2>2, <2>4, WalkStep, ZenonT(30)
  <2> QED BY <2>3, <2>5, <2>6 DEF WalksOn
<1> HIDE DEF step
<1>8. ASSUME NEW w \in host'.walks PROVE Walk(w[1], w[2], start, edges + more)
  <2>1. PICK v \in host.walks : w = <<v[1], step(v)>> /\ step(v) # -1 BY <1>5
  <2> QED BY <1>7, <2>1
<1>9. ASSUME NEW w \in host.walks, edges # 0 \/ w[1] = start % 8
      PROVE  <<w[1], step(w)>> \in host'.walks
  <2>1. step(w) # -1 BY <1>7, <1>9
  <2> QED BY <1>5, <2>1
<1>10. host'.walks # {}
  <2>1. CASE edges # 0
    <3>1. PICK w \in host.walks : TRUE BY <1>3
    <3> QED BY <1>9, <2>1, <3>1
  <2>2. CASE edges = 0
    <3>1. <<start % 8, start % 8>> \in host.walks BY <2>2 DEF Several
    <3>2. <<start % 8, start % 8>>[1] = start % 8 OBVIOUS
    <3> QED BY <1>9, <3>1, <3>2
  <2> QED BY <2>1, <2>2
<1>11. ASSUME edges + more = 0 PROVE <<start % 8, start % 8>> \in host'.walks
  <2>1. PICK w \in host.walks : w = <<start % 8, start % 8>> BY <1>11 DEF Several
  <2>2. w[1] = start % 8 /\ step(w) = start % 8 BY <1>7, <1>11, <2>1
  <2> QED BY <1>9, <2>2
<1>12. \A w \in host'.walks : Walk(w[1], w[2], start, edges + more)'
  BY <1>1, <1>8, SeenKept DEF Walk
<1>13. ~host'.profile.anchored /\ ~host'.failed BY <1>1, <1>6 DEF Several
<1>14. Several(start, edges + more)' BY <1>10, <1>11, <1>12, <1>13 DEF Several
<1> QED BY <1>5, <1>14

\* A further snapshot agrees with the edges since the one at the start.
LEMMA SnapshotKeeps ==
  ASSUME Types, host.index # 0, NEW start \in 0 .. 255, NEW sum \in Nat,
         host.profile.anchored => host.binary0 = start, dev.count = (start + sum) % 256,
         host.index < host.profile.samples,
         NEW r0 \in 0 .. 4, NEW r1 \in 0 .. 4, 4 * sum + r1 = host.index + r0
  PROVE  Snapshot(Gray(dev.count, 8)) = 0
<1>1. host.profile \in Profiles /\ host.index \in Nat /\ dev.count \in 0 .. 255
  BY HostTypes DEF Types
<1>2. CASE ~(host.profile.step > 0 /\ host.index % host.profile.step = 0)
  BY <1>2 DEF Snapshot
<1>3. CASE host.profile.step > 0 /\ host.index % host.profile.step = 0
  <2>1. host.profile.anchored /\ host.profile.samples = 128 /\ host.profile.step = 32
    <3>1. host.profile.step > 0 BY <1>3
    <3> QED BY <1>1, <3>1, ProfileFacts
  <2>2. PICK quarter \in Nat : quarter = host.index \div 4 BY <1>1
  <2>3. host.index = 4 * quarter /\ quarter >= 8 /\ quarter < 32
    <3>1. host.index < 128 BY <2>1
    <3>2. PICK index \in 1 .. 127 : index = host.index BY <1>1, <3>1
    <3>3. index % 32 = 0 BY <1>3, <2>1, <3>2
    <3>4. index = 4 * (index \div 4) /\ index \div 4 >= 8 /\ index \div 4 < 32 BY <3>3
    <3> QED BY <2>2, <3>2, <3>4
  <2>4. quarter - 1 <= sum /\ sum <= quarter + 1 BY <2>3
  <2>5. FromGray(Gray(dev.count, 8)) = dev.count BY <1>1, FullWord
  <2>6. (dev.count - start) % 256 = sum % 256 BY SMTT(30)
  <2>7. /\ quarter - 2 \in Nat /\ quarter + 2 \in Nat /\ dev.count - start \in Int /\ sum < 256
        /\ quarter - 2 <= sum /\ sum <= quarter + 2
    BY <1>1, <2>3, <2>4
  <2>8. Outside(quarter - 2, quarter + 2, dev.count - start) = 0 BY <2>6, <2>7, Within
  <2> QED BY <1>3, <2>1, <2>2, <2>5, <2>8 DEF Snapshot
<1> QED BY <1>2, <1>3

LEMMA SingleStep ==
  ASSUME Types, Sample, host.index # 0, NEW start \in 0 .. 255, NEW edges \in Nat,
         Single(start, edges), NEW more \in {0, 1}, dev.count = (start + (edges + more)) % 256,
         NEW r0 \in 0 .. 4, NEW r1 \in 0 .. 4, 4 * (edges + more) + r1 = host.index + r0
  PROVE  Single(start, edges + more)' /\ host'.bad = host.bad
<1>1. host \in HostRecord /\ host'.profile = host.profile /\ host.profile \in Profiles
  BY HostTypes, SampleTypes
<1>2. host.profile.lanes \in 1 .. 8 /\ host.profile.anchored \in BOOLEAN BY <1>1, ProfileFacts
<1>3. host.walks = {} /\ ~host.failed BY DEF Single
<1>4. PICK own \in Int, first \in {0, 1}, last \in {0, 1} :
         /\ own % 8 = start % 8
         /\ host.profile.anchored => own = start /\ first = 0
         /\ host.binary0 = (own - first) % 256
         /\ host.symbol = (own + edges - last) % 256
         /\ edges + first - last \in Nat
         /\ last = 1 => Seen((own + edges - 1) % 256) = Seen((own + edges) % 256)
  BY DEF Single, Counts
<1>5. PICK sum \in Nat : sum = edges + more OBVIOUS
<1>6. PICK x \in Int : x = own + sum OBVIOUS
<1>7. PICK k \in 0 .. 2 : k = last + more OBVIOUS
<1>8. host.symbol = (x - k) % 256
  <2>1. x - k = own + edges - last BY <1>5, <1>6, <1>7
  <2> QED BY <1>4, <2>1
<1>9. k = 2 => Seen((x - 2) % 256) = Seen((x - 1) % 256)
  <2> SUFFICES ASSUME k = 2 PROVE Seen((x - 2) % 256) = Seen((x - 1) % 256) OBVIOUS
  <2>1. x - 2 = own + edges - 1 /\ x - 1 = own + edges /\ last = 1 BY <1>5, <1>6, <1>7
  <2> QED BY <1>4, <2>1
<1>10. PICK lag \in {0, 1} :
          /\ lag <= k
          /\ Follow((x - k) % 256, Seen(x % 256)) = (x - lag) % 256
          /\ lag = 1 => Seen((x - 1) % 256) = Seen(x % 256)
  BY <1>2, <1>9, FollowKeeps
<1>11. Seen(x % 256) = Seen(dev.count)
  <2>1. CASE host.profile.anchored BY <1>4, <1>5, <1>6, <2>1
  <2>2. CASE ~host.profile.anchored
    <3>1. host.profile.lanes = 2 BY <1>1, <2>2, ProfileFacts
    <3>2. PICK y \in Int : y = start + sum OBVIOUS
    <3>3. x % 8 = y % 8 BY <1>4, <1>6, <3>2, SMTT(30)
    <3>4. dev.count = y % 256 BY <1>5, <3>2
    <3> QED BY <3>1, <3>3, <3>4, SeenShown
  <2> QED BY <2>1, <2>2
<1>12. PICK next \in 0 .. 255 : next = (x - lag) % 256 OBVIOUS
<1>13. Follow(host.symbol, Seen(dev.count)) = next BY <1>8, <1>10, <1>11, <1>12
<1>14. Snapshot(Gray(dev.count, 8)) = 0
  <2>1. host.profile.anchored => host.binary0 = start BY <1>4
  <2>2. host.index < host.profile.samples BY DEF Sample
  <2>3. dev.count = (start + sum) % 256 /\ 4 * sum + r1 = host.index + r0 BY <1>5
  <2> QED BY <2>1, <2>2, <2>3, SnapshotKeeps, ZenonT(30)
<1>15. host' = Walked(Seen(dev.count), Gray(dev.count, 8)) BY <1>3 DEF Sample
<1>16. PICK bad \in Nat, failed \in BOOLEAN : bad = host.bad /\ failed = FALSE
  BY <1>1 DEF HostRecord
<1>17. host' = [host EXCEPT !.index = host.index + 1, !.symbol = next, !.failed = failed, !.bad = bad]
  <2>1. next # -1 OBVIOUS
  <2>2. host.bad + 0 + 0 = bad BY <1>16
  <2> QED BY <1>3, <1>13, <1>14, <1>15, <1>16, <2>1, <2>2 DEF Walked
<1>18. /\ host'.walks = {} /\ host'.bad = host.bad /\ host'.symbol = next
       /\ host'.binary0 = host.binary0
  BY <1>1, <1>3, <1>16, <1>17 DEF HostRecord
<1>19. ~host'.failed BY <1>1, <1>16, <1>17 DEF HostRecord
<1>20. Single(start, sum)'
  <2>1. host'.symbol = (own + sum - lag) % 256 BY <1>6, <1>12, <1>18
  <2>2. sum + first - lag \in Nat BY <1>4, <1>5, <1>7, <1>10
  <2>3. lag = 1 => Seen((own + sum - 1) % 256)' = Seen((own + sum) % 256)'
    BY <1>1, <1>6, <1>10, SeenKept
  <2>4. host'.profile.anchored => own = start /\ first = 0 BY <1>1, <1>4
  <2>5. host'.binary0 = (own - first) % 256 BY <1>4, <1>18
  <2>6. Counts(own, first, lag, start, sum)'
    BY <1>4, <2>1, <2>2, <2>3, <2>4, <2>5 DEF Counts
  <2> QED BY <1>18, <1>19, <2>6 DEF Single
<1> QED BY <1>5, <1>18, <1>20

LEMMA WalkOn ==
  ASSUME Types, Sample, host.index # 0, InBlock
  PROVE  InBlock' /\ host'.bad = host.bad
<1>1. PICK start \in 0 .. 255, edges \in Nat :
         Timed(start, edges) /\ (Single(start, edges) \/ Several(start, edges))
  BY DEF InBlock
<1>2. Advance /\ host'.index = host.index + 1 BY SampleTypes DEF Sample
<1>3. PICK more \in {0, 1} :
         /\ dev.count = (start + (edges + more)) % 256
         /\ Timed(start, edges + more)'
         /\ \E r0 \in 0 .. 4, r1 \in 0 .. 4 : 4 * (edges + more) + r1 = host.index + r0
  BY <1>1, <1>2, TimedStep
<1>4. edges + more \in Nat OBVIOUS
<1>5. CASE Single(start, edges)
  <2>1. Single(start, edges + more)' /\ host'.bad = host.bad BY <1>3, <1>5, SingleStep
  <2> QED BY <1>3, <1>4, <2>1 DEF InBlock
<1>6. CASE Several(start, edges)
  <2>1. Several(start, edges + more)' /\ host'.bad = host.bad BY <1>3, <1>6, SeveralStep
  <2> QED BY <1>3, <1>4, <2>1 DEF InBlock
<1> QED BY <1>1, <1>5, <1>6
---------------------------------------------------------------------------
(* The end of a block.                                                     *)

LEMMA ChosenWalks ==
  ASSUME host.walks # {}, host.walks \subseteq (0 .. 7) \X (0 .. 255)
  PROVE  Chosen \in host.walks
<1> DEFINE low(n) == \E w \in host.walks : w[1] = n
<1>1. \E n \in 0 .. 7 : low(n)
  <2>1. PICK w \in host.walks : TRUE OBVIOUS
  <2>2. w[1] \in 0 .. 7 OBVIOUS
  <2> QED BY <2>2
<1> HIDE DEF low
<1>2. \E n \in 0 .. 7 : low(n) /\ \A m \in 0 .. 7 : m < n => ~low(m)
  <2>1. CASE low(0) BY <2>1
  <2>2. CASE ~low(0) /\ low(1)
    <3>1. \A m \in 0 .. 7 : m < 1 => m = 0 OBVIOUS
    <3> QED BY <2>2, <3>1
  <2>3. CASE ~low(0) /\ ~low(1) /\ low(2)
    <3>1. \A m \in 0 .. 7 : m < 2 => m = 0 \/ m = 1 OBVIOUS
    <3> QED BY <2>3, <3>1
  <2>4. CASE ~low(0) /\ ~low(1) /\ ~low(2) /\ low(3)
    <3>1. \A m \in 0 .. 7 : m < 3 => m = 0 \/ m = 1 \/ m = 2 OBVIOUS
    <3> QED BY <2>4, <3>1
  <2>5. CASE ~low(0) /\ ~low(1) /\ ~low(2) /\ ~low(3) /\ low(4)
    <3>1. \A m \in 0 .. 7 : m < 4 => m = 0 \/ m = 1 \/ m = 2 \/ m = 3 OBVIOUS
    <3> QED BY <2>5, <3>1
  <2>6. CASE ~low(0) /\ ~low(1) /\ ~low(2) /\ ~low(3) /\ ~low(4) /\ low(5)
    <3>1. \A m \in 0 .. 7 : m < 5 => m = 0 \/ m = 1 \/ m = 2 \/ m = 3 \/ m = 4 OBVIOUS
    <3> QED BY <2>6, <3>1
  <2>7. CASE ~low(0) /\ ~low(1) /\ ~low(2) /\ ~low(3) /\ ~low(4) /\ ~low(5) /\ low(6)
    <3>1. \A m \in 0 .. 7 : m < 6 => m = 0 \/ m = 1 \/ m = 2 \/ m = 3 \/ m = 4 \/ m = 5 OBVIOUS
    <3> QED BY <2>7, <3>1
  <2>8. CASE ~low(0) /\ ~low(1) /\ ~low(2) /\ ~low(3) /\ ~low(4) /\ ~low(5) /\ ~low(6) /\ low(7)
    <3>1. \A m \in 0 .. 7 : m < 7 => m = 0 \/ m = 1 \/ m = 2 \/ m = 3 \/ m = 4 \/ m = 5 \/ m = 6 OBVIOUS
    <3> QED BY <2>8, <3>1
  <2>9. \A n \in 0 .. 7 : n = 0 \/ n = 1 \/ n = 2 \/ n = 3 \/ n = 4 \/ n = 5 \/ n = 6 \/ n = 7 OBVIOUS
  <2>10. low(0) \/ low(1) \/ low(2) \/ low(3) \/ low(4) \/ low(5) \/ low(6) \/ low(7) BY <1>1, <2>9
  <2> QED BY <2>1, <2>2, <2>3, <2>4, <2>5, <2>6, <2>7, <2>8, <2>10
<1>3. PICK n \in 0 .. 7 : low(n) /\ \A m \in 0 .. 7 : m < n => ~low(m) BY <1>2
<1>4. PICK w \in host.walks : w[1] = n BY <1>3 DEF low
<1>5. \A o \in host.walks : w[1] <= o[1]
  <2> SUFFICES ASSUME NEW o \in host.walks PROVE w[1] <= o[1] OBVIOUS
  <2>1. o[1] \in 0 .. 7 OBVIOUS
  <2>2. low(o[1]) BY DEF low
  <2> QED BY <1>3, <1>4, <2>1, <2>2
<1> QED BY <1>5 DEF Chosen

\* When a block ends: the edges in it, and how far the next one is.
Timing(start, edges, more) ==
  /\ dev.count = (start + (edges + more)) % 256
  /\ \E r0 \in 0 .. 4 : 4 * (edges + more) + Since = host.profile.samples + r0
  /\ \/ host.profile.samples = 64 /\ edges \in 15 .. 16
     \/ host.profile.samples = 128 /\ edges \in 31 .. 32
     \/ host.profile.samples = 256 /\ edges \in 63 .. 64

LEMMA TimedEnds ==
  ASSUME Types, EndBlock, NEW start \in 0 .. 255, NEW edges \in Nat, Timed(start, edges)
  PROVE  \E more \in {0, 1} : Timing(start, edges, more)
<1>1. PICK r0 \in 0 .. 4, r1 \in 0 .. 4 :
         /\ 4 * edges + r1 = host.index - 1 + r0
         /\ \/ dev.count = (start + edges) % 256 /\ Since = r1 + 1
            \/ dev.count = (start + edges + 1) % 256 /\ Since = r1 - 3
  BY DEF Timed
<1>2. host.index = host.profile.samples /\ host.profile.samples \in {64, 128, 256}
  BY HostTypes, ProfileFacts DEF EndBlock
<1>3. \/ host.profile.samples = 64 /\ edges \in 15 .. 16
      \/ host.profile.samples = 128 /\ edges \in 31 .. 32
      \/ host.profile.samples = 256 /\ edges \in 63 .. 64
  BY <1>1, <1>2
<1>4. Since \in 0 .. 4 BY SinceSmall
<1>5. PICK more \in {0, 1} :
         dev.count = (start + (edges + more)) % 256 /\ Since = r1 + 1 - 4 * more
  BY <1>1
<1>6. 4 * (edges + more) + Since = host.profile.samples + r0 BY <1>1, <1>2, <1>4, <1>5
<1> QED BY <1>3, <1>5, <1>6 DEF Timing

LEMMA ProgressWithin ==
  ASSUME NEW from \in Int, NEW to \in Int, NEW n \in Nat, n < 256,
         NEW p \in Profiles, p.low <= n, n <= p.high
  PROVE  to - from = n => Outside(p.low, p.high, (to % 256) - (from % 256)) = 0
<1> SUFFICES ASSUME to - from = n PROVE Outside(p.low, p.high, (to % 256) - (from % 256)) = 0
  OBVIOUS
<1>1. p.low \in Nat /\ p.high \in Nat BY ProfileFacts
<1>2. ((to % 256) - (from % 256)) % 256 = n % 256 BY SMTT(30)
<1>3. (to % 256) - (from % 256) \in Int OBVIOUS
<1> QED BY <1>1, <1>2, <1>3, Within

LEMMA SingleEnds ==
  ASSUME Types, EndBlock, MaxBlocks \in Nat, host.blocks < MaxBlocks,
         NEW start \in 0 .. 255, NEW edges \in Nat, Timed(start, edges), Single(start, edges)
  PROVE  Between' /\ host'.bad = host.bad
<1>1. PICK more \in {0, 1} : Timing(start, edges, more) BY TimedEnds
<1>2. /\ dev.count = (start + (edges + more)) % 256
      /\ \E r0 \in 0 .. 4 : 4 * (edges + more) + Since = host.profile.samples + r0
      /\ \/ host.profile.samples = 64 /\ edges \in 15 .. 16
         \/ host.profile.samples = 128 /\ edges \in 31 .. 32
         \/ host.profile.samples = 256 /\ edges \in 63 .. 64
  BY <1>1 DEF Timing
<1>3. host.profile \in Profiles /\ host.bad \in Nat /\ host.blocks \in Nat
  BY HostTypes DEF Types
<1>4. PICK own \in Int, first \in {0, 1}, last \in {0, 1} :
         /\ own % 8 = start % 8
         /\ host.profile.anchored => own = start /\ first = 0
         /\ host.binary0 = (own - first) % 256
         /\ host.symbol = (own + edges - last) % 256
         /\ edges + first - last \in Nat
         /\ last = 1 => Seen((own + edges - 1) % 256) = Seen((own + edges) % 256)
  BY DEF Single, Counts
<1>5. host.walks = {} /\ ~host.failed BY DEF Single
<1>6. Chosen[1] = host.binary0 /\ Chosen[2] = host.symbol BY <1>5 DEF Chosen
<1>7. PICK n \in Nat : n = edges + first - last BY <1>4
<1>8. n < 256 /\ host.profile.low <= n /\ n <= host.profile.high
  <2>1. CASE host.profile.anchored
    <3>1. first = 0 BY <1>4, <2>1
    <3>2. \/ host.profile.samples = 64 /\ host.profile.low = 14 /\ host.profile.high = 17
          \/ host.profile.samples = 128 /\ host.profile.low = 30 /\ host.profile.high = 34
      BY <1>3, <2>1, ProfileFacts
    <3> QED BY <1>2, <1>7, <3>1, <3>2
  <2>2. CASE ~host.profile.anchored
    <3>1. host.profile.samples = 256 /\ host.profile.low = 62 /\ host.profile.high = 66
      BY <1>3, <2>2, ProfileFacts
    <3> QED BY <1>2, <1>7, <3>1
  <2> QED BY <2>1, <2>2
<1>9. Outside(host.profile.low, host.profile.high, Chosen[2] - Chosen[1]) = 0
  <2>1. PICK from \in Int, to \in Int : from = own - first /\ to = own + edges - last OBVIOUS
  <2>2. to - from = n BY <1>7, <2>1
  <2>3. Chosen[2] = to % 256 /\ Chosen[1] = from % 256 BY <1>4, <1>6, <2>1
  <2>4. PICK p \in Profiles : p = host.profile BY <1>3
  <2>5. Outside(p.low, p.high, (to % 256) - (from % 256)) = 0
    BY <1>8, <2>2, <2>4, ProgressWithin, ZenonT(30)
  <2> QED BY <2>3, <2>4, <2>5
<1>10. /\ host'.profile = host.profile /\ host'.blocks = host.blocks + 1 /\ host'.walks = {}
      /\ ~host'.failed /\ host'.bad = host.bad + 0
      /\ host'.previous = IF host.profile.anchored THEN host.binary0 ELSE host.symbol
  <2>1. 0 # 1 OBVIOUS
  <2> QED BY <1>5, <1>6, <1>9, <2>1, EndBlockTypes
<1>11. dev' = dev /\ Since' = Since BY DEF EndBlock, Since
<1>12. host'.previous # -1
  <2>1. host.binary0 \in 0 .. 255 /\ host.symbol \in 0 .. 255 BY HostTypes
  <2> QED BY <1>10, <2>1
<1>13. ASSUME host.profile.anchored PROVE Apart(0)'
  <2>1. host'.previous = start
    <3>1. (start - 0) % 256 = start OBVIOUS
    <3> QED BY <1>4, <1>10, <1>13, <3>1
  <2>2. PICK r0 \in 0 .. 4 : 4 * (edges + more) + Since = host.profile.samples + r0 BY <1>2
  <2>3. PICK sum \in Nat : sum = edges + more OBVIOUS
  <2>4. start + sum + 0 = start + sum OBVIOUS
  <2>5. 4 * sum + Since' = host'.profile.samples + r0 /\ dev'.count = (host'.previous + sum + 0) % 256
    BY <1>2, <1>10, <1>11, <2>1, <2>2, <2>3, <2>4
  <2> QED BY <2>5 DEF Apart
<1>14. ASSUME ~host.profile.anchored
       PROVE  \E x \in Int, k \in 0 .. 2 :
                 /\ host'.previous = (x - k) % 256 /\ x % 8 = dev'.count % 8
                 /\ Behind(x, k)'
  <2>1. PICK x \in Int : x = own + edges + more OBVIOUS
  <2>2. PICK k \in 0 .. 2 : k = last + more OBVIOUS
  <2>3. host'.previous = (x - k) % 256
    <3>1. x - k = own + edges - last BY <2>1, <2>2
    <3> QED BY <1>4, <1>10, <1>14, <3>1
  <2>4. x % 8 = dev'.count % 8
    <3>1. PICK y \in Int : y = start + (edges + more) OBVIOUS
    <3>2. x % 8 = y % 8 BY <1>4, <2>1, <3>1, SMTT(30)
    <3>3. (y % 256) % 8 = y % 8 BY SMTT(30)
    <3> QED BY <1>2, <1>11, <3>1, <3>2, <3>3
  <2>5. Behind(x, k)'
    <3> SUFFICES ASSUME k = 2 PROVE Seen((x - 2) % 256)' = Seen((x - 1) % 256)' BY DEF Behind
    <3>1. x - 2 = own + edges - 1 /\ x - 1 = own + edges /\ last = 1 BY <2>1, <2>2
    <3> QED BY <1>4, <1>10, <3>1, SeenKept
  <2> QED BY <2>3, <2>4, <2>5
<1>15. host'.blocks # 0 /\ host'.bad = host.bad BY <1>3, <1>10
<1>16. Between' BY <1>10, <1>12, <1>13, <1>14, <1>15 DEF Between
<1> QED BY <1>15, <1>16

LEMMA SeveralEnds ==
  ASSUME Types, EndBlock, MaxBlocks \in Nat, host.blocks < MaxBlocks,
         NEW start \in 0 .. 255, NEW edges \in Nat, Timed(start, edges), Several(start, edges)
  PROVE  Between' /\ host'.bad = host.bad
<1>1. PICK more \in {0, 1} : Timing(start, edges, more) BY TimedEnds
<1>2. /\ host.profile \in Profiles /\ host.bad \in Nat /\ host.blocks \in Nat
      /\ host.walks \subseteq (0 .. 7) \X (0 .. 255)
  BY HostTypes DEF Types
<1>3. ~host.profile.anchored /\ host.walks # {} /\ ~host.failed BY DEF Several
<1>4. /\ host.profile.samples = 256 /\ host.profile.low = 62 /\ host.profile.high = 66
      /\ host.profile.lanes = 2
  BY <1>2, <1>3, ProfileFacts
<1>5. edges \in 63 .. 64 /\ dev.count = (start + (edges + more)) % 256 BY <1>1, <1>4 DEF Timing
<1>6. Chosen \in host.walks BY <1>2, <1>3, ChosenWalks
<1>7. PICK anchor \in 0 .. 7, symbol \in 0 .. 255 : Chosen = <<anchor, symbol>> BY <1>2, <1>6
<1>8. Chosen[1] = anchor /\ Chosen[2] = symbol BY <1>7
<1>9. Walk(anchor, symbol, start, edges) BY <1>6, <1>8 DEF Several
<1>10. PICK ahead \in {-1, 0, 1}, last \in {0, 1} :
          /\ symbol = (anchor + edges - ahead - last) % 256
          /\ symbol % 8 = (start + edges - last) % 8
          /\ ahead = 1 => start % 4 = 3
          /\ last = 1 => (start + edges) % 4 = 0
  BY <1>5, <1>9 DEF Walk
\* Not 63 edges of which a walk has missed two: the lanes hide neither end then.
<1>11. PICK n \in 62 .. 65 : n = edges - ahead - last
  <2>1. ~(ahead = 1 /\ last = 1)
    <3> SUFFICES ASSUME ahead = 1, last = 1 PROVE FALSE OBVIOUS
    <3>1. start % 4 = 3 /\ (start + edges) % 4 = 0 BY <1>10
    <3>2. edges = 63 \/ edges = 64 BY <1>5
    <3> QED BY <3>1, <3>2
  <2>2. edges - ahead - last \in 62 .. 65 BY <1>5, <2>1
  <2> QED BY <2>2
<1>12. Outside(host.profile.low, host.profile.high, Chosen[2] - Chosen[1]) = 0
  <2>1. PICK to \in Int : to = anchor + edges - ahead - last OBVIOUS
  <2>2. to - anchor = n BY <1>11, <2>1
  <2>3. symbol = to % 256 /\ anchor = anchor % 256 BY <1>10, <2>1
  <2>4. PICK p \in Profiles : p = host.profile BY <1>2
  <2>5. n \in Nat /\ n < 256 /\ p.low <= n /\ n <= p.high /\ anchor \in Int BY <1>4, <2>4
  <2>6. Outside(p.low, p.high, (to % 256) - (anchor % 256)) = 0
    BY <2>2, <2>5, ProgressWithin, ZenonT(30)
  <2> QED BY <1>8, <2>3, <2>4, <2>6
<1>13. /\ host'.profile = host.profile /\ host'.blocks = host.blocks + 1 /\ host'.walks = {}
       /\ ~host'.failed /\ host'.bad = host.bad + 0 /\ host'.previous = symbol
  <2>1. 0 # 1 OBVIOUS
  <2> QED BY <1>3, <1>6, <1>8, <1>12, <2>1, EndBlockTypes
<1>14. dev' = dev BY DEF EndBlock
<1>15. PICK k \in 0 .. 2 : k = last + more OBVIOUS
<1>16. PICK x \in Int : x = symbol + k OBVIOUS
<1>17. host'.previous = (x - k) % 256
  <2>1. symbol % 256 = symbol /\ x - k = symbol BY <1>16
  <2> QED BY <1>13, <2>1
<1>18. x % 8 = dev'.count % 8
  <2>1. PICK y \in Int : y = start + (edges + more) OBVIOUS
  <2>2. PICK z \in Int : z = start + edges - last OBVIOUS
  <2>3. symbol % 8 = z % 8 /\ y = z + k BY <1>10, <1>15, <2>1, <2>2
  <2>4. x % 8 = y % 8 BY <1>16, <2>3, SMTT(30)
  <2>5. (y % 256) % 8 = y % 8 BY SMTT(30)
  <2> QED BY <1>5, <1>14, <2>1, <2>4, <2>5
<1>19. Behind(x, k)'
  <2> SUFFICES ASSUME k = 2 PROVE Seen((x - 2) % 256) = Seen((x - 1) % 256)
    BY <1>13, SeenKept DEF Behind
  <2>1. last = 1 /\ more = 1 BY <1>15
  <2>2. (start + edges) % 4 = 0 BY <1>10, <2>1
  <2>3. PICK z \in Int : z = start + edges - 1 OBVIOUS
  <2>4. symbol % 8 = z % 8 /\ (z + 1) % 4 = 0 BY <1>10, <2>1, <2>2, <2>3
  <2>5. PICK u \in Int, v \in Int : u = x - 2 /\ v = x - 1 OBVIOUS
  <2>6. u = symbol /\ v = symbol + 1 BY <1>16, <2>5
  <2>7. (u % 8 = 3 /\ v % 8 = 4) \/ (u % 8 = 7 /\ v % 8 = 0)
    <3>1. u % 8 = z % 8 BY <2>4, <2>6
    <3>2. v % 8 = ((u % 8) + 1) % 8 BY <2>6, SMTT(30)
    <3>3. z % 8 = 3 \/ z % 8 = 7 BY <2>4, SMTT(30)
    <3> QED BY <3>1, <3>2, <3>3
  <2>8. Seen(u % 256) = Shown(u % 8) /\ Seen(v % 256) = Shown(v % 8) BY <1>4, SeenShown
  <2>9. Shown(3) = Shown(4) /\ Shown(7) = Shown(0) BY DEF Shown
  <2> QED BY <2>5, <2>7, <2>8, <2>9
<1>20. host'.previous # -1 BY <1>13
<1>21. ~host'.profile.anchored /\ host'.blocks # 0 /\ host'.bad = host.bad BY <1>2, <1>3, <1>13
<1>22. Between' BY <1>13, <1>17, <1>18, <1>19, <1>20, <1>21 DEF Between
<1> QED BY <1>21, <1>22
---------------------------------------------------------------------------
(* A block that is lost or repeated.                                       *)

\* The next snapshot is a block too far from the last one, or as far as the last one.
LEMMA JumpShows ==
  ASSUME Types, host.profile.anchored, host.previous # -1,
         NEW jump \in {host.profile.samples \div 4, -(host.profile.samples \div 4)}, Apart(jump)
  PROVE  Outside(host.profile.low, host.profile.high, dev.count - host.previous) = 1
<1>1. host.previous \in 0 .. 255 BY DEF Types
<1>2. \/ host.profile.samples = 64 /\ host.profile.low = 14 /\ host.profile.high = 17
      \/ host.profile.samples = 128 /\ host.profile.low = 30 /\ host.profile.high = 34
  BY HostTypes, ProfileFacts
<1>3. PICK edges \in Nat, r0 \in 0 .. 4 :
         /\ 4 * edges + Since = host.profile.samples + r0
         /\ dev.count = (host.previous + edges + jump) % 256
  BY DEF Apart
<1>4. Since \in 0 .. 4 BY SinceSmall
<1>5. \/ host.profile.samples = 64 /\ edges \in 15 .. 17 /\ jump \in {16, -16}
      \/ host.profile.samples = 128 /\ edges \in 31 .. 33 /\ jump \in {32, -32}
  <2>1. 64 \div 4 = 16 /\ 128 \div 4 = 32 OBVIOUS
  <2> QED BY <1>2, <1>3, <1>4, <2>1
<1>6. PICK n \in Int : n = edges + jump BY <1>5
<1>7. (dev.count - host.previous) % 256 = n % 256
  <2>1. PICK before \in Int : before = host.previous BY <1>1
  <2>2. PICK y \in Int : y = before + n OBVIOUS
  <2>3. host.previous + edges + jump = y
    <3>1. PICK far \in Int : far = jump BY <1>5
    <3>2. before + edges + far = y BY <1>6, <2>2, <3>1
    <3> QED BY <2>1, <3>1, <3>2
  <2>4. dev.count = y % 256 BY <1>3, <2>3
  <2>5. ((y % 256) - before) % 256 = (y - before) % 256 BY SMTT(30)
  <2>6. y - before = n BY <2>2
  <2> QED BY <2>1, <2>4, <2>5, <2>6
<1>8. n % 256 \notin host.profile.low .. host.profile.high
  <2>1. CASE host.profile.samples = 64
    <3>1. n \in -1 .. 1 \/ n \in 31 .. 33 BY <1>5, <1>6, <2>1
    <3>2. n % 256 \notin 14 .. 17 BY <3>1
    <3> QED BY <1>2, <2>1, <3>2
  <2>2. CASE host.profile.samples = 128
    <3>1. n \in -1 .. 1 \/ n \in 63 .. 65 BY <1>5, <1>6, <2>2
    <3>2. n % 256 \notin 30 .. 34 BY <3>1
    <3> QED BY <1>2, <2>2, <3>2
  <2> QED BY <1>2, <2>1, <2>2
<1> QED BY <1>7, <1>8 DEF Outside

LEMMA FaultMars ==
  ASSUME MaxBlocks \in Nat, IInv, Fault
  PROVE  IInv'
<1>1. Types' BY FaultTypes DEF IInv
<1>2. /\ wire = "whole" /\ host.index = 0 /\ host' = host /\ host.blocks \in 1 .. MaxBlocks - 1
      /\ wire' # "whole"
  BY DEF Fault
<1>3. Between BY <1>2 DEF IInv, Undisturbed
<1>4. PICK way \in {-1, 1} : dev' = [dev EXCEPT !.count = (@ + way * (host.profile.samples \div 4)) % 256]
  BY DEF Fault
<1>5. /\ dev.count \in 0 .. 255 /\ host.previous \in -1 .. 255 /\ host.blocks \in Nat
      /\ dev \in [count : 0 .. 255, left : 1 .. 5, late : {0, 1}]
  BY DEF IInv, Types
<1>6. Since' = Since
  <2>1. dev'.left = dev.left /\ dev'.late = dev.late BY <1>4, <1>5
  <2> QED BY <2>1 DEF Since
<1>7. ASSUME host.profile.anchored
      PROVE  /\ host.index = 0 /\ host.blocks < MaxBlocks /\ host.previous # -1
             /\ \E jump \in {host.profile.samples \div 4, -(host.profile.samples \div 4)} : Apart(jump)'
  <2>1. host.previous # -1 /\ Apart(0) BY <1>2, <1>3, <1>7 DEF Between
  <2>2. PICK edges \in Nat, r0 \in 0 .. 4 :
           /\ 4 * edges + Since = host.profile.samples + r0
           /\ dev.count = (host.previous + edges + 0) % 256
    BY <2>1 DEF Apart
  <2>3. PICK quarter \in Nat : quarter = host.profile.samples \div 4
    BY HostTypes, ProfileFacts DEF IInv
  <2>4. PICK jump \in {quarter, -quarter} : jump = way * quarter
    <3>1. (-1) * quarter = -quarter /\ 1 * quarter = quarter OBVIOUS
    <3> QED BY <3>1
  <2>5. dev'.count = (host.previous + edges + jump) % 256
    <3>1. dev'.count = (dev.count + jump) % 256 BY <1>4, <1>5, <2>3, <2>4
    <3>2. PICK y \in Int : y = host.previous + edges BY <1>5
    <3>3. dev.count = y % 256 BY <1>5, <2>2, <3>2
    <3>4. jump \in Int BY <2>4
    <3>5. ((y % 256) + jump) % 256 = (y + jump) % 256 BY <3>4, SMTT(30)
    <3> QED BY <3>1, <3>2, <3>3, <3>5
  <2>6. Apart(jump)' BY <1>2, <1>6, <2>2, <2>5 DEF Apart
  <2>7. host.blocks < MaxBlocks /\ host.index = 0 BY <1>2, <1>5
  <2> QED BY <2>1, <2>3, <2>4, <2>6, <2>7
<1>8. Marred' BY <1>2, <1>7 DEF Marred
<1>9. Undisturbed' BY <1>2 DEF Undisturbed
<1>10. Inside' BY <1>2 DEF Inside
<1> QED BY <1>1, <1>8, <1>9, <1>10 DEF IInv
---------------------------------------------------------------------------
(* Every step.                                                             *)

LEMMA SampleKeeps ==
  ASSUME IInv, Sample
  PROVE  IInv'
<1>1. /\ Types' /\ host'.profile = host.profile /\ host'.index = host.index + 1
      /\ host'.blocks = host.blocks /\ host'.bad >= host.bad
  BY SampleTypes DEF IInv
<1>2. /\ host.index \in Nat /\ host.bad \in Nat /\ host'.bad \in Nat /\ wire' = wire
      /\ host.blocks < MaxBlocks /\ host' \in HostRecord
  BY <1>1, HostTypes DEF IInv, Sample, Types, HostRecord
<1>3. host'.index # 0 BY <1>1, <1>2
<1>4. Undisturbed'
  <2> SUFFICES ASSUME wire = "whole" PROVE InBlock' /\ host'.bad = 0
    BY <1>2, <1>3 DEF Undisturbed
  <2>1. host.bad = 0 BY DEF IInv, Undisturbed
  <2>2. CASE host.index = 0 BY <2>1, <2>2, BeginBlock DEF IInv, Undisturbed
  <2>3. CASE host.index # 0 BY <2>1, <2>3, WalkOn DEF IInv, Undisturbed
  <2> QED BY <2>2, <2>3
<1>5. Marred'
  <2> SUFFICES ASSUME wire # "whole", host.profile.anchored PROVE host'.bad > 0
    BY <1>1, <1>2 DEF Marred
  <2>1. CASE host.bad > 0 BY <1>1, <1>2, <2>1
  <2>2. CASE ~(host.bad > 0)
    <3>1. /\ host.index = 0 /\ host.previous # -1
          /\ \E jump \in {host.profile.samples \div 4, -(host.profile.samples \div 4)} : Apart(jump)
      BY <2>2 DEF IInv, Marred
    <3>2. Outside(host.profile.low, host.profile.high, dev.count - host.previous) = 1
      BY <3>1, JumpShows DEF IInv
    <3>3. host' = FirstAnchored(Seen(dev.count), Gray(dev.count, 8)) BY <3>1 DEF Sample
    <3>4. dev.count \in 0 .. 255 /\ host \in HostRecord BY HostTypes DEF IInv, Types
    <3>5. FromGray(Gray(dev.count, 8)) = dev.count BY <3>4, FullWord
    <3>6. host' = [host EXCEPT !.index = 1, !.binary0 = dev.count, !.symbol = dev.count,
                               !.bad = host.bad + 1]
      BY <3>1, <3>2, <3>3, <3>5 DEF FirstAnchored
    <3>7. host'.bad = host.bad + 1 BY <3>4, <3>6 DEF HostRecord
    <3> QED BY <1>2, <3>7
  <2> QED BY <2>1, <2>2
<1>6. Inside' BY <1>1, <1>2 DEF Inside
<1> QED BY <1>1, <1>4, <1>5, <1>6 DEF IInv

LEMMA EndKeeps ==
  ASSUME MaxBlocks \in Nat, IInv, EndBlock
  PROVE  IInv'
<1>1. /\ host.index = host.profile.samples /\ host.profile.samples \in {64, 128, 256}
      /\ wire' = wire /\ host.walks \subseteq (0 .. 7) \X (0 .. 255) /\ host.bad \in Nat
  BY HostTypes, ProfileFacts DEF IInv, EndBlock
<1>2. host.index # 0 /\ host.blocks < MaxBlocks BY <1>1 DEF IInv, Inside
<1>3. host.walks = {} \/ Chosen \in host.walks BY <1>1, ChosenWalks
<1>4. /\ Types' /\ host'.profile = host.profile /\ host'.index = 0
      /\ host'.bad = host.bad
           + Outside(host.profile.low, host.profile.high, Chosen[2] - Chosen[1])
  BY <1>2, <1>3, EndBlockTypes DEF IInv
<1>5. Undisturbed'
  <2> SUFFICES ASSUME wire = "whole" PROVE Between' /\ host'.bad = 0
    BY <1>1, <1>4 DEF Undisturbed
  <2>1. InBlock /\ host.bad = 0 BY <1>2 DEF IInv, Undisturbed
  <2>2. PICK start \in 0 .. 255, edges \in Nat :
           Timed(start, edges) /\ (Single(start, edges) \/ Several(start, edges))
    BY <2>1 DEF InBlock
  <2>3. CASE Single(start, edges) BY <1>2, <2>1, <2>2, <2>3, SingleEnds DEF IInv
  <2>4. CASE Several(start, edges) BY <1>2, <2>1, <2>2, <2>4, SeveralEnds DEF IInv
  <2> QED BY <2>2, <2>3, <2>4
<1>6. Marred'
  <2> SUFFICES ASSUME wire # "whole", host.profile.anchored PROVE host'.bad > 0
    BY <1>1, <1>4 DEF Marred
  <2>1. host.bad > 0 BY <1>2 DEF IInv, Marred
  <2>2. PICK off \in {0, 1} :
           off = Outside(host.profile.low, host.profile.high, Chosen[2] - Chosen[1])
    BY OutsideIs
  <2> QED BY <1>1, <1>4, <2>1, <2>2
<1>7. Inside' BY <1>4 DEF Inside
<1> QED BY <1>4, <1>5, <1>6, <1>7 DEF IInv

LEMMA InitInv ==
  ASSUME Starts \subseteq 0 .. 255, MaxBlocks \in Nat, Init
  PROVE  IInv
<1>1. PICK p \in Profiles :
         host = [profile |-> p, index |-> 0, binary0 |-> 0, symbol |-> 0, walks |-> {},
                 failed |-> FALSE, previous |-> -1, bad |-> 0, blocks |-> 0]
  BY DEF Init
<1>2. PICK s \in Starts, left \in 1 .. 4, late \in {0, 1} :
         dev = [count |-> s, left |-> left, late |-> late]
  BY DEF Init
<1>3. wire = "whole" BY DEF Init
<1>4. Types
  <2>1. p.samples \in Nat BY ProfileFacts
  <2>2. PICK no \in BOOLEAN : no = FALSE OBVIOUS
  <2>3. no \in BOOLEAN /\ {} \in SUBSET ((0 .. 7) \X (0 .. 255)) OBVIOUS
  <2>4. host = [profile |-> p, index |-> 0, binary0 |-> 0, symbol |-> 0, walks |-> {},
                failed |-> no, previous |-> -1, bad |-> 0, blocks |-> 0]
    BY <1>1, <2>2
  <2>5. /\ host \in HostRecord /\ host.index = 0 /\ host.blocks = 0 /\ host.profile = p
    BY <2>3, <2>4 DEF HostRecord
  <2>6. /\ dev \in [count : 0 .. 255, left : 1 .. 5, late : {0, 1}]
        /\ dev.left - dev.late \in 0 .. 4
    BY <1>2
  <2> QED BY <1>3, <2>1, <2>5, <2>6 DEF Types, HostRecord
<1>5. /\ host.index = 0 /\ host.walks = {} /\ ~host.failed /\ host.previous = -1 /\ host.bad = 0
      /\ host.blocks = 0
  BY <1>1
<1> QED BY <1>3, <1>4, <1>5 DEF IInv, Undisturbed, Between, Marred, Inside

LEMMA StepInv ==
  ASSUME MaxBlocks \in Nat, IInv, [Next]_vars
  PROVE  IInv'
<1>1. CASE Sample BY <1>1, SampleKeeps
<1>2. CASE EndBlock BY <1>2, EndKeeps
<1>3. CASE Fault BY <1>3, FaultMars
<1>4. CASE Done \/ UNCHANGED vars
  <2>1. UNCHANGED <<host, wire, dev>> BY <1>4 DEF Done, vars
  <2>2. Since' = Since BY <2>1 DEF Since
  <2>3. Types' BY <2>1 DEF IInv, Types
  <2>4. Between' = Between /\ InBlock' = InBlock
    BY <2>1, <2>2 DEF Between, InBlock, Apart, Behind, Timed, Single, Counts, Several, Walk, Seen
  <2>5. Undisturbed' BY <2>1, <2>4 DEF IInv, Undisturbed
  <2>6. Marred' BY <2>1, <2>2 DEF IInv, Marred, Apart
  <2>7. Inside' BY <2>1 DEF IInv, Inside
  <2> QED BY <2>3, <2>5, <2>6, <2>7 DEF IInv
<1> QED BY <1>1, <1>2, <1>3, <1>4 DEF Next

LEMMA InvVerdict ==
  ASSUME MaxBlocks \in Nat, IInv
  PROVE  GrayVerdict
<1>1. host.blocks \in Nat /\ host.bad \in Nat BY DEF IInv, Types
<1>2. host.blocks < MaxBlocks => host.blocks # MaxBlocks BY <1>1
<1>3. wire = "whole" => host.bad = 0 BY DEF IInv, Undisturbed
<1>4. wire # "whole" /\ host.profile.anchored /\ host.blocks = MaxBlocks => host.bad > 0
  BY <1>2 DEF IInv, Marred
<1> QED BY <1>3, <1>4 DEF GrayVerdict

\* The validator stays within its block and its counter: Sample, EndBlock and what they call.
THEOREM TypeCorrect ==
  ASSUME Starts \subseteq 0 .. 255, MaxBlocks \in Nat
  PROVE  Spec => []TypeOK
<1>1. Init => IInv BY InitInv
<1>2. IInv /\ [Next]_vars => IInv' BY StepInv
<1>3. IInv => TypeOK
  <2> SUFFICES ASSUME IInv PROVE TypeOK OBVIOUS
  <2>1. Types BY DEF IInv
  <2>2. host.index \in 0 .. host.profile.samples /\ host.blocks \in 0 .. MaxBlocks
    BY <2>1, HostTypes, ProfileFacts DEF Types
  <2>3. \A w \in host.walks : w[1] \in 0 .. 7 /\ w[2] \in -1 .. 255 BY <2>1, HostTypes
  <2> QED BY <2>1, <2>2, <2>3 DEF Types, TypeOK
<1> QED BY <1>1, <1>2, <1>3, PTL DEF Spec

\* No false alarm for a stream that nothing happened to, however the edges of its source fall,
\* and an alarm for every stream with a block lost or repeated that has snapshots.
THEOREM ValidatorVerdict ==
  ASSUME Starts \subseteq 0 .. 255, MaxBlocks \in Nat
  PROVE  Spec => []GrayVerdict
<1>1. Init => IInv BY InitInv
<1>2. IInv /\ [Next]_vars => IInv' BY StepInv
<1>3. IInv => GrayVerdict BY InvVerdict
<1> QED BY <1>1, <1>2, <1>3, PTL DEF Spec
=============================================================================
