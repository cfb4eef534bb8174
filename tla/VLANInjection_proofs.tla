------------------------- MODULE VLANInjection_proofs -------------------------
(***************************************************************************)
(* Theorems about injectVLANConfig, for every set of names, subnets and    *)
(* documents and every width of int: its hash stays an int, is the name's  *)
(* own, and its output a document; the addresses it gives out are hosts of *)
(* the subnet, for every IPv4 subnet of /24 or larger; in the documents    *)
(* that the providers write, its command runs first.                       *)
(***************************************************************************)
EXTENDS VLANInjection, SequenceTheorems, WellFoundedInduction, TLAPS

\* The octets 10 + index.
Hosts == 10..250

Good(a) == a.hi = subnet.hi /\ a.octet \in Hosts

\* What keeps the addresses in their range: the hash is a number, the worker has
\* a name while it works, and no address comes from anywhere else.
AddressInv ==
    /\ hash \in Int
    /\ rest \in Seq(Nat)
    /\ name \in Names \union {None}
    /\ pc # "idle" => name \in Names
    /\ ip # None => Good(ip)
    /\ DOMAIN address = Names
    /\ \A n \in Names : address[n] # None => Good(address[n])
-----------------------------------------------------------------------------
\* What is left of an integer in an int is an integer.
LEMMA WrapInt == ASSUME NEW x \in Int PROVE Wrap(x) \in -Half..Half-1
<1> DEFINE y == x + Half
           m == 2 * Half
<1>1. y \in Int /\ m \in Nat \ {0}
  BY InjectionAssumption
<1>2. y % m \in 0..m-1
  <2> HIDE DEF y, m
  <2> QED BY <1>1
<1>3. Wrap(x) = (y % m) - Half
  BY DEF Wrap
<1>4. QED
  BY <1>2, <1>3, InjectionAssumption

\* The index of a hash, negative ones included, is in the range the comment in
\* getMachineIndex gives.
LEMMA IndexRange == ASSUME NEW h \in Int PROVE Index(h) \in 0..240
<1>1. CASE h >= 0
  <2>1. Rem(h, 241) = h % 241 /\ h % 241 \in 0..240
    BY <1>1 DEF Rem
  <2>2. QED
    BY <2>1 DEF Index
<1>2. CASE h < 0
  <2>1. (-h) % 241 \in 0..240
    BY <1>2
  <2>2. Rem(h, 241) = -((-h) % 241)
    BY <1>2 DEF Rem
  <2>3. QED
    BY <2>1, <2>2 DEF Index
<1>3. QED
  BY <1>1, <1>2

\* An address is made of the subnet's network and an octet in range: the sum does
\* not overflow its byte.
LEMMA AddressGood ==
    ASSUME NEW h \in Int,
           CalculateVLANIPAddress(subnet, Index(h)) # None
    PROVE  Good(CalculateVLANIPAddress(subnet, Index(h)))
<1>1. Index(h) \in 0..240
  BY IndexRange
<1>2. (10 + Index(h)) % 256 = 10 + Index(h)
  BY <1>1
<1>3. CalculateVLANIPAddress(subnet, Index(h))
        = [hi |-> subnet.hi, octet |-> 10 + Index(h)]
  BY <1>2 DEF CalculateVLANIPAddress
<1>4. QED
  BY <1>1, <1>3 DEF Good, Hosts
-----------------------------------------------------------------------------
LEMMA AddressInit == Init => AddressInv
<1>1. SUFFICES ASSUME Init PROVE AddressInv
  OBVIOUS
<1>2. QED
  BY <1>1 DEF Init, AddressInv

LEMMA AddressNext == AddressInv /\ [Next]_vars => AddressInv'
<1>1. SUFFICES ASSUME AddressInv, [Next]_vars PROVE AddressInv'
  OBVIOUS
<1> USE <1>1
<1>2. ASSUME NEW n \in Names, InjectVLANConfig(n) PROVE AddressInv'
  <2>1. n \in Seq(Nat)
    BY InjectionAssumption
  <2>2. QED
    BY <1>2, <2>1 DEF InjectVLANConfig, AddressInv, Good, cluster
<1>3. CASE HashCharacter
  <2>1. Head(rest) \in Nat /\ Tail(rest) \in Seq(Nat)
    BY <1>3 DEF HashCharacter, AddressInv
  <2>2. hash * 31 + Head(rest) \in Int
    BY <2>1 DEF AddressInv
  <2>3. hash' \in Int
    BY <1>3, <2>2, WrapInt, InjectionAssumption DEF HashCharacter
  <2>4. QED
    BY <1>3, <2>1, <2>3 DEF HashCharacter, AddressInv, Good, cluster, documents
<1>4. CASE CalculateAddress
  <2>1. ip' # None => Good(ip')
    BY <1>4, AddressGood DEF CalculateAddress, AddressInv
  <2>2. Good(ip') => Good(ip)'
    BY <1>4 DEF CalculateAddress, cluster, Good
  <2>3. QED
    BY <1>4, <2>1, <2>2 DEF CalculateAddress, AddressInv, Good, cluster, documents
<1>5. CASE Inject
  <2>1. Good(ip) /\ name \in Names
    BY <1>5 DEF Inject, AddressInv
  <2>2. address' = [address EXCEPT ![name] = ip] /\ subnet' = subnet
    BY <1>5 DEF Inject, cluster
  <2>3. \A n \in Names : address'[n] # None => Good(address'[n])
    BY <2>1, <2>2 DEF AddressInv
  <2>4. QED
    BY <1>5, <2>1, <2>2, <2>3 DEF Inject, AddressInv, Good, cluster
<1>6. CASE SkipInjection
  BY <1>6 DEF SkipInjection, AddressInv, Good, cluster
<1>7. CASE UNCHANGED vars
  BY <1>7 DEF vars, cluster, documents, AddressInv, Good
<1>8. QED
  BY <1>2, <1>3, <1>4, <1>5, <1>6, <1>7 DEF Next

\* AddressUsable for every set of names, every width of int and every subnet.
THEOREM AddressesUsable == Spec => []AddressUsable
<1>1. AddressInv => AddressUsable
  BY DEF AddressInv, AddressUsable, Good, Hosts, HostOctets
<1>2. QED
  BY AddressInit, AddressNext, <1>1, PTL DEF Spec
-----------------------------------------------------------------------------
(***************************************************************************)
(* Types.                                                                  *)
(***************************************************************************)

\* Every nonempty set of naturals has a least element.
LEMMA LeastNatural ==
    ASSUME NEW S \in SUBSET Nat, S # {}
    PROVE  \E x \in S : \A y \in S : x <= y
<1>1. PICK x \in S : \A y \in S : <<y, x>> \notin OpToRel(<, Nat)
  BY NatLessThanWellFounded, WFMin
<1>2. OpToRel(<, Nat) = {p \in Nat \X Nat : p[1] < p[2]}
  BY DEF OpToRel
<1>3. \A y \in S : ~ (y < x)
  BY <1>1, <1>2
<1> QED BY <1>3

LEMMA MinOfNaturals ==
    ASSUME NEW S \in SUBSET Nat, S # {}
    PROVE  Min(S) \in S
BY LeastNatural DEF Min

\* The command goes behind a line of the document, or to its end.
LEMMA InsertionPointType ==
    ASSUME NEW d \in Document
    PROVE  InsertionPoint(d) \in 0..Len(d.lines)
<1> DEFINE I == {i \in 1..Len(d.lines) : HasRuncmd(d.lines[i])}
<1>1. Len(d.lines) \in Nat
  BY DEF Document
<1>2. I # {} => Min(I) \in I
  <2>1. I \subseteq Nat
    OBVIOUS
  <2> HIDE DEF I
  <2> QED BY <2>1, MinOfNaturals
<1>3. SelectInSeq(d.lines, HasRuncmd) = IF I # {} THEN Min(I) ELSE 0
  BY DEF SelectInSeq
<1>4. SelectInSeq(d.lines, HasRuncmd) \in 0..Len(d.lines)
  <2> HIDE DEF I
  <2>1. CASE I = {}
    BY <1>1, <1>3, <2>1
  <2>2. CASE I # {}
    <3>1. Min(I) \in 1..Len(d.lines)
      BY <1>2, <2>2 DEF I
    <3> QED BY <1>1, <1>3, <2>2, <3>1
  <2> QED BY <2>1, <2>2
<1> QED BY <1>1, <1>4 DEF InsertionPoint

\* Whatever the document, the injection makes a document of it.
LEMMA InjectionType ==
    ASSUME NEW d \in Document
    PROVE  InjectVLANConfigIntoCloudInit(d) \in Document
<1> DEFINE n == InsertionPoint(d)
           s == d.lines
           end == IF d.closed THEN <<"other">> ELSE <<>>
<1>1. s \in Seq(Kinds) /\ Len(s) \in Nat /\ n \in 0..Len(s)
  BY InsertionPointType DEF Document
<1>2. \A k \in {"entry", "other", "runcmd"} : <<k>> \in Seq(Kinds)
  BY DEF Kinds
<1>3. CASE n # 0
  <2> HIDE DEF n, s
  <2>1. /\ \A i \in 1..n : s[i] \in Kinds
        /\ \A i \in n + 1..Len(s) : s[i] \in Kinds
    BY <1>1
  <2>2. SubSeq(s, 1, n) \in Seq(Kinds) /\ SubSeq(s, n + 1, Len(s)) \in Seq(Kinds)
    BY <1>1, <2>1, SubSeqProperties
  <2>3. SubSeq(s, 1, n) \o <<"entry">> \in Seq(Kinds)
    BY <1>2, <2>2, ConcatProperties
  <2>4. SubSeq(s, 1, n) \o <<"entry">> \o SubSeq(s, n + 1, Len(s)) \in Seq(Kinds)
    BY <2>2, <2>3, ConcatProperties
  <2>5. InsertAt(s, n + 1, "entry")
          = SubSeq(s, 1, n) \o <<"entry">> \o SubSeq(s, n + 1, Len(s))
    <3>1. (n + 1) - 1 = n
      BY <1>1
    <3> QED BY <3>1 DEF InsertAt
  <2>6. InjectVLANConfigIntoCloudInit(d)
          = [d EXCEPT !.lines = InsertAt(s, n + 1, "entry")]
    BY <1>3 DEF InjectVLANConfigIntoCloudInit, n, s
  <2> QED BY <2>4, <2>5, <2>6 DEF Document
<1>4. CASE n = 0
  <2>1. end \in Seq(Kinds)
    BY <1>2
  <2>2. <<"runcmd", "entry">> \in Seq(Kinds)
    BY DEF Kinds
  <2>3. InjectVLANConfigIntoCloudInit(d)
          = [lines |-> s \o end \o <<"runcmd", "entry">>, closed |-> TRUE]
    BY <1>4 DEF InjectVLANConfigIntoCloudInit
  <2> HIDE DEF s, end
  <2>4. s \o end \in Seq(Kinds)
    BY <1>1, <2>1, ConcatProperties
  <2>5. s \o end \o <<"runcmd", "entry">> \in Seq(Kinds)
    BY <2>2, <2>4, ConcatProperties
  <2> QED BY <2>3, <2>5 DEF Document
<1> QED BY <1>3, <1>4

LEMMA EmptyType == Empty \in Document
BY DEF Empty, Document

LEMMA CalculatedType ==
    ASSUME NEW s \in Subnet, NEW index \in 0..240
    PROVE  CalculateVLANIPAddress(s, index) \in Address \union {None}
<1>1. (10 + index) % 256 \in 0..255
  OBVIOUS
<1> QED BY <1>1 DEF CalculateVLANIPAddress, Address, Subnet

LEMMA TypeInit == Init => TypeOK
<1>1. 0 \in -Half .. Half - 1
  BY InjectionAssumption
<1> QED BY <1>1, EmptyType DEF Init, TypeOK

LEMMA TypeNext == TypeOK /\ AddressInv /\ [Next]_vars => TypeOK'
<1> SUFFICES ASSUME TypeOK, AddressInv, [Next]_vars
             PROVE  TypeOK'
  OBVIOUS
<1>1. ASSUME NEW n \in Names, InjectVLANConfig(n)
      PROVE  TypeOK'
  <2>1. n \in Seq(Nat) /\ 0 \in -Half .. Half - 1
    BY InjectionAssumption
  <2> QED BY <1>1, <2>1, EmptyType DEF InjectVLANConfig, TypeOK, cluster
<1>2. CASE HashCharacter
  <2>1. Head(rest) \in Nat /\ Tail(rest) \in Seq(Nat)
    BY <1>2 DEF HashCharacter, TypeOK
  <2>2. hash * 31 + Head(rest) \in Int
    BY <2>1 DEF AddressInv
  <2>3. hash' \in -Half .. Half - 1
    BY <1>2, <2>2, WrapInt DEF HashCharacter
  <2> QED BY <1>2, <2>1, <2>3 DEF HashCharacter, TypeOK, cluster, documents
<1>3. CASE CalculateAddress
  <2>1. subnet \in Subnet /\ Index(hash) \in 0..240
    BY InjectionAssumption, IndexRange DEF TypeOK, AddressInv
  <2>2. ip' \in Address \union {None}
    BY <1>3, <2>1, CalculatedType DEF CalculateAddress
  <2> QED BY <1>3, <2>2 DEF CalculateAddress, TypeOK, cluster, documents
<1>4. CASE Inject \/ SkipInjection
  <2>1. PICK d \in Documents : /\ bootstrap' = d
                               /\ userData' \in {d, InjectVLANConfigIntoCloudInit(d)}
    BY <1>4 DEF Inject, SkipInjection
  <2>2. bootstrap' \in Document /\ userData' \in Document
    BY <2>1, InjectionType, InjectionAssumption
  <2>3. address' \in [Names -> Address \union {None}]
    BY <1>4 DEF Inject, SkipInjection, TypeOK, AddressInv
  <2> QED BY <1>4, <2>2, <2>3 DEF Inject, SkipInjection, TypeOK, cluster
<1>5. CASE UNCHANGED vars
  BY <1>5 DEF vars, cluster, documents, TypeOK
<1> QED BY <1>1, <1>2, <1>3, <1>4, <1>5 DEF Next

\* Every variable keeps its type: the hash is an int however often it overflows,
\* and what goes to Latitude.sh as user data is a document whatever the bootstrap
\* data was.
THEOREM InjectionTypeCorrect == Spec => []TypeOK
BY AddressInit, AddressNext, TypeInit, TypeNext, PTL DEF Spec
-----------------------------------------------------------------------------
(***************************************************************************)
(* The hash.                                                               *)
(***************************************************************************)

\* The induction that the sums need: over the set of the numbers for which a fact
\* holds, as the library's own takes the fact as an operator.
LEMMA Induction ==
    ASSUME NEW S, 0 \in S, \A n \in Nat : n \in S => n + 1 \in S
    PROVE  Nat \subseteq S
<1> SUFFICES ASSUME Nat \ S # {}
             PROVE  FALSE
  OBVIOUS
<1>1. PICK m \in Nat \ S : \A y \in Nat \ S : m <= y
  BY LeastNatural
<1>2. m # 0 /\ m - 1 \in Nat
  BY <1>1
<1>3. m - 1 \in S
  BY <1>1, <1>2
<1> QED BY <1>2, <1>3

\* What Powers and Value compute: each number from the one before.  There is a
\* function that does.
Recurs(f, a, b, d, n) ==
    /\ f[0] = b
    /\ \A k \in 1..n : f[k] = a * f[k - 1] + d[k]

LEMMA Recurrence ==
    ASSUME NEW a \in Int, NEW b \in Int, NEW d \in [Nat -> Int], NEW n \in Nat
    PROVE  \E f \in [0..n -> Int] : Recurs(f, a, b, d, n)
<1> DEFINE Solves(f, m) == Recurs(f, a, b, d, m)
           S == {m \in Nat : \E f \in [0..m -> Int] : Solves(f, m)}
<1>1. 0 \in S
  <2> DEFINE f == [k \in 0..0 |-> b]
  <2>1. f \in [0..0 -> Int] /\ Solves(f, 0)
    BY DEF Recurs
  <2> QED BY <2>1
<1>2. ASSUME NEW m \in Nat, m \in S
      PROVE  m + 1 \in S
  <2>1. PICK f \in [0..m -> Int] : Solves(f, m)
    BY <1>2
  <2> DEFINE g == [k \in 0..m + 1 |-> IF k = m + 1 THEN a * f[m] + d[m + 1] ELSE f[k]]
  <2>2. a * f[m] + d[m + 1] \in Int
    <3>1. f[m] \in Int /\ d[m + 1] \in Int
      OBVIOUS
    <3> QED BY <3>1
  <2>3. g \in [0..m + 1 -> Int]
    BY <2>2
  <2>4. ASSUME NEW k \in 1..m + 1
        PROVE  g[k] = a * g[k - 1] + d[k]
    <3>1. CASE k = m + 1
      <4>1. g[k - 1] = f[m] /\ g[k] = a * f[m] + d[m + 1]
        BY <3>1
      <4> HIDE DEF g
      <4> QED BY <3>1, <4>1
    <3>2. CASE k # m + 1
      <4>1. k \in 1..m /\ g[k] = f[k] /\ g[k - 1] = f[k - 1]
        BY <3>2
      <4> HIDE DEF g
      <4> QED BY <2>1, <4>1 DEF Recurs
    <3> QED BY <3>1, <3>2
  <2>5. g[0] = b
    BY <2>1 DEF Recurs
  <2> HIDE DEF g
  <2>6. Solves(g, m + 1)
    BY <2>4, <2>5 DEF Recurs
  <2> HIDE DEF Solves
  <2>7. \E h \in [0..m + 1 -> Int] : Solves(h, m + 1)
    BY <2>3, <2>6
  <2> QED BY <2>7
<1>3. Nat \subseteq S
  <2> HIDE DEF S
  <2> QED BY <1>1, <1>2, Induction
<1> QED BY <1>3

\* Any function that does so has integers only.
LEMMA AllIntegers ==
    ASSUME NEW n \in Nat, NEW f, f[0] \in Int,
           \A k \in 1..n : f[k - 1] \in Int => f[k] \in Int
    PROVE  \A k \in 0..n : f[k] \in Int
<1> DEFINE S == {k \in Nat : k <= n => f[k] \in Int}
<1>1. ASSUME NEW k \in Nat, k \in S
      PROVE  k + 1 \in S
  BY <1>1
<1>2. 0 \in S
  OBVIOUS
<1> HIDE DEF S
<1>3. Nat \subseteq S
  BY <1>1, <1>2, Induction
<1> QED BY <1>3 DEF S

LEMMA Divides ==
    ASSUME NEW x \in Int, NEW m \in Nat \ {0}
    PROVE  x = m * (x \div m) + (x % m) /\ x % m \in 0..m-1 /\ x \div m \in Int
OBVIOUS

LEMMA Multiple ==
    ASSUME NEW m \in Nat \ {0}, NEW q \in Int, q >= 1
    PROVE  m * q >= m
OBVIOUS

LEMMA ModUnique ==
    ASSUME NEW m \in Nat \ {0}, NEW p \in Int, NEW q \in Int,
           NEW r \in 0..m-1, NEW s \in 0..m-1,
           m * p + r = m * q + s
    PROVE  r = s
<1>1. m * (p - q) = s - r /\ m * (q - p) = r - s
  OBVIOUS
<1>2. CASE p - q >= 1
  <2>1. m * (p - q) >= m
    BY <1>2, Multiple
  <2> QED BY <1>1, <2>1
<1>3. CASE q - p >= 1
  <2>1. m * (q - p) >= m
    BY <1>3, Multiple
  <2> QED BY <1>1, <2>1
<1>4. CASE p = q
  BY <1>1, <1>4
<1> QED BY <1>2, <1>3, <1>4

\* What differs by a multiple of the ints' number leaves the same int.
LEMMA WrapModulo ==
    ASSUME NEW x \in Int, NEW q \in Int
    PROVE  Wrap(x + 2 * Half * q) = Wrap(x)
<1> DEFINE m == 2 * Half
           y == x + Half
           z == x + m * q + Half
<1>1. m \in Nat \ {0} /\ y \in Int /\ z \in Int /\ z = y + m * q
  BY InjectionAssumption
<1> HIDE DEF m, y, z
<1>2. PICK a \in Int, r \in 0..m-1 : y = m * a + r /\ r = y % m
  BY <1>1, Divides
<1>3. PICK b \in Int, s \in 0..m-1 : z = m * b + s /\ s = z % m
  BY <1>1, Divides
<1>4. z % m = y % m
  <2>1. a + q \in Int /\ m * b + s = m * (a + q) + r
    BY <1>1, <1>2, <1>3
  <2>2. r = s
    BY <1>1, <2>1, ModUnique
  <2> QED BY <1>2, <1>3, <2>2
<1>5. Wrap(x + 2 * Half * q) = (z % m) - Half /\ Wrap(x) = (y % m) - Half
  BY DEF Wrap, m, y, z
<1> QED BY <1>4, <1>5

LEMMA WrapStep ==
    ASSUME NEW x \in Int, NEW c \in Int
    PROVE  Wrap(Wrap(x) * 31 + c) = Wrap(x * 31 + c)
<1> DEFINE m == 2 * Half
           y == x + Half
           q == -(y \div m)
<1>1. m \in Nat \ {0} /\ y \in Int
  BY InjectionAssumption
<1>2. y = m * (y \div m) + (y % m) /\ y % m \in 0..m-1 /\ y \div m \in Int
  <2> HIDE DEF m, y
  <2> QED BY <1>1, Divides
<1>3. Wrap(x) = x + m * q /\ q \in Int /\ Wrap(x) \in Int
  <2>1. Wrap(x) = (y % m) - Half
    BY DEF Wrap
  <2> QED BY <1>1, <1>2, <2>1, InjectionAssumption
<1>4. Wrap(x) * 31 + c = (x * 31 + c) + 2 * Half * (31 * q)
  <2>1. m * q \in Int /\ m * (31 * q) = 31 * (m * q)
    BY <1>1, <1>3
  <2> QED BY <1>3, <2>1
<1>5. x * 31 + c \in Int /\ 31 * q \in Int
  BY <1>3
<1> HIDE DEF q
<1> QED BY <1>4, <1>5, WrapModulo

LEMMA PowersAre ==
    ASSUME NEW n \in Nat
    PROVE  /\ Powers(n) \in [0..n -> Int]
           /\ Powers(n)[0] = 1
           /\ \A k \in 1..n : Powers(n)[k] = 31 * Powers(n)[k - 1]
<1> DEFINE d == [k \in Nat |-> 0]
<1>1. PICK g \in [0..n -> Int] : Recurs(g, 31, 1, d, n)
  <2>1. d \in [Nat -> Int] /\ 31 \in Int /\ 1 \in Int
    OBVIOUS
  <2> HIDE DEF d
  <2> QED BY <2>1, Recurrence
<1>2. g = [k \in 0..n |-> IF k = 0 THEN 1 ELSE 31 * g[k - 1]]
  <2>1. g[0] = 1 /\ \A k \in 1..n : g[k] = 31 * g[k - 1]
    BY <1>1 DEF Recurs
  <2> QED BY <2>1
<1>3. Powers(n) = [k \in 0..n |-> IF k = 0 THEN 1 ELSE 31 * Powers(n)[k - 1]]
  BY <1>2 DEF Powers
<1> DEFINE f == Powers(n)
<1>4. /\ f[0] = 1 /\ DOMAIN f = 0..n
      /\ \A k \in 1..n : f[k] = 31 * f[k - 1]
  BY <1>3
<1> HIDE DEF f
<1>5. f[0] \in Int /\ \A k \in 1..n : f[k - 1] \in Int => f[k] \in Int
  BY <1>4
<1>6. \A k \in 0..n : f[k] \in Int
  BY <1>5, AllIntegers
<1>7. f \in [0..n -> Int]
  BY <1>3, <1>6 DEF f
<1> QED BY <1>4, <1>7 DEF f

LEMMA ValueIs ==
    ASSUME NEW n \in Seq(Nat)
    PROVE  LET L == Len(n)
           IN  /\ Value(n) \in [0..L -> Int]
               /\ Value(n)[0] = 0
               /\ \A k \in 1..L :
                    Value(n)[k] = Value(n)[k - 1] + n[k] * Powers(L)[L - k]
<1> DEFINE L == Len(n)
           D(k) == n[k] * Powers(L)[L - k]
           d == [k \in Nat |-> IF k \in 1..L THEN D(k) ELSE 0]
<1>1. L \in Nat /\ \A k \in 1..L : n[k] \in Int /\ Powers(L)[L - k] \in Int
  <2>1. L \in Nat /\ \A k \in 1..L : n[k] \in Int /\ L - k \in 0..L
    OBVIOUS
  <2> HIDE DEF L
  <2>2. Powers(L) \in [0..L -> Int]
    BY <2>1, PowersAre
  <2> QED BY <2>1, <2>2
<1>2. \A k \in 1..L : D(k) \in Int
  <2> HIDE DEF L
  <2> QED BY <1>1
<1>3. d \in [Nat -> Int] /\ \A k \in 1..L : d[k] = D(k)
  <2> HIDE DEF D, L
  <2> QED BY <1>1, <1>2
<1> HIDE DEF d, D, L
<1>4. PICK g \in [0..L -> Int] : Recurs(g, 1, 0, d, L)
  <2>1. 0 \in Int /\ 1 \in Int
    OBVIOUS
  <2> QED BY <1>1, <1>3, <2>1, Recurrence
<1>5. g[0] = 0 /\ \A k \in 1..L : g[k] = g[k - 1] + D(k)
  BY <1>1, <1>3, <1>4 DEF Recurs
<1>6. g = [k \in 0..L |-> IF k = 0 THEN 0 ELSE g[k - 1] + D(k)]
  BY <1>1, <1>5
<1>7. Value(n) = [k \in 0..L |-> IF k = 0 THEN 0 ELSE Value(n)[k - 1] + D(k)]
  BY <1>6 DEF Value, D, L
<1> DEFINE f == Value(n)
<1>8. f[0] = 0 /\ DOMAIN f = 0..L /\ \A k \in 1..L : f[k] = f[k - 1] + D(k)
  BY <1>1, <1>7
<1> HIDE DEF f
<1>9. f[0] \in Int /\ \A k \in 1..L : f[k - 1] \in Int => f[k] \in Int
  BY <1>2, <1>8
<1>10. \A k \in 0..L : f[k] \in Int
  BY <1>1, <1>9, AllIntegers
<1>11. f \in [0..L -> Int]
  BY <1>7, <1>10 DEF f
<1> QED BY <1>8, <1>11 DEF D, L, f

\* The first k characters of a name hash to what is left of a number in an int: of
\* the one that takes them for the digits, without the characters to come.
Hashed(k) ==
    \E x \in Int : /\ hash = Wrap(x)
                   /\ x * Powers(Len(name))[Len(name) - k] = Value(name)[k]

HashInv ==
    /\ pc = "getMachineIndex" =>
         \E k \in 0..Len(name) : rest = SubSeq(name, k + 1, Len(name)) /\ Hashed(k)
    /\ HashOfName

LEMMA HashStarts ==
    ASSUME AddressInv, NEW n \in Names, InjectVLANConfig(n)
    PROVE  HashInv'
<1>1. n \in Seq(Nat) /\ Len(n) \in Nat
  BY InjectionAssumption
<1>2. pc' = "getMachineIndex" /\ name' = n /\ rest' = n /\ hash' = 0
  BY DEF InjectVLANConfig
<1>3. 0 = Wrap(0)
  <2>1. (0 + Half) % (2 * Half) = Half
    <3>1. /\ 2 * Half \in Nat \ {0}
          /\ 0 \in Int /\ Half \in 0..2 * Half - 1
          /\ Half \in Int
      BY InjectionAssumption
    <3>2. PICK a \in Int, r \in 0..2 * Half - 1 :
            Half = (2 * Half) * a + r /\ r = Half % (2 * Half)
      <4> DEFINE m == 2 * Half
      <4> HIDE DEF m
      <4>1. \E a \in Int, r \in 0..m-1 : Half = m * a + r /\ r = Half % m
        BY <3>1, Divides DEF m
      <4> QED BY <4>1 DEF m
    <3>3. (2 * Half) * 0 + Half = (2 * Half) * a + r
      BY <3>1, <3>2
    <3>4. Half = r
      BY <3>1, <3>2, <3>3, ModUnique
    <3> QED BY <3>1, <3>2, <3>4
  <2> QED BY <2>1, InjectionAssumption DEF Wrap
<1>4. Value(n)[0] = 0 /\ Powers(Len(n))[Len(n) - 0] \in Int
  BY <1>1, ValueIs, PowersAre
<1>5. 0 * Powers(Len(n))[Len(n) - 0] = Value(n)[0]
  BY <1>4
<1>6. Hashed(0)'
  BY <1>2, <1>3, <1>5 DEF Hashed
<1>7. SubSeq(n, 0 + 1, Len(n)) = n
  BY <1>1, SubSeqFull
<1> QED BY <1>1, <1>2, <1>6, <1>7 DEF HashInv, HashOfName

LEMMA HashGoesOn ==
    ASSUME AddressInv, HashInv, HashCharacter
    PROVE  HashInv'
<1>1. name \in Seq(Nat) /\ Len(name) \in Nat /\ hash \in Int /\ rest # <<>>
      /\ pc' = "getMachineIndex" /\ pc = "getMachineIndex" /\ name' = name
      /\ hash' = Wrap(hash * 31 + Head(rest)) /\ rest' = Tail(rest)
  BY InjectionAssumption DEF AddressInv, HashCharacter
<1>2. PICK k \in 0..Len(name) : rest = SubSeq(name, k + 1, Len(name)) /\ Hashed(k)
  BY <1>1 DEF HashInv
<1>3. PICK x \in Int : /\ hash = Wrap(x)
                       /\ x * Powers(Len(name))[Len(name) - k] = Value(name)[k]
  BY <1>2 DEF Hashed
<1> DEFINE L == Len(name)
           p == Powers(L)[L - (k + 1)]
           c == name[k + 1]
<1>4. k + 1 \in 1..L
  <2>1. k # L
    BY <1>1, <1>2, SubSeqEmpty
  <2> QED BY <1>1, <2>1
<1>5. c \in Nat /\ Head(rest) = c /\ Tail(rest) = SubSeq(name, (k + 1) + 1, L)
  BY <1>1, <1>2, <1>4, HeadTailOfSubSeq
<1>6. hash' = Wrap(x * 31 + c)
  <2>1. c \in Int
    BY <1>5
  <2> HIDE DEF c
  <2>2. Wrap(Wrap(x) * 31 + c) = Wrap(x * 31 + c)
    BY <2>1, WrapStep
  <2> QED BY <1>1, <1>3, <1>5, <2>2
<1>7. (x * 31 + c) * p = Value(name)[k + 1]
  <2>1. L - (k + 1) \in 0..L /\ L - k \in 1..L /\ (L - k) - 1 = L - (k + 1)
    BY <1>1, <1>4
  <2> HIDE DEF L
  <2>2. Powers(L) \in [0..L -> Int] /\ Powers(L)[L - k] = 31 * Powers(L)[(L - k) - 1]
    BY <1>1, <2>1, PowersAre DEF L
  <2>3. p \in Int /\ Powers(L)[L - k] = 31 * p
    BY <2>1, <2>2
  <2>4. Value(name)[k + 1] = Value(name)[(k + 1) - 1] + c * p
    BY <1>1, <1>4, ValueIs DEF L
  <2>5. (k + 1) - 1 = k
    OBVIOUS
  <2> HIDE DEF p, c
  <2>6. Value(name)[k + 1] = x * (31 * p) + c * p
    BY <1>3, <2>3, <2>4, <2>5 DEF L
  <2>7. x * (31 * p) + c * p = (x * 31 + c) * p
    BY <1>5, <2>3
  <2> QED BY <2>6, <2>7
<1>8. x * 31 + c \in Int
  BY <1>5
<1>9. Hashed(k + 1)'
  BY <1>1, <1>6, <1>7, <1>8 DEF Hashed
<1>10. rest' = SubSeq(name', (k + 1) + 1, Len(name')) /\ k + 1 \in 0..Len(name')
  BY <1>1, <1>4, <1>5
<1> HIDE DEF p, c, L
<1>11. \E j \in 0..Len(name') : rest' = SubSeq(name', j + 1, Len(name')) /\ Hashed(j)'
  BY <1>9, <1>10
<1> QED BY <1>1, <1>11 DEF HashInv, HashOfName

LEMMA HashEnds ==
    ASSUME AddressInv, HashInv, CalculateAddress
    PROVE  HashInv'
<1>1. name \in Seq(Nat) /\ Len(name) \in Nat /\ rest = <<>>
      /\ pc' = "inject" /\ pc = "getMachineIndex" /\ UNCHANGED <<name, hash>>
  BY InjectionAssumption DEF AddressInv, CalculateAddress
<1>2. PICK k \in 0..Len(name) : rest = SubSeq(name, k + 1, Len(name)) /\ Hashed(k)
  BY <1>1 DEF HashInv
<1>3. k = Len(name)
  <2>1. ASSUME k + 1 <= Len(name)
        PROVE  FALSE
    <3>1. \A i \in k + 1..Len(name) : name[i] \in Nat
      BY <1>1
    <3>2. Len(SubSeq(name, k + 1, Len(name))) = Len(name) - (k + 1) + 1
      BY <1>1, <2>1, <3>1, SubSeqProperties
    <3>3. Len(SubSeq(name, k + 1, Len(name))) = 0
      <4>1. SubSeq(name, k + 1, Len(name)) = <<>>
        BY <1>1, <1>2
      <4>2. Len(<<>>) = 0
        OBVIOUS
      <4> QED BY <4>1, <4>2, Zenon
    <3> QED BY <1>1, <2>1, <3>2, <3>3
  <2> QED BY <1>1, <2>1
<1>4. PICK x \in Int : /\ hash = Wrap(x)
                       /\ x * Powers(Len(name))[Len(name) - k] = Value(name)[k]
  BY <1>2 DEF Hashed
<1>5. Len(name) - k = 0 /\ Powers(Len(name))[0] = 1
  BY <1>1, <1>3, PowersAre
<1>6. x = Value(name)[Len(name)]
  BY <1>3, <1>4, <1>5
<1> QED BY <1>1, <1>4, <1>6 DEF HashInv, HashOfName, Polynomial

LEMMA HashNext == AddressInv /\ HashInv /\ [Next]_vars => HashInv'
<1> SUFFICES ASSUME AddressInv, HashInv, [Next]_vars
             PROVE  HashInv'
  OBVIOUS
<1>1. CASE Inject \/ SkipInjection
  BY <1>1 DEF Inject, SkipInjection, HashInv, HashOfName
<1>2. CASE UNCHANGED vars
  <2>1. UNCHANGED <<pc, name, rest, hash>>
    BY <1>2 DEF vars
  <2> QED BY <2>1 DEF HashInv, HashOfName, Hashed
<1> QED BY <1>1, <1>2, HashStarts, HashGoesOn, HashEnds DEF Next

\* HashOfName for names of every length and int of every width: the loop computes
\* the number that the characters are the digits of, as far as it fits, whatever
\* overflows on the way.
THEOREM HashIsOfName == Spec => []HashOfName
<1>1. Init => HashInv
  BY DEF Init, HashInv, HashOfName
<1>2. HashInv => HashOfName
  BY DEF HashInv
<1> QED BY AddressInit, AddressNext, HashNext, <1>1, <1>2, PTL DEF Spec

-----------------------------------------------------------------------------
(***************************************************************************)
(* The command.                                                            *)
(***************************************************************************)

LEMMA MinIs ==
    ASSUME NEW S \in SUBSET Nat, NEW m \in S, \A i \in S : m <= i
    PROVE  Min(S) = m
<1>1. \A x \in S : (\A i \in S : x <= i) => x = m
  OBVIOUS
<1>2. \E x \in S : \A i \in S : x <= i
  OBVIOUS
<1> QED BY <1>1, <1>2 DEF Min

LEMMA MaxIs ==
    ASSUME NEW S \in SUBSET Nat, NEW m \in S, \A i \in S : m >= i
    PROVE  Max(S) = m
<1>1. \A x \in S : (\A i \in S : x >= i) => x = m
  OBVIOUS
<1>2. \E x \in S : \A i \in S : x >= i
  OBVIOUS
<1> QED BY <1>1, <1>2 DEF Max

\* The commands of a document whose last key is at k and whose section goes to l.
LEMMA CommandsAre ==
    ASSUME NEW s \in Seq(Kinds), NEW k \in 1..Len(s), NEW l \in k..Len(s),
           IsKey(s[k]), \A i \in k + 1..Len(s) : ~IsKey(s[i]),
           \A i \in k + 1..l : ~EndsSection(s[i]),
           l = Len(s) \/ EndsSection(s[l + 1])
    PROVE  Commands(s) = SubSeq(s, k + 1, l)
<1> DEFINE K == {i \in 1..Len(s) : IsKey(s[i])}
           E == {i \in k + 1..Len(s) : EndsSection(s[i])}
           end == SelectInSubSeq(s, k + 1, Len(s), EndsSection)
<1>1. Len(s) \in Nat
  OBVIOUS
<1>2. SelectLastInSeq(s, IsKey) = k
  <2>1. K \in SUBSET Nat /\ k \in K /\ \A i \in K : k >= i
    BY <1>1
  <2>2. SelectLastInSeq(s, IsKey) = IF K # {} THEN Max(K) ELSE 0
    BY DEF SelectLastInSeq
  <2> HIDE DEF K
  <2>3. Max(K) = k
    BY <2>1, MaxIs
  <2> QED BY <2>1, <2>2, <2>3
<1>3. end = IF E # {} THEN Min(E) ELSE 0
  BY DEF SelectInSubSeq
<1>4. CASE l = Len(s)
  <2>1. E = {}
    BY <1>1, <1>4
  <2>2. end = 0
    BY <1>3, <2>1
  <2> HIDE DEF end
  <2> QED BY <1>1, <1>2, <1>4, <2>2 DEF Commands, end
<1>5. CASE l # Len(s)
  <2>1. E \in SUBSET Nat /\ l + 1 \in E /\ \A i \in E : l + 1 <= i
    BY <1>1, <1>5
  <2> HIDE DEF E
  <2>2. Min(E) = l + 1
    BY <2>1, MinIs
  <2>3. end = l + 1
    BY <1>3, <2>1, <2>2
  <2>4. end # 0 /\ end - 1 = l
    BY <1>1, <2>3
  <2> HIDE DEF end
  <2> QED BY <1>2, <1>1, <2>4 DEF Commands, end
<1> QED BY <1>4, <1>5

\* A section ends somewhere.
LEMMA SectionEnds ==
    ASSUME NEW s \in Seq(Kinds), NEW k \in 1..Len(s)
    PROVE  \E l \in k..Len(s) : /\ \A i \in k + 1..l : ~EndsSection(s[i])
                                /\ l = Len(s) \/ EndsSection(s[l + 1])
<1> DEFINE E == {i \in k + 1..Len(s) : EndsSection(s[i])}
<1>1. Len(s) \in Nat
  OBVIOUS
<1>2. CASE E = {}
  <2>1. \A i \in k + 1..Len(s) : ~EndsSection(s[i])
    BY <1>2
  <2> QED BY <1>1, <2>1
<1>3. CASE E # {}
  <2>1. E \in SUBSET Nat
    BY <1>1
  <2>2. PICK e \in E : \A i \in E : e <= i
    <3> HIDE DEF E
    <3> QED BY <1>3, <2>1, LeastNatural
  <2>3. e - 1 \in k..Len(s) /\ (e - 1) + 1 = e /\ EndsSection(s[e])
    BY <1>1, <2>2
  <2>4. \A i \in k + 1..e - 1 : ~EndsSection(s[i])
    BY <1>1, <2>2
  <2> QED BY <2>3, <2>4
<1> QED BY <1>2, <1>3

LEMMA NoCommands ==
    ASSUME NEW s \in Seq(Kinds), \A i \in 1..Len(s) : ~IsKey(s[i])
    PROVE  Commands(s) = <<>>
<1>1. SelectLastInSeq(s, IsKey) = 0
  BY DEF SelectLastInSeq
<1> QED BY <1>1 DEF Commands

\* The command goes behind the first line with "runcmd:", unless that is an
\* unterminated last one or there is none.
LEMMA InsertionPointIs ==
    ASSUME NEW d \in Document
    PROVE  LET s == d.lines
               p == InsertionPoint(d)
           IN  \/ /\ p \in 1..Len(s) /\ HasRuncmd(s[p])
                  /\ \A i \in 1..p - 1 : ~HasRuncmd(s[i])
               \/ p = 0 /\ \A i \in 1..Len(s) - 1 : ~HasRuncmd(s[i])
<1> DEFINE s == d.lines
           I == {i \in 1..Len(s) : HasRuncmd(s[i])}
           first == SelectInSeq(s, HasRuncmd)
           p == InsertionPoint(d)
<1>1. s \in Seq(Kinds) /\ Len(s) \in Nat
  BY DEF Document
<1>2. first = IF I # {} THEN Min(I) ELSE 0
  BY DEF SelectInSeq
<1>3. p = IF first = Len(s) /\ ~d.closed THEN 0 ELSE first
  BY DEF InsertionPoint
<1>4. CASE I = {}
  BY <1>1, <1>2, <1>3, <1>4
<1>5. CASE I # {}
  <2>1. I \in SUBSET Nat
    BY <1>1
  <2>2. PICK m \in I : \A i \in I : m <= i
    <3> HIDE DEF I
    <3> QED BY <1>5, <2>1, LeastNatural
  <2>3. Min(I) = m
    <3> HIDE DEF I
    <3> QED BY <2>1, <2>2, MinIs
  <2>4. m \in 1..Len(s) /\ HasRuncmd(s[m]) /\ \A i \in 1..m - 1 : ~HasRuncmd(s[i])
    BY <1>1, <2>2
  <2>5. first = m
    BY <1>2, <1>5, <2>3
  <2> HIDE DEF first, p, s
  <2>6. p = m \/ (p = 0 /\ m = Len(s))
    BY <1>3, <2>5
  <2> QED BY <2>4, <2>6 DEF p, s
<1> QED BY <1>4, <1>5

LEMMA SliceIs ==
    ASSUME NEW s \in Seq(Kinds), NEW m \in 1..Len(s) + 1, NEW n \in m - 1..Len(s)
    PROVE  /\ SubSeq(s, m, n) \in Seq(Kinds)
           /\ Len(SubSeq(s, m, n)) = (n - m) + 1
           /\ \A i \in 1..(n - m) + 1 : SubSeq(s, m, n)[i] = s[(m + i) - 1]
<1>1. /\ m \in Int /\ n \in Int /\ Len(s) \in Nat
      /\ \A i \in m..n : s[i] \in Kinds
  OBVIOUS
<1>2. /\ SubSeq(s, m, n) \in Seq(Kinds)
      /\ Len(SubSeq(s, m, n)) = IF m <= n THEN n - m + 1 ELSE 0
  BY <1>1, SubSeqProperties
<1>3. \A i \in 1..n - m + 1 : SubSeq(s, m, n)[i] = s[m + i - 1]
  BY <1>1, SubSeqProperties
<1>4. Len(SubSeq(s, m, n)) = (n - m) + 1
  BY <1>1, <1>2
<1> QED BY <1>2, <1>3, <1>4

LEMMA ConcatIs ==
    ASSUME NEW a \in Seq(Kinds), NEW b \in Seq(Kinds)
    PROVE  /\ a \o b \in Seq(Kinds)
           /\ Len(a \o b) = Len(a) + Len(b)
           /\ \A i \in 1..Len(a) : (a \o b)[i] = a[i]
           /\ \A i \in 1..Len(b) : (a \o b)[Len(a) + i] = b[i]
<1>1. Len(a) \in Nat /\ Len(b) \in Nat
  OBVIOUS
<1>2. /\ a \o b \in Seq(Kinds)
      /\ Len(a \o b) = Len(a) + Len(b)
      /\ \A i \in 1..Len(a) + Len(b) :
           (a \o b)[i] = IF i <= Len(a) THEN a[i] ELSE b[i - Len(a)]
  BY ConcatProperties
<1>3. ASSUME NEW i \in 1..Len(a)
      PROVE  (a \o b)[i] = a[i]
  <2>1. i \in 1..Len(a) + Len(b) /\ i <= Len(a)
    BY <1>1
  <2> QED BY <1>2, <2>1
<1>4. ASSUME NEW i \in 1..Len(b)
      PROVE  (a \o b)[Len(a) + i] = b[i]
  <2>1. /\ Len(a) + i \in 1..Len(a) + Len(b) /\ ~(Len(a) + i <= Len(a))
        /\ (Len(a) + i) - Len(a) = i
    BY <1>1
  <2> QED BY <1>2, <2>1
<1> QED BY <1>2, <1>3, <1>4

LEMMA InsertedIs ==
    ASSUME NEW s \in Seq(Kinds), NEW n \in 1..Len(s), NEW u,
           u = InsertAt(s, n + 1, "entry")
    PROVE  /\ u \in Seq(Kinds)
           /\ Len(u) = Len(s) + 1
           /\ \A i \in 1..n : u[i] = s[i]
           /\ u[n + 1] = "entry"
           /\ \A i \in n + 1..Len(s) : u[i + 1] = s[i]
<1> DEFINE a == SubSeq(s, 1, n)
           e == <<"entry">>
           b == SubSeq(s, n + 1, Len(s))
           L == Len(s)
<1>1. L \in Nat /\ \A i \in 1..L : s[i] \in Kinds
  OBVIOUS
<1>2. /\ a \in Seq(Kinds) /\ Len(a) = n /\ \A i \in 1..n : a[i] = s[i]
      /\ b \in Seq(Kinds) /\ Len(b) = L - n
      /\ \A i \in 1..L - n : b[i] = s[n + i]
  <2>1. /\ 1 \in 1..L + 1 /\ n \in 1 - 1..L /\ (n - 1) + 1 = n
        /\ n + 1 \in 1..L + 1 /\ L \in (n + 1) - 1..L /\ (L - (n + 1)) + 1 = L - n
        /\ \A i \in 1..L : (1 + i) - 1 = i /\ ((n + 1) + i) - 1 = n + i
        /\ 1..n \subseteq 1..L /\ 1..L - n \subseteq 1..L
    BY <1>1
  <2>2. /\ a \in Seq(Kinds) /\ Len(a) = (n - 1) + 1
        /\ \A i \in 1..(n - 1) + 1 : a[i] = s[(1 + i) - 1]
    BY <2>1, SliceIs
  <2>3. /\ b \in Seq(Kinds) /\ Len(b) = (L - (n + 1)) + 1
        /\ \A i \in 1..(L - (n + 1)) + 1 : b[i] = s[((n + 1) + i) - 1]
    BY <2>1, SliceIs
  <2> HIDE DEF a, b, L
  <2> QED BY <2>1, <2>2, <2>3
<1>3. e \in Seq(Kinds) /\ Len(e) = 1 /\ e[1] = "entry"
  BY DEF Kinds
<1>4. u = (a \o e) \o b
  <2>1. (n + 1) - 1 = n
    OBVIOUS
  <2> QED BY <2>1 DEF InsertAt
<1> HIDE DEF a, e, b, L
<1>5. /\ a \o e \in Seq(Kinds) /\ Len(a \o e) = n + 1
      /\ \A i \in 1..n : (a \o e)[i] = a[i]
      /\ (a \o e)[n + 1] = "entry"
  <2>1. 1 \in 1..Len(e)
    BY <1>3
  <2>2. /\ a \o e \in Seq(Kinds) /\ Len(a \o e) = Len(a) + Len(e)
        /\ \A i \in 1..Len(a) : (a \o e)[i] = a[i]
        /\ \A i \in 1..Len(e) : (a \o e)[Len(a) + i] = e[i]
    BY <1>2, <1>3, ConcatIs
  <2> QED BY <1>2, <1>3, <2>1, <2>2
<1>6. /\ u \in Seq(Kinds) /\ Len(u) = (n + 1) + (L - n)
      /\ \A i \in 1..n + 1 : u[i] = (a \o e)[i]
      /\ \A i \in 1..L - n : u[(n + 1) + i] = b[i]
  <2> DEFINE f == a \o e
  <2>1. f \in Seq(Kinds) /\ Len(f) = n + 1 /\ u = f \o b
    BY <1>4, <1>5
  <2> HIDE DEF f
  <2>2. /\ u \in Seq(Kinds) /\ Len(u) = (n + 1) + (L - n)
        /\ \A i \in 1..n + 1 : u[i] = f[i]
        /\ \A i \in 1..L - n : u[(n + 1) + i] = b[i]
    <3>1. /\ f \o b \in Seq(Kinds) /\ Len(f \o b) = Len(f) + Len(b)
          /\ \A i \in 1..Len(f) : (f \o b)[i] = f[i]
          /\ \A i \in 1..Len(b) : (f \o b)[Len(f) + i] = b[i]
      BY <1>2, <2>1, ConcatIs
    <3> QED BY <1>2, <2>1, <3>1
  <2> QED BY <2>2 DEF f
<1>7. Len(u) = L + 1
  BY <1>1, <1>6
<1>8. ASSUME NEW i \in 1..n
      PROVE  u[i] = s[i]
  <2>1. i \in 1..n + 1
    OBVIOUS
  <2> QED BY <1>2, <1>5, <1>6, <2>1
<1>9. u[n + 1] = "entry"
  <2>1. n + 1 \in 1..n + 1
    OBVIOUS
  <2> QED BY <1>5, <1>6, <2>1
<1>10. ASSUME NEW i \in n + 1..L
       PROVE  u[i + 1] = s[i]
  <2>1. i - n \in 1..L - n /\ (n + 1) + (i - n) = i + 1 /\ n + (i - n) = i
    BY <1>1
  <2> QED BY <1>2, <1>6, <2>1
<1> QED BY <1>6, <1>7, <1>8, <1>9, <1>10 DEF L

\* The user data without the command.
LEMMA RemovedIs ==
    ASSUME NEW u \in Seq(Kinds), NEW e \in 1..Len(u), u[e] = "entry",
           \A i \in 1..e - 1 : u[i] # "entry"
    PROVE  RemoveFirst(u, "entry") = SubSeq(u, 1, e - 1) \o SubSeq(u, e + 1, Len(u))
<1> DEFINE I == {i \in 1..Len(u) : u[i] = "entry"}
<1>1. I \in SUBSET Nat /\ e \in I /\ \A i \in I : e <= i
  OBVIOUS
<1>2. RemoveFirst(u, "entry") = RemoveAt(u, IF I # {} THEN Min(I) ELSE 0)
  BY DEF RemoveFirst, SelectInSeq
<1> HIDE DEF I
<1>3. Min(I) = e /\ I # {}
  BY <1>1, MinIs
<1> QED BY <1>2, <1>3 DEF RemoveAt

LEMMA PrefixIs ==
    ASSUME NEW s \in Seq(Kinds), NEW t \in Seq(Kinds), Len(s) <= Len(t),
           \A i \in 1..Len(s) : s[i] = t[i]
    PROVE  IsPrefix(s, t)
<1>1. Len(s) \in Nat /\ Len(t) \in Nat
  OBVIOUS
<1> DEFINE a == SubSeq(s, 1, Len(s))
           b == SubSeq(t, 1, Len(s))
<1>2. /\ 1 \in 1..Len(s) + 1 /\ 1 \in 1..Len(t) + 1
      /\ Len(s) \in 1 - 1..Len(s) /\ Len(s) \in 1 - 1..Len(t)
      /\ (Len(s) - 1) + 1 = Len(s) /\ \A i \in 1..Len(s) : (1 + i) - 1 = i
  BY <1>1
<1>3. /\ a \in Seq(Kinds) /\ Len(a) = (Len(s) - 1) + 1
      /\ \A i \in 1..(Len(s) - 1) + 1 : a[i] = s[(1 + i) - 1]
  BY <1>2, SliceIs
<1>4. /\ b \in Seq(Kinds) /\ Len(b) = (Len(s) - 1) + 1
      /\ \A i \in 1..(Len(s) - 1) + 1 : b[i] = t[(1 + i) - 1]
  BY <1>2, SliceIs
<1> HIDE DEF a, b
<1>5. Len(a) = Len(b) /\ \A i \in 1..Len(a) : a[i] = b[i]
  BY <1>2, <1>3, <1>4
<1>6. a = b
  BY <1>3, <1>4, <1>5, SeqEqual
<1> QED BY <1>6 DEF IsPrefix, a, b

\* What runs, and what is left of u without the command, for a document's lines s.
RunsFirst(s, u) ==
    /\ Commands(u) = <<"entry">> \o Commands(s)
    /\ IsPrefix(s, RemoveFirst(u, "entry"))

\* The command goes behind the key of the only section.
LEMMA InsertRunsFirst ==
    ASSUME NEW s \in Seq(Kinds), NEW p \in 1..Len(s), IsKey(s[p]),
           \A i \in p + 1..Len(s) : ~IsKey(s[i]),
           \A i \in 1..Len(s) : s[i] # "entry"
    PROVE  RunsFirst(s, InsertAt(s, p + 1, "entry"))
<1> DEFINE L == Len(s)
           u == InsertAt(s, p + 1, "entry")
<1>1. /\ u \in Seq(Kinds) /\ Len(u) = L + 1 /\ L \in Nat
      /\ \A i \in 1..p : u[i] = s[i]
      /\ u[p + 1] = "entry"
      /\ \A i \in p + 1..L : u[i + 1] = s[i]
  BY InsertedIs
<1> HIDE DEF u, L
<1>2. PICK l \in p..L : /\ \A i \in p + 1..l : ~EndsSection(s[i])
                        /\ l = L \/ EndsSection(s[l + 1])
  BY SectionEnds DEF L
<1>3. Commands(s) = SubSeq(s, p + 1, l)
  BY <1>2, CommandsAre DEF L
<1>4. Commands(u) = SubSeq(u, p + 1, l + 1)
  <2>1. p \in 1..Len(u) /\ l + 1 \in p..Len(u) /\ IsKey(u[p])
    BY <1>1, <1>2 DEF L
  <2>2. ASSUME NEW i \in p + 1..Len(u)
        PROVE  ~IsKey(u[i]) /\ (i \in p + 1..l + 1 => ~EndsSection(u[i]))
    <3>1. CASE i = p + 1
      BY <1>1, <3>1 DEF IsKey, EndsSection
    <3>2. CASE i # p + 1
      <4>1. i - 1 \in p + 1..L /\ (i - 1) + 1 = i
        BY <1>1, <3>2
      <4>2. u[i] = s[i - 1]
        BY <1>1, <4>1
      <4>3. i \in p + 1..l + 1 => i - 1 \in p + 1..l
        BY <4>1, <1>2
      <4> QED BY <1>2, <4>1, <4>2, <4>3 DEF L
    <3> QED BY <3>1, <3>2
  <2>3. l + 1 = Len(u) \/ EndsSection(u[(l + 1) + 1])
    <3>1. CASE l = L
      BY <1>1, <3>1
    <3>2. CASE l # L
      <4>1. l + 1 \in p + 1..L
        BY <1>1, <1>2, <3>2
      <4> QED BY <1>1, <1>2, <3>2, <4>1
    <3> QED BY <3>1, <3>2
  <2>4. /\ \A i \in p + 1..Len(u) : ~IsKey(u[i])
        /\ \A i \in p + 1..l + 1 : ~EndsSection(u[i])
    BY <1>1, <1>2, <2>2
  <2> QED BY <1>1, <2>1, <2>3, <2>4, CommandsAre
<1> DEFINE a == SubSeq(s, p + 1, l)
           b == SubSeq(u, p + 1, l + 1)
           e == <<"entry">>
<1>5. /\ a \in Seq(Kinds) /\ Len(a) = l - p
      /\ \A i \in 1..l - p : a[i] = s[p + i]
  <2>1. /\ p + 1 \in 1..Len(s) + 1 /\ l \in (p + 1) - 1..Len(s)
        /\ (l - (p + 1)) + 1 = l - p /\ \A i \in 1..l - p : ((p + 1) + i) - 1 = p + i
    BY <1>1, <1>2 DEF L
  <2>2. /\ a \in Seq(Kinds) /\ Len(a) = (l - (p + 1)) + 1
        /\ \A i \in 1..(l - (p + 1)) + 1 : a[i] = s[((p + 1) + i) - 1]
    BY <2>1, SliceIs
  <2> HIDE DEF a
  <2> QED BY <2>1, <2>2
<1>6. /\ b \in Seq(Kinds) /\ Len(b) = (l - p) + 1
      /\ \A i \in 1..(l - p) + 1 : b[i] = u[p + i]
  <2>1. /\ p + 1 \in 1..Len(u) + 1 /\ l + 1 \in (p + 1) - 1..Len(u)
        /\ ((l + 1) - (p + 1)) + 1 = (l - p) + 1
        /\ \A i \in 1..(l - p) + 1 : ((p + 1) + i) - 1 = p + i
    BY <1>1, <1>2
  <2>2. /\ b \in Seq(Kinds) /\ Len(b) = ((l + 1) - (p + 1)) + 1
        /\ \A i \in 1..((l + 1) - (p + 1)) + 1 : b[i] = u[((p + 1) + i) - 1]
    BY <1>1, <2>1, SliceIs
  <2> HIDE DEF b
  <2> QED BY <2>1, <2>2
<1>7. e \in Seq(Kinds) /\ Len(e) = 1 /\ e[1] = "entry"
  BY DEF Kinds
<1> HIDE DEF a, b, e
<1>8. /\ e \o a \in Seq(Kinds) /\ Len(e \o a) = Len(e) + Len(a)
      /\ \A i \in 1..Len(e) : (e \o a)[i] = e[i]
      /\ \A i \in 1..Len(a) : (e \o a)[Len(e) + i] = a[i]
  BY <1>5, <1>7, ConcatIs
<1>9. b = e \o a
  <2>1. l - p \in Nat
    BY <1>1, <1>2
  <2>2. Len(b) = Len(e \o a)
    BY <1>5, <1>6, <1>7, <1>8, <2>1
  <2>3. ASSUME NEW i \in 1..Len(b)
        PROVE  b[i] = (e \o a)[i]
    <3>1. CASE i = 1
      <4>1. 1 \in 1..Len(e) /\ i \in 1..(l - p) + 1
        BY <1>6, <1>7
      <4> QED BY <1>1, <1>6, <1>7, <1>8, <3>1, <4>1
    <3>2. CASE i # 1
      <4>1. /\ i - 1 \in 1..l - p /\ 1 + (i - 1) = i /\ i \in 1..(l - p) + 1
            /\ p + (i - 1) \in p + 1..L /\ (p + (i - 1)) + 1 = p + i
        BY <1>1, <1>2, <1>6, <2>1, <3>2
      <4>2. b[i] = u[p + i] /\ u[p + i] = s[p + (i - 1)] /\ a[i - 1] = s[p + (i - 1)]
        BY <1>1, <1>5, <1>6, <4>1
      <4>3. (e \o a)[1 + (i - 1)] = a[i - 1]
        BY <1>5, <1>7, <1>8, <4>1
      <4> QED BY <4>1, <4>2, <4>3
    <3> QED BY <3>1, <3>2
  <2> QED BY <1>6, <1>8, <2>2, <2>3, SeqEqual
<1>10. IsPrefix(s, RemoveFirst(u, "entry"))
  <2> DEFINE f == SubSeq(u, 1, p)
             g == SubSeq(u, (p + 1) + 1, Len(u))
  <2>1. RemoveFirst(u, "entry") = f \o g
    <3>1. p + 1 \in 1..Len(u) /\ (p + 1) - 1 = p
      BY <1>1 DEF L
    <3>2. \A i \in 1..p : u[i] # "entry"
      BY <1>1 DEF L
    <3> QED BY <1>1, <3>1, <3>2, RemovedIs
  <2>2. /\ f \in Seq(Kinds) /\ Len(f) = p /\ \A i \in 1..p : f[i] = u[i]
    <3>1. /\ 1 \in 1..Len(u) + 1 /\ p \in 1 - 1..Len(u)
          /\ (p - 1) + 1 = p /\ \A i \in 1..p : (1 + i) - 1 = i
      BY <1>1 DEF L
    <3>2. /\ f \in Seq(Kinds) /\ Len(f) = (p - 1) + 1
          /\ \A i \in 1..(p - 1) + 1 : f[i] = u[(1 + i) - 1]
      BY <1>1, <3>1, SliceIs
    <3> HIDE DEF f
    <3> QED BY <3>1, <3>2
  <2>3. /\ g \in Seq(Kinds) /\ Len(g) = L - p
        /\ \A i \in 1..L - p : g[i] = u[(p + i) + 1]
    <3>1. /\ (p + 1) + 1 \in 1..Len(u) + 1 /\ Len(u) \in ((p + 1) + 1) - 1..Len(u)
          /\ (Len(u) - ((p + 1) + 1)) + 1 = L - p
          /\ \A i \in 1..L - p : (((p + 1) + 1) + i) - 1 = (p + i) + 1
      BY <1>1 DEF L
    <3>2. /\ g \in Seq(Kinds) /\ Len(g) = (Len(u) - ((p + 1) + 1)) + 1
          /\ \A i \in 1..(Len(u) - ((p + 1) + 1)) + 1 :
               g[i] = u[(((p + 1) + 1) + i) - 1]
      BY <1>1, <3>1, SliceIs
    <3> HIDE DEF g
    <3> QED BY <3>1, <3>2
  <2> HIDE DEF f, g
  <2>4. /\ f \o g \in Seq(Kinds) /\ Len(f \o g) = Len(f) + Len(g)
        /\ \A i \in 1..Len(f) : (f \o g)[i] = f[i]
        /\ \A i \in 1..Len(g) : (f \o g)[Len(f) + i] = g[i]
    BY <2>2, <2>3, ConcatIs
  <2>5. Len(f \o g) = Len(s)
    BY <1>1, <2>2, <2>3, <2>4 DEF L
  <2>6. ASSUME NEW i \in 1..Len(s)
        PROVE  s[i] = (f \o g)[i]
    <3>1. CASE i <= p
      <4>1. i \in 1..p
        BY <3>1
      <4> QED BY <1>1, <2>2, <2>4, <4>1
    <3>2. CASE ~(i <= p)
      <4>1. i - p \in 1..L - p /\ p + (i - p) = i /\ i \in p + 1..L
        BY <1>1, <3>2 DEF L
      <4>2. g[i - p] = u[i + 1] /\ u[i + 1] = s[i]
        BY <1>1, <2>3, <4>1
      <4> QED BY <2>2, <2>3, <2>4, <4>1, <4>2
    <3> QED BY <3>1, <3>2
  <2>7. Len(s) <= Len(f \o g)
    BY <1>1, <2>5 DEF L
  <2> QED BY <2>1, <2>4, <2>6, <2>7, PrefixIs
<1> QED BY <1>3, <1>4, <1>9, <1>10 DEF RunsFirst, a, b, e, u

\* A section of its own goes behind a document with no line to insert behind.
LEMMA AppendRunsFirst ==
    ASSUME NEW s \in Seq(Kinds), NEW end \in {<<>>, <<"other">>},
           \A i \in 1..Len(s) - 1 : ~HasRuncmd(s[i]),
           \A i \in 1..Len(s) : s[i] # "entry"
    PROVE  RunsFirst(s, (s \o end) \o <<"runcmd", "entry">>)
<1> DEFINE L == Len(s)
           t == s \o end
           m == Len(t)
           c == <<"runcmd", "entry">>
           u == t \o c
           e == <<"entry">>
<1>1. L \in Nat
  OBVIOUS
<1>2. /\ end \in Seq(Kinds) /\ Len(end) \in Nat
      /\ \A i \in 1..Len(end) : end[i] # "entry"
  <2>1. CASE end = <<>>
    BY <2>1
  <2>2. CASE end = <<"other">>
    BY <2>2 DEF Kinds
  <2> QED BY <2>1, <2>2
<1>3. /\ c \in Seq(Kinds) /\ Len(c) = 2 /\ c[1] = "runcmd" /\ c[2] = "entry"
      /\ e \in Seq(Kinds) /\ Len(e) = 1 /\ e[1] = "entry"
  BY DEF Kinds
<1>4. /\ t \in Seq(Kinds) /\ m = L + Len(end)
      /\ \A i \in 1..L : t[i] = s[i]
      /\ \A i \in 1..Len(end) : t[L + i] = end[i]
  BY <1>2, ConcatIs
<1> HIDE DEF t, c, e, L
<1>5. m \in Nat /\ L <= m
  BY <1>1, <1>2, <1>4
<1>6. ASSUME NEW i \in 1..m
      PROVE  t[i] # "entry"
  <2>1. CASE i \in 1..L
    BY <1>4, <2>1 DEF L
  <2>2. CASE i \notin 1..L
    <3>1. i - L \in 1..Len(end) /\ L + (i - L) = i
      BY <1>1, <1>2, <1>4, <2>2
    <3> QED BY <1>2, <1>4, <3>1
  <2> QED BY <2>1, <2>2
<1>7. /\ u \in Seq(Kinds) /\ Len(u) = m + Len(c)
      /\ \A i \in 1..m : u[i] = t[i]
      /\ \A i \in 1..Len(c) : u[m + i] = c[i]
  BY <1>3, <1>4, ConcatIs
<1> HIDE DEF u, m
<1>8. Len(u) = m + 2 /\ u[m + 1] = "runcmd" /\ u[m + 2] = "entry"
  <2>1. 1 \in 1..Len(c) /\ 2 \in 1..Len(c)
    BY <1>3
  <2> QED BY <1>3, <1>7, <2>1
<1>9. Commands(u) = e
  <2>1. /\ m + 1 \in 1..Len(u) /\ m + 2 \in m + 1..Len(u) /\ IsKey(u[m + 1])
        /\ m + 2 = Len(u)
    BY <1>5, <1>8 DEF IsKey
  <2>2. ASSUME NEW i \in (m + 1) + 1..m + 2
        PROVE  ~IsKey(u[i]) /\ ~EndsSection(u[i])
    <3>1. i = m + 2
      BY <1>5
    <3> QED BY <1>8, <3>1 DEF IsKey, EndsSection
  <2>3. Commands(u) = SubSeq(u, (m + 1) + 1, m + 2)
    <3>1. /\ \A i \in (m + 1) + 1..Len(u) : ~IsKey(u[i])
          /\ \A i \in (m + 1) + 1..m + 2 : ~EndsSection(u[i])
      BY <2>1, <2>2
    <3> QED BY <1>7, <2>1, <3>1, CommandsAre
  <2> DEFINE b == SubSeq(u, (m + 1) + 1, m + 2)
  <2>4. /\ (m + 1) + 1 \in 1..Len(u) + 1 /\ m + 2 \in ((m + 1) + 1) - 1..Len(u)
        /\ ((m + 2) - ((m + 1) + 1)) + 1 = 1 /\ (((m + 1) + 1) + 1) - 1 = m + 2
    BY <1>5, <1>8
  <2>5. /\ b \in Seq(Kinds) /\ Len(b) = ((m + 2) - ((m + 1) + 1)) + 1
        /\ \A i \in 1..((m + 2) - ((m + 1) + 1)) + 1 : b[i] = u[(((m + 1) + 1) + i) - 1]
    BY <1>7, <2>4, SliceIs
  <2> HIDE DEF b
  <2>6. Len(b) = 1 /\ b[1] = u[m + 2]
    <3>1. 1 \in 1..((m + 2) - ((m + 1) + 1)) + 1
      BY <2>4
    <3> QED BY <2>4, <2>5, <3>1
  <2>7. b = e
    <3>1. Len(b) = Len(e) /\ \A i \in 1..Len(b) : b[i] = e[i]
      BY <1>3, <1>8, <2>6
    <3> QED BY <1>3, <2>5, <3>1, SeqEqual
  <2> QED BY <2>3, <2>7 DEF b
<1>10. Commands(s) = <<>>
  <2>1. ASSUME NEW i \in 1..L - 1
        PROVE  ~IsKey(s[i])
    BY DEF L, IsKey, HasRuncmd
  <2>2. CASE L \in 1..L /\ IsKey(s[L])
    <3>1. Commands(s) = SubSeq(s, L + 1, L)
      <4>1. /\ L \in L..Len(s) /\ L = Len(s) /\ L \in 1..Len(s)
            /\ \A i \in L + 1..Len(s) : ~IsKey(s[i])
            /\ \A i \in L + 1..L : ~EndsSection(s[i])
        BY <1>1, <2>2 DEF L
      <4> QED BY <2>2, <4>1, CommandsAre
    <3> DEFINE a == SubSeq(s, L + 1, L)
    <3>2. a \in Seq(Kinds) /\ Len(a) = (L - (L + 1)) + 1
      <4>1. L + 1 \in 1..Len(s) + 1 /\ L \in (L + 1) - 1..Len(s)
        BY <1>1 DEF L
      <4> QED BY <4>1, SliceIs
    <3> HIDE DEF a
    <3>3. Len(a) = 0
      BY <1>1, <3>2
    <3>4. a = <<>>
      BY <3>2, <3>3
    <3> QED BY <3>1, <3>4 DEF a
  <2>3. CASE ~(L \in 1..L /\ IsKey(s[L]))
    <3>1. \A i \in 1..Len(s) : ~IsKey(s[i])
      <4>1. ASSUME NEW i \in 1..L
            PROVE  ~IsKey(s[i])
        <5>1. i = L \/ i \in 1..L - 1
          BY <1>1
        <5> QED BY <2>1, <2>3, <5>1
      <4> QED BY <4>1 DEF L
    <3> QED BY <3>1, NoCommands
  <2> QED BY <2>2, <2>3
<1>11. e \o <<>> = e
  BY <1>3
<1>12. IsPrefix(s, RemoveFirst(u, "entry"))
  <2> DEFINE f == SubSeq(u, 1, m + 1)
             g == SubSeq(u, (m + 2) + 1, Len(u))
  <2>1. RemoveFirst(u, "entry") = f \o g
    <3>1. m + 2 \in 1..Len(u) /\ (m + 2) - 1 = m + 1
      BY <1>5, <1>8
    <3>2. ASSUME NEW i \in 1..m + 1
          PROVE  u[i] # "entry"
      <4>1. i = m + 1 \/ i \in 1..m
        BY <1>5
      <4> QED BY <1>6, <1>7, <1>8, <4>1
    <3> QED BY <1>7, <1>8, <3>1, <3>2, RemovedIs
  <2>2. /\ f \in Seq(Kinds) /\ Len(f) = m + 1 /\ \A i \in 1..m + 1 : f[i] = u[i]
    <3>1. /\ 1 \in 1..Len(u) + 1 /\ m + 1 \in 1 - 1..Len(u)
          /\ ((m + 1) - 1) + 1 = m + 1 /\ \A i \in 1..m + 1 : (1 + i) - 1 = i
      BY <1>5, <1>8
    <3>2. /\ f \in Seq(Kinds) /\ Len(f) = ((m + 1) - 1) + 1
          /\ \A i \in 1..((m + 1) - 1) + 1 : f[i] = u[(1 + i) - 1]
      BY <1>7, <3>1, SliceIs
    <3> HIDE DEF f
    <3> QED BY <3>1, <3>2
  <2>3. g \in Seq(Kinds) /\ Len(g) = (Len(u) - ((m + 2) + 1)) + 1
    <3>1. (m + 2) + 1 \in 1..Len(u) + 1 /\ Len(u) \in ((m + 2) + 1) - 1..Len(u)
      BY <1>5, <1>8
    <3> QED BY <1>7, <3>1, SliceIs
  <2> HIDE DEF f, g
  <2>4. Len(g) = 0
    BY <1>5, <1>8, <2>3
  <2>5. /\ f \o g \in Seq(Kinds) /\ Len(f \o g) = Len(f) + Len(g)
        /\ \A i \in 1..Len(f) : (f \o g)[i] = f[i]
    BY <2>2, <2>3, ConcatIs
  <2>6. ASSUME NEW i \in 1..Len(s)
        PROVE  s[i] = (f \o g)[i]
    <3>1. i \in 1..L /\ i \in 1..m /\ i \in 1..m + 1
      BY <1>1, <1>5 DEF L
    <3> QED BY <1>4, <1>7, <2>2, <2>5, <3>1
  <2>7. Len(s) <= Len(f \o g)
    BY <1>1, <1>5, <2>2, <2>4, <2>5 DEF L
  <2> QED BY <2>1, <2>5, <2>6, <2>7, PrefixIs
<1> QED BY <1>9, <1>10, <1>11, <1>12 DEF RunsFirst, e, u, t, c

\* In a document of the usual form the first line with "runcmd:" is the only key.
LEMMA OnlyKey ==
    ASSUME NEW d \in Document, Ordinary(d), NEW p \in 1..Len(d.lines),
           HasRuncmd(d.lines[p]), \A i \in 1..p - 1 : ~HasRuncmd(d.lines[i])
    PROVE  /\ IsKey(d.lines[p])
           /\ \A i \in p + 1..Len(d.lines) : ~IsKey(d.lines[i])
<1> DEFINE s == d.lines
           keys == {i \in DOMAIN s : s[i] = "runcmd"}
           words == {i \in DOMAIN s : HasRuncmd(s[i])}
<1>1. s \in Seq(Kinds) /\ Len(s) \in Nat /\ DOMAIN s = 1..Len(s)
  BY DEF Document
<1>2. (\A k \in keys, i \in words : k <= i) /\ (words # {} => keys # {})
  BY DEF Ordinary
<1>3. p \in words
  BY <1>1
<1>4. ASSUME NEW k \in keys
      PROVE  k = p
  <2>1. k \in 1..Len(s) /\ HasRuncmd(s[k])
    BY <1>1 DEF HasRuncmd
  <2>2. k <= p
    BY <1>2, <1>3
  <2>3. ~(k \in 1..p - 1)
    BY <2>1
  <2> QED BY <1>1, <2>1, <2>2, <2>3
<1>5. p \in keys
  <2>1. PICK k \in keys : TRUE
    BY <1>2, <1>3
  <2> QED BY <1>4, <2>1
<1>6. IsKey(s[p])
  BY <1>5 DEF IsKey
<1>7. ASSUME NEW i \in p + 1..Len(s)
      PROVE  ~IsKey(s[i])
  <2>1. i \in DOMAIN s /\ i # p
    BY <1>1
  <2>2. i \notin keys
    <3> HIDE DEF keys
    <3> QED BY <1>4, <2>1
  <2> QED BY <2>1, <2>2 DEF IsKey
<1> QED BY <1>6, <1>7

\* What is made of a document of the usual form.
LEMMA InjectionRunsFirst ==
    ASSUME NEW d \in Documents, Ordinary(d)
    PROVE  RunsFirst(d.lines, InjectVLANConfigIntoCloudInit(d).lines)
<1> DEFINE s == d.lines
           p == InsertionPoint(d)
           end == IF d.closed THEN <<"other">> ELSE <<>>
<1>1. /\ d \in Document /\ s \in Seq(Kinds) /\ DOMAIN s = 1..Len(s)
      /\ "lines" \in DOMAIN d /\ Len(s) \in Nat
  BY InjectionAssumption DEF Document
<1>2. \A i \in 1..Len(s) : s[i] # "entry"
  BY <1>1, BootstrapAssumption
<1>3. \/ /\ p \in 1..Len(s) /\ HasRuncmd(s[p])
         /\ \A i \in 1..p - 1 : ~HasRuncmd(s[i])
      \/ p = 0 /\ \A i \in 1..Len(s) - 1 : ~HasRuncmd(s[i])
  BY <1>1, InsertionPointIs
<1>4. CASE p # 0
  <2>1. /\ p \in 1..Len(s) /\ HasRuncmd(s[p])
        /\ \A i \in 1..p - 1 : ~HasRuncmd(s[i])
    BY <1>3, <1>4
  <2>2. IsKey(s[p]) /\ \A i \in p + 1..Len(s) : ~IsKey(s[i])
    BY <1>1, <2>1, OnlyKey
  <2>3. InjectVLANConfigIntoCloudInit(d).lines = InsertAt(s, p + 1, "entry")
    BY <1>1, <1>4 DEF InjectVLANConfigIntoCloudInit
  <2>4. RunsFirst(s, InsertAt(s, p + 1, "entry"))
    <3> HIDE DEF s, p
    <3> QED BY <1>1, <1>2, <2>1, <2>2, InsertRunsFirst
  <2> QED BY <2>3, <2>4
<1>5. CASE p = 0
  <2>1. InjectVLANConfigIntoCloudInit(d).lines = (s \o end) \o <<"runcmd", "entry">>
    BY <1>5 DEF InjectVLANConfigIntoCloudInit
  <2>2. end \in {<<>>, <<"other">>}
    OBVIOUS
  <2>3. \A i \in 1..Len(s) - 1 : ~HasRuncmd(s[i])
    BY <1>3, <1>5
  <2>4. RunsFirst(s, (s \o end) \o <<"runcmd", "entry">>)
    <3> HIDE DEF s, end
    <3> QED BY <1>1, <1>2, <2>2, <2>3, AppendRunsFirst
  <2> QED BY <2>1, <2>4
<1> QED BY <1>4, <1>5

\* The user data is the bootstrap data, or what is made of a provider's document.
UserDataInv ==
    \/ userData = bootstrap
    \/ /\ bootstrap \in Documents
       /\ userData = InjectVLANConfigIntoCloudInit(bootstrap)

LEMMA UserDataNext == UserDataInv /\ [Next]_vars => UserDataInv'
<1> SUFFICES ASSUME UserDataInv, [Next]_vars
             PROVE  UserDataInv'
  OBVIOUS
<1>1. ASSUME NEW n \in Names, InjectVLANConfig(n)
      PROVE  UserDataInv'
  BY <1>1 DEF InjectVLANConfig, UserDataInv
<1>2. CASE UNCHANGED documents
  BY <1>2 DEF UserDataInv, documents
<1>3. CASE HashCharacter
  BY <1>2, <1>3 DEF HashCharacter
<1>4. CASE CalculateAddress
  BY <1>2, <1>4 DEF CalculateAddress
<1>5. CASE Inject
  BY <1>5 DEF Inject, UserDataInv
<1>6. CASE SkipInjection
  BY <1>6 DEF SkipInjection, UserDataInv
<1>7. CASE UNCHANGED vars
  BY <1>2, <1>7 DEF vars
<1> QED BY <1>1, <1>3, <1>4, <1>5, <1>6, <1>7 DEF Next

\* In every document of the usual form that a provider may have written, the
\* command that sets the VLAN address runs before all others, nothing else runs
\* that did not before, and the document's lines stay, in their order.
THEOREM CommandRunsBeforeOthers == Spec => []CommandRunsFirst
<1>1. Init => UserDataInv
  BY DEF Init, UserDataInv
<1>2. UserDataInv => CommandRunsFirst
  BY InjectionRunsFirst DEF UserDataInv, CommandRunsFirst, RunsFirst
<1> QED BY <1>1, <1>2, UserDataNext, PTL DEF Spec
=============================================================================
