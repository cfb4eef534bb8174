---------------------------- MODULE VLANInjection ----------------------------
(***************************************************************************)
(* What injectVLANConfig makes of a machine's bootstrap data: it hashes    *)
(* the machine's name to an index, adds the index to the subnet of the     *)
(* VLAN, and writes a command that sets the address into the cloud-init    *)
(* document.  The controller does so whenever it creates user data, for    *)
(* one machine after the other, and again after a failed creation.         *)
(*                                                                         *)
(* A name is the sequence of its characters' codes.  The loop over it is   *)
(* one action for each character, in the arithmetic of Go's int.  A        *)
(* document is the sequence of its lines, of which only the kind matters.  *)
(*                                                                         *)
(* A definition marked as a variant is a plausible mistake, as in          *)
(* LatitudeMachine.                                                        *)
(***************************************************************************)
EXTENDS Integers, SequencesExt

CONSTANTS
    Names,      \* the names of a cluster's machines
    Half,       \* an int is in -Half .. Half - 1: 2^63 in the builds
    Subnets,    \* the subnets a VLANConfig may have
    VIDs,       \* the VIDs a cluster's status may hold, 0 included
    Documents,  \* the bootstrap data there may be
    None

\* A subnet's text parses as an IPv4 or an IPv6 network, or not at all.  hi
\* stands for the first three octets of the network's address, octet for its last.
Subnet == [family : {"IPv4", "IPv6", "invalid"}, hi : STRING,
           octet : 0..255, prefix : 0..32]

Address == [hi : STRING, octet : 0..255]

\* A line is the key of the runcmd section, one of its items (or any line with
\* their indentation), an item at the left margin, an indented line that has
\* "runcmd:" somewhere in it, what this controller adds, or any other.
Kinds == {"runcmd", "item", "flush", "mention", "entry", "other"}

\* closed: the last line ends with a newline.
Document == [lines : Seq(Kinds), closed : BOOLEAN]

Empty == [lines |-> <<>>, closed |-> FALSE]

ASSUME InjectionAssumption ==
    /\ Half \in Nat \ {0}
    /\ Names \subseteq Seq(Nat)
    /\ Subnets \subseteq Subnet
    /\ VIDs \subseteq Nat
    /\ Documents \subseteq Document
    /\ None \notin Address \union Names

\* The bootstrap data is what the providers wrote to the secret, to which this
\* controller never writes: it holds no line of the controller's.
ASSUME BootstrapAssumption ==
    \A d \in Documents : \A i \in DOMAIN d.lines : d.lines[i] # "entry"

VARIABLES
    subnet, vid,    \* the cluster's VLAN
    pc, name,       \* where injectVLANConfig is, and for which machine
    rest, hash,     \* getMachineIndex: the characters to come, the hash
    ip,             \* the result of CalculateVLANIPAddress
    bootstrap,      \* the machine's bootstrap data
    userData,       \* what is made of it
    address         \* the address in the user data of each machine

cluster == <<subnet, vid>>
documents == <<bootstrap, userData>>
vars == <<cluster, pc, name, rest, hash, ip, documents, address>>

TypeOK ==
    /\ subnet \in Subnets
    /\ vid \in VIDs
    /\ pc \in {"idle", "getMachineIndex", "inject"}
    /\ name \in Names \union {None}
    /\ rest \in Seq(Nat)
    /\ hash \in -Half .. Half - 1
    /\ ip \in Address \union {None}
    /\ bootstrap \in Document
    /\ userData \in Document
    /\ address \in [Names -> Address \union {None}]

Init ==
    /\ subnet \in Subnets
    /\ vid \in VIDs
    /\ pc = "idle"
    /\ name = None
    /\ rest = <<>>
    /\ hash = 0
    /\ ip = None
    /\ bootstrap = Empty
    /\ userData = Empty
    /\ address = [n \in Names |-> None]
-----------------------------------------------------------------------------
\* getMachineIndex.

\* Variant of Wrap: the hash is taken for an unsigned number.
WrapUnsigned(x) == x % (2 * Half)

\* What is left of x in an int.
Wrap(x) == ((x + Half) % (2 * Half)) - Half

\* Go's remainder has the sign of the dividend.
Rem(a, b) == IF a >= 0 THEN a % b ELSE -((-a) % b)

\* Variant of Index: the remainder is taken as it comes.
IndexSigned(h) == Rem(h, 241)

Index(h) == LET index == Rem(h, 241) IN IF index < 0 THEN -index ELSE index

\* Variant of InjectVLANConfig: the hash goes on from the last machine's.
InjectVLANConfigAccumulating(n) ==
    /\ pc = "idle"
    /\ pc' = "getMachineIndex"
    /\ name' = n
    /\ rest' = n
    /\ ip' = None
    /\ bootstrap' = Empty
    /\ userData' = Empty
    /\ UNCHANGED <<cluster, hash, address>>

\* The cluster has a VLANConfig and its VID is recorded.
InjectVLANConfig(n) ==
    /\ pc = "idle"
    /\ pc' = "getMachineIndex"
    /\ name' = n
    /\ rest' = n
    /\ hash' = 0
    /\ ip' = None
    /\ bootstrap' = Empty
    /\ userData' = Empty
    /\ UNCHANGED <<cluster, address>>

HashCharacter ==
    /\ pc = "getMachineIndex"
    /\ rest # <<>>
    /\ hash' = Wrap(hash * 31 + Head(rest))
    /\ rest' = Tail(rest)
    /\ UNCHANGED <<cluster, pc, name, ip, documents, address>>
-----------------------------------------------------------------------------
\* CalculateVLANIPAddress and InjectVLANConfigIntoCloudInit.

\* The last octet is overwritten, whatever the length of the prefix.
CalculateVLANIPAddress(s, index) ==
    IF s.family = "IPv4" THEN [hi |-> s.hi, octet |-> (10 + index) % 256]
                         ELSE None

CalculateAddress ==
    /\ pc = "getMachineIndex"
    /\ rest = <<>>
    /\ ip' = CalculateVLANIPAddress(subnet, Index(hash))
    /\ pc' = "inject"
    /\ UNCHANGED <<cluster, name, rest, hash, documents, address>>

\* The text "runcmd:" occurs in the line.
HasRuncmd(line) == line \in {"runcmd", "mention"}

\* Variant of InsertionPoint: the end of the document.
InsertionPointLast(d) == IF d.closed THEN Len(d.lines) ELSE 0

\* The line behind which the command goes: the first one with "runcmd:", if a
\* newline ends it; 0 if there is none.
InsertionPoint(d) ==
    LET first == SelectInSeq(d.lines, HasRuncmd)
    IN  IF first = Len(d.lines) /\ ~d.closed THEN 0 ELSE first

\* Without a section to insert into, one is appended after a newline.
InjectVLANConfigIntoCloudInit(d) ==
    LET n == InsertionPoint(d)
    IN  IF n # 0
        THEN [d EXCEPT !.lines = InsertAt(@, n + 1, "entry")]
        ELSE [lines |-> d.lines
                          \o (IF d.closed THEN <<"other">> ELSE <<>>)
                          \o <<"runcmd", "entry">>,
              closed |-> TRUE]

\* The VID is recorded and the subnet has an address for the machine.
Inject ==
    /\ pc = "inject"
    /\ ip # None
    /\ vid # 0
    /\ \E d \in Documents :
         /\ bootstrap' = d
         /\ userData' = InjectVLANConfigIntoCloudInit(d)
    /\ address' = [address EXCEPT ![name] = ip]
    /\ pc' = "idle"
    /\ UNCHANGED <<cluster, name, rest, hash, ip>>

\* The subnet is no IPv4 network, which is only logged, or the VID is 0.
SkipInjection ==
    /\ pc = "inject"
    /\ ip = None \/ vid = 0
    /\ \E d \in Documents :
         /\ bootstrap' = d
         /\ userData' = d
    /\ pc' = "idle"
    /\ UNCHANGED <<cluster, name, rest, hash, ip, address>>
-----------------------------------------------------------------------------
Next ==
    \/ \E n \in Names : InjectVLANConfig(n)
    \/ HashCharacter
    \/ CalculateAddress
    \/ Inject
    \/ SkipInjection

Spec == Init /\ [][Next]_vars
-----------------------------------------------------------------------------
\* The octets of a subnet's hosts, from which .1 to .9 are left to the
\* infrastructure.
HostOctets(s) ==
    IF s.prefix <= 24
    THEN 10..254
    ELSE LET size == 2 ^ (32 - s.prefix)
             base == s.octet - (s.octet % size)
         IN  10..254 \intersect (base + 1)..(base + size - 2)

\* In a network of /24 or larger, every machine's address is a host of the
\* subnet and none of those left to the infrastructure: neither a hash that has
\* overflowed and is negative, nor the addition in a byte, leads out of it.
AddressUsable ==
    subnet.prefix <= 24 =>
        \A n \in Names :
            address[n] # None =>
                /\ address[n].hi = subnet.hi
                /\ address[n].octet \in HostOctets(subnet)

\* The powers of 31, up to the k-th.
Powers(k) ==
    LET power[i \in 0..k] == IF i = 0 THEN 1 ELSE 31 * power[i - 1]
    IN  power

\* The name's characters as the digits of a number to the base 31: what the first
\* k of them add to it.
Value(n) ==
    LET power == Powers(Len(n))
        value[k \in 0..Len(n)] ==
          IF k = 0 THEN 0 ELSE value[k - 1] + n[k] * power[Len(n) - k]
    IN  value

\* The reference for the hash: that number, cut to an int at the end.
Polynomial(n) == Wrap(Value(n)[Len(n)])

\* The index is made from the machine's own name and from nothing else, although
\* the hash overflows on the way.
HashOfName == pc = "inject" => hash = Polynomial(name)

\* Two machines of a cluster have different addresses.
UniqueAddresses ==
    \A m, n \in Names :
        address[m] # None /\ address[m] = address[n] => m = n

IsKey(line) == line = "runcmd"

EndsSection(line) == line \in {"runcmd", "other"}

\* The commands cloud-init runs: the items of the last runcmd section.
Commands(lines) ==
    LET key == SelectLastInSeq(lines, IsKey)
        end == SelectInSubSeq(lines, key + 1, Len(lines), EndsSection)
    IN  IF key = 0 THEN <<>>
        ELSE SubSeq(lines, key + 1, IF end = 0 THEN Len(lines) ELSE end - 1)

\* What the bootstrap providers write: one runcmd section at most, which is where
\* the word first occurs, and whose items are indented.
Ordinary(d) ==
    LET keys == {i \in DOMAIN d.lines : d.lines[i] = "runcmd"}
        words == {i \in DOMAIN d.lines : HasRuncmd(d.lines[i])}
    IN  /\ \A k \in keys, i \in words : k <= i
        /\ words # {} => keys # {}
        /\ "flush" \notin Range(Commands(d.lines))

\* In a document of the usual form the command runs before all others, and the
\* document's own lines are kept, in their order.
CommandRunsFirst ==
    /\ userData # bootstrap
    /\ Ordinary(bootstrap)
    => /\ Commands(userData.lines) = <<"entry">> \o Commands(bootstrap.lines)
       /\ IsPrefix(bootstrap.lines, RemoveFirst(userData.lines, "entry"))
=============================================================================
