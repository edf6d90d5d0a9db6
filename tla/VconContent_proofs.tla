-------------------------- MODULE VconContent_proofs --------------------------
(***************************************************************************)
(* Lemmas about the lists of a vCon: how parties are found and added, what *)
(* is known after the people of a message were looked up, and what a list  *)
(* is with an element more.  For any set of addresses and messages.        *)
(***************************************************************************)
EXTENDS VconContent, SequenceTheorems, FiniteSetTheorems, WellFoundedInduction,
        TLAPS

-----------------------------------------------------------------------------
(***************************************************************************)
(* Induction over numbers, by the least counterexample: stated for a set   *)
(* of numbers, it can be used for every property of them.                  *)
(***************************************************************************)

LEMMA NatOrder == IsWellFoundedOn({p \in Nat \X Nat : p[1] < p[2]}, Nat)
<1>1. OpToRel(<, Nat) = {p \in Nat \X Nat : p[1] < p[2]}
  BY Zenon DEF OpToRel
<1>2. QED
  BY Zenon, <1>1, NatLessThanWellFounded

\* Every set of numbers has a least one.
LEMMA Least ==
  ASSUME NEW T \in SUBSET Nat, T # {}
  PROVE  \E x \in T : \A y \in T : x <= y
<1> DEFINE Smaller == {p \in Nat \X Nat : p[1] < p[2]}
<1>1. PICK x \in T : \A y \in T : ~(<<y, x>> \in Smaller)
  <2> HIDE DEF Smaller
  <2>1. QED
    BY WFMin, NatOrder DEF Smaller
<1>2. ASSUME NEW y \in T PROVE x <= y
  <2>1. x \in Nat /\ y \in Nat /\ (y < x => <<y, x>> \in Smaller)
    OBVIOUS
  <2>2. QED
    BY <1>1, <2>1
<1>3. QED
  BY <1>2

LEMMA ByInduction ==
  ASSUME NEW T \in SUBSET Nat, 0 \in T, \A n \in T : n + 1 \in T
  PROVE  \A n \in Nat : n \in T
<1> SUFFICES ASSUME NEW m \in Nat, m \notin T PROVE FALSE
  OBVIOUS
<1>1. PICK x \in Nat \ T : \A y \in Nat \ T : x <= y
  BY Least
<1>2. x # 0 /\ x - 1 \in Nat
  BY <1>1
<1>3. x - 1 \in T
  BY <1>1, <1>2
<1>4. QED
  BY <1>1, <1>2, <1>3

-----------------------------------------------------------------------------
\* Numbers in ascending order

Ascends(s, S) == /\ s \in [1 .. Cardinality(S) -> S]
                 /\ \A i, j \in DOMAIN s : i < j => s[i] < s[j]

LEMMA Bounded ==
  ASSUME NEW n \in Nat, NEW S \in SUBSET (1 .. n)
  PROVE  IsFiniteSet(S) /\ Cardinality(S) \in Nat
<1>1. 1 \in Int /\ n \in Int
  OBVIOUS
<1>2. IsFiniteSet(1 .. n)
  BY <1>1, FS_Interval
<1>3. IsFiniteSet(S)
  BY <1>2, FS_Subset
<1>4. QED
  BY <1>3, FS_CardinalityType

LEMMA SomeOrder ==
  ASSUME NEW n \in Nat, NEW S \in SUBSET (1 .. n)
  PROVE  \E s : Ascends(s, S)
<1> DEFINE T == {k \in Nat : \A R \in SUBSET (1 .. k) : \E s : Ascends(s, R)}
<1>1. 0 \in T
  <2> SUFFICES ASSUME NEW R \in SUBSET (1 .. 0) PROVE \E s : Ascends(s, R)
    OBVIOUS
  <2>1. R = {}
    OBVIOUS
  <2>2. Cardinality(R) = 0
    BY <2>1, FS_EmptySet
  <2>3. Ascends([i \in 1 .. 0 |-> i], R)
    BY <2>1, <2>2 DEF Ascends
  <2>4. QED
    BY <2>3
<1>2. ASSUME NEW k \in T PROVE k + 1 \in T
  <2> SUFFICES ASSUME NEW R \in SUBSET (1 .. k + 1) PROVE \E s : Ascends(s, R)
    OBVIOUS
  <2>1. CASE k + 1 \notin R
    <3>1. R \in SUBSET (1 .. k)
      BY <2>1
    <3>2. QED
      BY <3>1
  <2>2. CASE k + 1 \in R
    <3> DEFINE R0 == R \ {k + 1}
               c == Cardinality(R0)
    <3>1. R0 \in SUBSET (1 .. k)
      OBVIOUS
    <3>2. IsFiniteSet(R)
      <4>1. k + 1 \in Nat
        OBVIOUS
      <4>2. QED
        BY <4>1, Bounded
    <3>3. c \in Nat /\ Cardinality(R) = c + 1
      <4>1. IsFiniteSet(R0) /\ Cardinality(R0) = Cardinality(R) - 1
        BY <2>2, <3>2, FS_RemoveElement
      <4>2. Cardinality(R) \in Nat /\ Cardinality(R0) \in Nat
        BY <3>2, <4>1, FS_CardinalityType
      <4>3. QED
        BY <4>1, <4>2
    <3>4. PICK s : Ascends(s, R0)
      BY <3>1
    <3> DEFINE t == [i \in 1 .. c + 1 |-> IF i = c + 1 THEN k + 1 ELSE s[i]]
    <3>5. /\ s \in [1 .. c -> R0]
          /\ \A i, j \in 1 .. c : i < j => s[i] < s[j]
      BY <3>4 DEF Ascends
    <3>6. \A i \in 1 .. c : s[i] \in R /\ s[i] \in 1 .. k
      BY <3>1, <3>5
    <3> HIDE DEF c, R0
    <3>7. t \in [1 .. Cardinality(R) -> R]
      BY <2>2, <3>3, <3>6
    <3>8. ASSUME NEW i \in 1 .. c + 1, NEW j \in 1 .. c + 1, i < j
          PROVE  t[i] < t[j]
      BY <3>3, <3>5, <3>6, <3>8
    <3>9. Ascends(t, R)
      BY <3>3, <3>7, <3>8 DEF Ascends
    <3>10. QED
      BY <3>9
  <2>3. QED
    BY <2>1, <2>2
<1>3. n \in T
  <2>1. T \in SUBSET Nat
    OBVIOUS
  <2> HIDE DEF T
  <2>2. QED
    BY <1>1, <1>2, <2>1, ByInduction
<1>4. QED
  BY <1>3

LEMMA InOrderFacts ==
  ASSUME NEW n \in Nat, NEW S \in SUBSET (1 .. n)
  PROVE  /\ InOrder(S) \in Seq(S)
         /\ Range(InOrder(S)) = S
         /\ InOrder(S) = <<>> <=> S = {}
         /\ \A i, j \in DOMAIN InOrder(S) : i < j => InOrder(S)[i] < InOrder(S)[j]
<1> DEFINE s == InOrder(S)
           c == Cardinality(S)
<1>1. /\ s \in [1 .. c -> S]
      /\ \A i, j \in DOMAIN s : i < j => s[i] < s[j]
  <2>1. \E f \in [1 .. c -> S] : \A i, j \in DOMAIN f : i < j => f[i] < f[j]
    BY SomeOrder DEF Ascends
  <2>2. QED
    BY <2>1 DEF InOrder
<1>2. IsFiniteSet(S) /\ c \in Nat
  BY Bounded
<1> HIDE DEF s, c
<1>3. s \in Seq(S) /\ DOMAIN s = 1 .. c
  BY <1>1, <1>2
<1>4. Range(s) = S
  <2> SUFFICES ASSUME NEW x \in S, \A i \in 1 .. c : s[i] # x
               PROVE  FALSE
    BY <1>1, <1>3 DEF Range
  <2> DEFINE S0 == S \ {x}
  <2>1. IsFiniteSet(S0) /\ Cardinality(S0) = c - 1
    BY <1>2, FS_RemoveElement DEF c
  <2>2. s \in [1 .. c -> S0]
    BY <1>1, <1>3
  <2>3. IsFiniteSet(1 .. c) /\ Cardinality(1 .. c) = c
    BY <1>2, FS_Interval
  <2>4. Cardinality(S0) < Cardinality(1 .. c)
    BY <1>2, <2>1, <2>3
  <2> HIDE DEF S0
  <2>5. \E i, j \in 1 .. c : i # j /\ s[i] = s[j]
    BY <2>1, <2>2, <2>3, <2>4, FS_PigeonHole
  <2>6. PICK i \in 1 .. c, j \in 1 .. c : i # j /\ s[i] = s[j]
    BY <2>5
  <2>7. s[i] < s[j] \/ s[j] < s[i]
    BY <1>1, <1>2, <1>3, <2>6
  <2>8. s[i] \in Int
    <3>1. s[i] \in S
      BY <1>1, <2>6
    <3>2. \A e \in S : e \in Int
      OBVIOUS
    <3>3. QED
      BY <3>1, <3>2
  <2>9. QED
    BY <2>6, <2>7, <2>8
<1>5. s = <<>> <=> S = {}
  <2>1. s = <<>> <=> c = 0
    BY <1>2, <1>3
  <2>2. c = 0 <=> S = {}
    BY <1>2, FS_EmptySet DEF c
  <2>3. QED
    BY <2>1, <2>2
<1>6. QED
  BY <1>1, <1>3, <1>4, <1>5 DEF s

-----------------------------------------------------------------------------
\* Parties are found and added

\* The provers do not know of a literal that it is a string.
Party == [name : STRING, mailto : STRING \cup {""}]

LEMMA AddressesAreParties ==
  /\ \A a \in Address : a \in Party
  /\ \A m \in Message : m.from \in Address /\ m.to \in Seq(Address)
BY ContentAssumption DEF Party

LEMMA FindFacts ==
  ASSUME NEW ps \in Seq(Party), NEW parameter, NEW part
  PROVE  /\ FindPartiesByParameter(ps, parameter, part) \in Seq(1 .. Len(ps))
         /\ Range(FindPartiesByParameter(ps, parameter, part)) =
               {i \in 1 .. Len(ps) : Occurs(part, ps[i][parameter])}
         /\ FindPartiesByParameter(ps, parameter, part) = <<>> <=>
               \A i \in 1 .. Len(ps) : ~Occurs(part, ps[i][parameter])
         /\ \A i, j \in DOMAIN FindPartiesByParameter(ps, parameter, part) :
               i < j => FindPartiesByParameter(ps, parameter, part)[i]
                        < FindPartiesByParameter(ps, parameter, part)[j]
<1> DEFINE S == {i \in 1 .. Len(ps) : Occurs(part, ps[i][parameter])}
<1>1. Len(ps) \in Nat /\ S \in SUBSET (1 .. Len(ps))
  OBVIOUS
<1>2. FindPartiesByParameter(ps, parameter, part) = InOrder(S)
  <2>1. S = {i \in DOMAIN ps : Occurs(part, ps[i][parameter])}
    OBVIOUS
  <2> HIDE DEF S
  <2>2. QED
    BY <2>1 DEF FindPartiesByParameter
<1>3. S = {} <=> \A i \in 1 .. Len(ps) : ~Occurs(part, ps[i][parameter])
  OBVIOUS
<1> HIDE DEF S
<1>4. /\ InOrder(S) \in Seq(S)
      /\ Range(InOrder(S)) = S
      /\ InOrder(S) = <<>> <=> S = {}
      /\ \A i, j \in DOMAIN InOrder(S) : i < j => InOrder(S)[i] < InOrder(S)[j]
  BY ONLY <1>1, InOrderFacts
<1>5. InOrder(S) \in Seq(1 .. Len(ps))
  BY ONLY <1>1, <1>4, SeqMonotonic
<1>6. QED
  BY ONLY <1>2, <1>3, <1>4, <1>5 DEF S

\* The code's search finds the party for the address.
Represents(party, address) ==
    Occurs(address.mailto, party.mailto) \/ Occurs(address.name, party.name)

\* The strings of the parties are strings of addresses.
FromAddresses(ps) ==
    \A p \in 1 .. Len(ps) : /\ \E b \in Address : ps[p].name = b.name
                            /\ \E b \in Address : ps[p].mailto = b.mailto

\* For an unmistakable address the search finds nobody else.
LEMMA Unmistaken ==
  ASSUME NEW ps, FromAddresses(ps), NEW p \in 1 .. Len(ps),
         NEW a \in Address, Unmistakable(a), Represents(ps[p], a)
  PROVE  IsPartyOf(ps[p], a)
<1>1. PICK b \in Address : ps[p].name = b.name
  BY DEF FromAddresses
<1>2. PICK c \in Address : ps[p].mailto = c.mailto
  BY DEF FromAddresses
<1>3. QED
  BY <1>1, <1>2 DEF Unmistakable, Represents, IsPartyOf

\* What the loop over the people of a message knows.
KnownSet == [parties : Seq(Party), indices : Seq(Nat), unbound : BOOLEAN]

Sound(known) == /\ known \in KnownSet
                /\ \A i \in Range(known.indices) : i \in 1 .. Len(known.parties)

\* Parties are only added, as the one that was looked for and not found.
Grown(before, after, address) ==
    \/ after = before
    \/ /\ after = Append(before, address)
       /\ \A p \in 1 .. Len(before) :
              /\ ~Occurs(address.mailto, before[p].mailto)
              /\ ~Occurs(address.name, before[p].name)

Turned(known, next, address) ==
    /\ Sound(next)
    /\ Grown(known.parties, next.parties, address)
    /\ Range(known.indices) \subseteq Range(next.indices)
    /\ ~next.unbound => ~known.unbound
    /\ ~next.unbound => \E p \in Range(next.indices) :
                           Represents(next.parties[p], address)
    /\ \A p \in Range(next.indices) : \/ p \in Range(known.indices)
                                      \/ Represents(next.parties[p], address)

LEMMA RangeOfConcat ==
  ASSUME NEW S, NEW s \in Seq(S), NEW t \in Seq(S)
  PROVE  s \o t \in Seq(S) /\ Range(s \o t) = Range(s) \cup Range(t)
<1>1. Range(s \o t) = Range(s) \cup Range(t)
  BY RangeConcatenation
<1>2. QED
  BY <1>1

LEMMA RangeOfAppend ==
  ASSUME NEW S, NEW s \in Seq(S), NEW e \in S
  PROVE  /\ Append(s, e) \in Seq(S)
         /\ Len(Append(s, e)) = Len(s) + 1
         /\ \A i \in 1 .. Len(s) : Append(s, e)[i] = s[i]
         /\ Append(s, e)[Len(s) + 1] = e
         /\ Range(Append(s, e)) = Range(s) \cup {e}
<1>1. /\ Append(s, e) \in Seq(S)
      /\ Len(Append(s, e)) = Len(s) + 1
      /\ \A i \in 1 .. Len(s) : Append(s, e)[i] = s[i]
      /\ Append(s, e)[Len(s) + 1] = e
  BY AppendProperties
<1>2. /\ DOMAIN Append(s, e) = 1 .. Len(s) + 1 /\ DOMAIN s = 1 .. Len(s)
      /\ Len(s) \in Nat
  BY <1>1
<1>3. Range(Append(s, e)) = Range(s) \cup {e}
  BY <1>1, <1>2 DEF Range
<1>4. QED
  BY <1>1, <1>3

LEMMA IdentifyFacts ==
  ASSUME NEW known, NEW address \in Party, Sound(known)
  PROVE  Turned(known, Identify(known, address), address)
<1> DEFINE ps == known.parties
           byMail == FindPartiesByParameter(ps, "mailto", address.mailto)
           byName == FindPartiesByParameter(ps, "name", address.name)
           found == IF byMail # <<>> THEN byMail ELSE byName
           next == Identify(known, address)
<1>1. /\ ps \in Seq(Party) /\ known.indices \in Seq(Nat)
      /\ known.unbound \in BOOLEAN
      /\ known = [parties |-> ps, indices |-> known.indices,
                  unbound |-> known.unbound]
      /\ Len(ps) \in Nat
  BY DEF Sound, KnownSet
<1>2. /\ \A i \in Range(byMail) : i \in 1 .. Len(ps) /\ Occurs(address.mailto, ps[i].mailto)
      /\ \A i \in Range(byName) : i \in 1 .. Len(ps) /\ Occurs(address.name, ps[i].name)
      /\ byMail \in Seq(1 .. Len(ps)) /\ byName \in Seq(1 .. Len(ps))
  BY <1>1, FindFacts
<1>3. found = <<>> => /\ \A i \in 1 .. Len(ps) : ~Occurs(address.mailto, ps[i].mailto)
                      /\ \A i \in 1 .. Len(ps) : ~Occurs(address.name, ps[i].name)
  BY <1>1, FindFacts
<1>4. /\ found \in Seq(1 .. Len(ps))
      /\ \A i \in Range(found) : i \in 1 .. Len(ps) /\ Represents(ps[i], address)
  BY <1>2 DEF Represents
<1>5. next = IF known.unbound \/ (found # <<>> /\ known.indices = <<>>)
             THEN [known EXCEPT !.unbound = TRUE]
             ELSE IF found # <<>>
             THEN [known EXCEPT !.indices = known.indices \o found]
             ELSE [known EXCEPT !.parties = Append(ps, address),
                                !.indices = Append(known.indices, Len(ps) + 1)]
  BY DEF Identify
<1> HIDE DEF found, byMail, byName, next
<1>6. CASE known.unbound \/ (found # <<>> /\ known.indices = <<>>)
  <2>1. next = [parties |-> ps, indices |-> known.indices, unbound |-> TRUE]
    BY <1>1, <1>5, <1>6
  <2>2. QED
    BY <1>1, <2>1 DEF Turned, Sound, Grown, KnownSet, next
<1>7. CASE ~known.unbound /\ found # <<>>
  <2>1. CASE known.indices # <<>>
    <3>1. next = [parties |-> ps, indices |-> known.indices \o found,
                  unbound |-> FALSE]
      BY <1>1, <1>5, <1>7, <2>1
    <3>2. found \in Seq(Nat)
      BY <1>4
    <3>3. /\ known.indices \o found \in Seq(Nat)
          /\ Range(known.indices \o found) = Range(known.indices) \cup Range(found)
      BY <1>1, <3>2, RangeOfConcat
    <3>4. Sound(next)
      BY <1>1, <1>4, <3>1, <3>3 DEF Sound, KnownSet
    <3>5. PICK p \in Range(found) : TRUE
      BY <1>4, <1>7 DEF Range
    <3>6. p \in Range(next.indices) /\ Represents(next.parties[p], address)
      BY <1>4, <3>1, <3>3, <3>5
    <3>7. Grown(known.parties, next.parties, address)
      BY <3>1 DEF Grown
    <3>8. /\ Range(known.indices) \subseteq Range(next.indices)
          /\ \A i \in Range(next.indices) : \/ i \in Range(known.indices)
                                            \/ Represents(next.parties[i], address)
      BY <1>4, <3>1, <3>3
    <3>9. QED
      BY <1>7, <3>4, <3>6, <3>7, <3>8 DEF Turned, next
  <2>2. QED
    BY <1>6, <2>1, <1>7
<1>8. CASE ~known.unbound /\ found = <<>>
  <2> DEFINE new == Len(ps) + 1
  <2>1. next = [parties |-> Append(ps, address),
                indices |-> Append(known.indices, new), unbound |-> FALSE]
    BY <1>1, <1>5, <1>8
  <2>2. /\ Append(ps, address) \in Seq(Party)
        /\ Len(Append(ps, address)) = new
        /\ Append(ps, address)[new] = address
    BY <1>1, RangeOfAppend
  <2>3. new \in Nat
    BY <1>1
  <2>4. /\ Append(known.indices, new) \in Seq(Nat)
        /\ Range(Append(known.indices, new)) = Range(known.indices) \cup {new}
    BY <1>1, <2>3, RangeOfAppend
  <2>5. Sound(next)
    BY <1>1, <2>1, <2>2, <2>3, <2>4 DEF Sound, KnownSet
  <2>6. Represents(next.parties[new], address)
    BY <2>1, <2>2 DEF Represents, Occurs
  <2>7. Grown(known.parties, next.parties, address)
    BY <1>3, <1>8, <2>1 DEF Grown
  <2>8. /\ Range(known.indices) \subseteq Range(next.indices)
        /\ new \in Range(next.indices)
        /\ \A i \in Range(next.indices) : i \in Range(known.indices) \/ i = new
    BY <2>1, <2>4
  <2>9. QED
    BY <1>8, <2>5, <2>6, <2>7, <2>8 DEF Turned, next
<1>9. QED
  BY <1>1, <1>6, <1>7, <1>8

-----------------------------------------------------------------------------
\* The loop over the people of a message, by induction over its turns

\* Lists of parties of which one has what the other has, and more.
Extends(after, before) ==
    /\ Len(before) <= Len(after)
    /\ \A p \in 1 .. Len(before) : after[p] = before[p]

\* Nobody is added under a name that is listed already.
NewNames(after, before) ==
    \A i, j \in 1 .. Len(after) :
        j > Len(before) /\ after[i].name = after[j].name /\ after[j].name # ""
        => i = j

\* A party of a name that was looked for and not found.
LEMMA NewParty ==
  ASSUME NEW before \in Seq(Party), NEW address \in Party,
         NEW after, after = Append(before, address),
         \A p \in 1 .. Len(before) : ~Occurs(address.name, before[p].name)
  PROVE  /\ after \in Seq(Party)
         /\ Len(after) = Len(before) + 1
         /\ after[Len(before) + 1] = address
         /\ Extends(after, before)
         /\ NewNames(after, before)
<1>1. /\ after \in Seq(Party)
      /\ Len(after) = Len(before) + 1
      /\ \A i \in 1 .. Len(before) : after[i] = before[i]
      /\ after[Len(before) + 1] = address
      /\ Len(before) \in Nat
  BY RangeOfAppend
<1>2. Extends(after, before)
  BY <1>1 DEF Extends
<1>3. ASSUME NEW p \in 1 .. Len(before) PROVE address.name # before[p].name
  BY DEF Occurs
<1>4. ASSUME NEW i \in 1 .. Len(after), NEW j \in 1 .. Len(after),
             j > Len(before), after[i].name = after[j].name
      PROVE  i = j
  <2>1. j = Len(before) + 1 /\ (i \in 1 .. Len(before) \/ i = Len(before) + 1)
    BY <1>1, <1>4
  <2>2. ASSUME i \in 1 .. Len(before) PROVE FALSE
    <3>1. after[i] = before[i] /\ after[j] = address
      BY <1>1, <2>1, <2>2
    <3>2. QED
      BY <1>3, <1>4, <2>2, <3>1
  <2>3. QED
    BY <2>1, <2>2
<1>5. QED
  BY <1>1, <1>2, <1>4 DEF NewNames

LEMMA SameParties ==
  ASSUME NEW ps \in Seq(Party)
  PROVE  Extends(ps, ps) /\ NewNames(ps, ps)
<1>1. Len(ps) \in Nat
  OBVIOUS
<1>2. \A j \in 1 .. Len(ps) : ~(j > Len(ps))
  BY <1>1
<1>3. Extends(ps, ps)
  BY <1>1 DEF Extends
<1>4. NewNames(ps, ps)
  BY ONLY <1>2 DEF NewNames
<1>5. QED
  BY <1>3, <1>4

LEMMA GrownFacts ==
  ASSUME NEW before \in Seq(Party), NEW address \in Party, NEW after,
         Grown(before, after, address)
  PROVE  /\ after \in Seq(Party)
         /\ Extends(after, before)
         /\ NewNames(after, before)
<1>1. CASE after = before
  BY <1>1, SameParties
<1>2. CASE after # before
  BY <1>2, NewParty DEF Grown
<1>3. QED
  BY <1>1, <1>2

LEMMA ExtendsTransitive ==
  ASSUME NEW a \in Seq(Party), NEW b \in Seq(Party), NEW c \in Seq(Party),
         Extends(b, a), Extends(c, b)
  PROVE  /\ Extends(c, a)
         /\ NewNames(b, a) /\ NewNames(c, b) => NewNames(c, a)
<1>1. Extends(c, a)
  BY DEF Extends
<1>2. ASSUME NewNames(b, a), NewNames(c, b),
             NEW i \in 1 .. Len(c), NEW j \in 1 .. Len(c),
             j > Len(a), c[i].name = c[j].name, c[j].name # ""
      PROVE  i = j
  <2>1. Len(a) \in Nat /\ Len(b) \in Nat /\ Len(c) \in Nat
    OBVIOUS
  <2>2. CASE j > Len(b)
    BY <1>2, <2>2 DEF NewNames
  <2>3. CASE i > Len(b)
    BY <1>2, <2>3 DEF NewNames
  <2>4. CASE ~(i > Len(b)) /\ ~(j > Len(b))
    <3>1. i \in 1 .. Len(b) /\ j \in 1 .. Len(b)
      BY <2>1, <2>4
    <3>2. c[i] = b[i] /\ c[j] = b[j]
      BY <3>1 DEF Extends
    <3>3. QED
      BY <1>2, <3>1, <3>2 DEF NewNames
  <2>5. QED
    BY <2>2, <2>3, <2>4
<1>3. QED
  BY <1>1, <1>2 DEF NewNames

Start0 == [parties |-> parties, indices |-> <<>>, unbound |-> FALSE]

\* f is what is known after each of the first k turns.
Turns(f, k, m) ==
    /\ f[0] = Start0
    /\ \A n \in 1 .. k : f[n] = Identify(f[n - 1], People(m)[n])

\* What holds after n turns.
After(known, n, m) ==
    /\ Sound(known)
    /\ Extends(known.parties, parties)
    /\ NewNames(known.parties, parties)
    /\ ~known.unbound =>
          \A k \in 1 .. n : \E p \in Range(known.indices) :
              Represents(known.parties[p], People(m)[k])
    /\ \A p \in Range(known.indices) : \E k \in 1 .. n :
           Represents(known.parties[p], People(m)[k])
    /\ FromAddresses(parties) => FromAddresses(known.parties)

LEMMA PeopleFacts ==
  ASSUME NEW m \in Message
  PROVE  /\ People(m) \in Seq(Address)
         /\ Len(People(m)) \in Nat
         /\ \A n \in 1 .. Len(People(m)) : /\ People(m)[n] \in Party
                                            /\ People(m)[n] \in Address
         /\ Range(People(m)) = {m.from} \cup Range(m.to)
<1>1. m.from \in Address /\ m.to \in Seq(Address)
  BY AddressesAreParties
<1>2. <<m.from>> \in Seq(Address) /\ Range(<<m.from>>) = {m.from}
  BY <1>1 DEF Range
<1> DEFINE one == <<m.from>>
<1>3. /\ one \o m.to \in Seq(Address)
      /\ Range(one \o m.to) = {m.from} \cup Range(m.to)
  <2>1. one \in Seq(Address) /\ Range(one) = {m.from}
    BY <1>2
  <2> HIDE DEF one
  <2>2. QED
    BY ONLY <1>1, <2>1, RangeOfConcat
<1>4. People(m) = one \o m.to
  BY DEF People
<1> HIDE DEF one
<1>5. QED
  BY <1>3, <1>4, AddressesAreParties

LEMMA FirstTurn ==
  ASSUME parties \in Seq(Party), NEW m \in Message
  PROVE  After(Start0, 0, m)
<1>1. /\ Start0 \in KnownSet /\ Start0.parties = parties
      /\ Range(Start0.indices) = {}
  BY DEF Start0, KnownSet, Range
<1>2. Extends(Start0.parties, parties) /\ NewNames(Start0.parties, parties)
  BY <1>1, SameParties
<1>3. QED
  BY <1>1, <1>2 DEF After, Sound

LEMMA NextTurn ==
  ASSUME parties \in Seq(Party), NEW m \in Message,
         NEW n \in 1 .. Len(People(m)), NEW known, After(known, n - 1, m)
  PROVE  After(Identify(known, People(m)[n]), n, m)
<1> DEFINE address == People(m)[n]
           next == Identify(known, address)
<1>1. address \in Party /\ n \in Nat
  BY PeopleFacts
<1>2. Sound(known)
  BY DEF After
<1>3. Turned(known, next, address)
  BY <1>1, <1>2, IdentifyFacts
<1>4. /\ known.parties \in Seq(Party)
      /\ next.parties \in Seq(Party)
      /\ Extends(next.parties, known.parties)
      /\ NewNames(next.parties, known.parties)
  BY <1>1, <1>2, <1>3, GrownFacts DEF Turned, Sound, KnownSet
<1>5. Extends(next.parties, parties) /\ NewNames(next.parties, parties)
  BY <1>4, ExtendsTransitive DEF After
<1> HIDE DEF next
<1>6. ASSUME ~next.unbound, NEW k \in 1 .. n
      PROVE  \E p \in Range(next.indices) :
                 Represents(next.parties[p], People(m)[k])
  <2>1. CASE k = n
    BY <1>3, <1>6, <2>1 DEF Turned
  <2>2. CASE k # n
    <3>1. k \in 1 .. n - 1 /\ ~known.unbound
      BY <1>1, <1>3, <1>6, <2>2 DEF Turned
    <3>2. PICK p \in Range(known.indices) :
            Represents(known.parties[p], People(m)[k])
      BY <3>1 DEF After
    <3>3. p \in Range(next.indices) /\ p \in 1 .. Len(known.parties)
      BY <1>2, <1>3, <3>2 DEF Turned, Sound
    <3>4. next.parties[p] = known.parties[p]
      BY <1>4, <3>3 DEF Extends
    <3>5. QED
      BY <3>2, <3>3, <3>4
  <2>3. QED
    BY <2>1, <2>2
<1>7. ASSUME NEW p \in Range(next.indices)
      PROVE  \E k \in 1 .. n : Represents(next.parties[p], People(m)[k])
  <2>1. CASE p \in Range(known.indices)
    <3>1. PICK k \in 1 .. n - 1 : Represents(known.parties[p], People(m)[k])
      BY <2>1 DEF After
    <3>2. next.parties[p] = known.parties[p]
      BY <1>2, <1>4, <2>1 DEF Extends, Sound
    <3>3. k \in 1 .. n
      BY <1>1
    <3>4. QED
      BY <3>1, <3>2, <3>3
  <2>2. CASE p \notin Range(known.indices)
    <3>1. Represents(next.parties[p], People(m)[n])
      BY <1>3, <2>2 DEF Turned
    <3>2. n \in 1 .. n
      BY <1>1
    <3>3. QED
      BY <3>1, <3>2
  <2>3. QED
    BY <2>1, <2>2
<1>8. ASSUME FromAddresses(known.parties) PROVE FromAddresses(next.parties)
  <2>1. Grown(known.parties, next.parties, address) /\ address \in Address
    BY <1>3, PeopleFacts DEF Turned
  <2>2. CASE next.parties = known.parties
    BY <1>8, <2>2
  <2>3. CASE next.parties = Append(known.parties, address)
    <3>1. /\ Len(next.parties) = Len(known.parties) + 1
          /\ \A p \in 1 .. Len(known.parties) : next.parties[p] = known.parties[p]
          /\ next.parties[Len(known.parties) + 1] = address
          /\ Len(known.parties) \in Nat
      BY <1>1, <1>4, <2>3, RangeOfAppend
    <3>2. \A p \in 1 .. Len(next.parties) :
              p \in 1 .. Len(known.parties) \/ p = Len(known.parties) + 1
      BY <3>1
    <3>3. QED
      BY <1>8, <2>1, <3>1, <3>2 DEF FromAddresses
  <2>4. QED
    BY <2>1, <2>2, <2>3 DEF Grown
<1>9. FromAddresses(parties) => FromAddresses(next.parties)
  BY <1>8 DEF After
<1>10. Sound(next)
  BY <1>3 DEF Turned
<1>11. QED
  BY <1>5, <1>6, <1>7, <1>9, <1>10 DEF After, next

LEMMA TurnsKeep ==
  ASSUME parties \in Seq(Party), NEW m \in Message,
         NEW k \in 0 .. Len(People(m)), NEW f, Turns(f, k, m)
  PROVE  \A n \in 0 .. k : After(f[n], n, m)
<1> DEFINE T == {n \in Nat : n <= k => After(f[n], n, m)}
<1>1. 0 \in T
  BY FirstTurn DEF Turns
<1>2. ASSUME NEW n \in T PROVE n + 1 \in T
  <2> SUFFICES ASSUME n + 1 <= k PROVE After(f[n + 1], n + 1, m)
    OBVIOUS
  <2>1. /\ k \in Nat /\ n + 1 \in 1 .. k /\ (n + 1) - 1 = n
        /\ n + 1 \in 1 .. Len(People(m))
    BY PeopleFacts
  <2>2. After(f[n], n, m)
    BY <2>1
  <2>3. f[n + 1] = Identify(f[n], People(m)[n + 1])
    BY <2>1 DEF Turns
  <2>4. QED
    BY <2>1, <2>2, <2>3, NextTurn
<1>3. \A n \in Nat : n \in T
  <2> HIDE DEF T
  <2>1. T \in SUBSET Nat
    BY DEF T
  <2>2. QED
    BY <1>1, <1>2, <2>1, ByInduction
<1>4. QED
  BY <1>3

\* There is such a function: the recursion defines one.
LEMMA TurnsExist ==
  ASSUME parties \in Seq(Party), NEW m \in Message,
         NEW k \in 0 .. Len(People(m))
  PROVE  \E f : Turns(f, k, m)
<1> DEFINE T == {n \in Nat : n <= Len(People(m)) => \E f : Turns(f, n, m)}
<1>1. 0 \in T
  <2>1. Turns([n \in 0 .. 0 |-> Start0], 0, m)
    BY DEF Turns
  <2>2. QED
    BY <2>1
<1>2. ASSUME NEW n \in T PROVE n + 1 \in T
  <2> SUFFICES ASSUME n + 1 <= Len(People(m)) PROVE \E f : Turns(f, n + 1, m)
    OBVIOUS
  <2>1. n \in Nat /\ n <= Len(People(m))
    BY PeopleFacts
  <2>2. PICK f : Turns(f, n, m)
    BY <2>1
  <2> DEFINE g == [i \in 0 .. n + 1 |->
                      IF i = n + 1 THEN Identify(f[n], People(m)[n + 1])
                      ELSE f[i]]
  <2>3. g[0] = Start0
    BY <2>1, <2>2 DEF Turns
  <2>4. ASSUME NEW i \in 1 .. n + 1
        PROVE  g[i] = Identify(g[i - 1], People(m)[i])
    <3>1. CASE i = n + 1
      <4>1. i - 1 = n /\ n \in 0 .. n + 1 /\ n # n + 1
        BY <2>1, <3>1
      <4>2. QED
        BY <3>1, <4>1
    <3>2. CASE i # n + 1
      <4>1. i \in 1 .. n /\ i - 1 \in 0 .. n + 1 /\ i - 1 # n + 1
        BY <2>1, <3>2
      <4>2. QED
        BY <2>2, <3>2, <4>1 DEF Turns
    <3>3. QED
      BY <3>1, <3>2
  <2>5. Turns(g, n + 1, m)
    <3> HIDE DEF g
    <3>1. QED
      BY <2>3, <2>4 DEF Turns
  <2>6. QED
    BY <2>5
<1>3. \A n \in Nat : n \in T
  <2> HIDE DEF T
  <2>1. T \in SUBSET Nat
    BY DEF T
  <2>2. QED
    BY <1>1, <1>2, <2>1, ByInduction
<1>4. QED
  BY <1>3

\* What is known at the end of the loop.
LEMMA IdentifiedFacts ==
  ASSUME parties \in Seq(Party), NEW m \in Message
  PROVE  After(Identified(m), Len(People(m)), m)
<1> DEFINE N == Len(People(m))
           Body(f) == [n \in 0 .. N |->
                         IF n = 0 THEN Start0 ELSE Identify(f[n - 1], People(m)[n])]
           F == CHOOSE f : f = Body(f)
<1>1. N \in Nat
  BY PeopleFacts
<1>2. \E f : f = Body(f)
  <2>1. PICK f : Turns(f, N, m)
    BY <1>1, TurnsExist
  <2> DEFINE g == [n \in 0 .. N |-> f[n]]
  <2>2. ASSUME NEW n \in 0 .. N PROVE g[n] = Body(g)[n]
    <3>1. CASE n = 0
      BY <2>1, <3>1 DEF Turns
    <3>2. CASE n # 0
      <4>1. n \in 1 .. N /\ n - 1 \in 0 .. N
        BY <1>1, <3>2
      <4>2. QED
        BY <2>1, <3>2, <4>1 DEF Turns
    <3>3. QED
      BY <3>1, <3>2
  <2>3. g = Body(g)
    BY <2>2
  <2>4. QED
    BY <2>3
<1>3. F = Body(F)
  BY <1>2
<1>4. Identified(m) = F[N]
  BY Zenon DEF Identified, Start0
<1> HIDE DEF F
<1>5. Turns(F, N, m)
  BY <1>1, <1>3 DEF Turns
<1>6. QED
  BY <1>1, <1>4, <1>5, TurnsKeep

-----------------------------------------------------------------------------
\* Lists

LEMMA LengthFacts ==
  ASSUME NEW S, NEW list \in Seq(S) \cup {Absent}
  PROVE  /\ Length(list) \in Nat
         /\ list # Absent => list \in Seq(S) /\ Length(list) = Len(list)
         /\ \A k \in 1 .. Length(list) : list[k] \in S
BY DEF Length

\* The list as it is with elements added at the end.
Longer(after, before) ==
    /\ Length(before) <= Length(after)
    /\ \A k \in 1 .. Length(before) : after[k] = before[k]

LEMMA AddedFacts ==
  ASSUME NEW S, Absent \notin Seq(S), NEW list \in Seq(S) \cup {Absent},
         NEW e \in S
  PROVE  /\ Added(list, e) \in Seq(S)
         /\ Added(list, e) # Absent
         /\ Length(Added(list, e)) = Length(list) + 1
         /\ Added(list, e)[Length(list) + 1] = e
         /\ Longer(Added(list, e), list)
<1>1. CASE list = Absent
  <2> DEFINE one == <<e>>
  <2>1. Added(list, e) = one /\ Length(list) = 0
    BY <1>1 DEF Added, Length
  <2>2. one \in Seq(S) /\ Len(one) = 1 /\ one[1] = e
    OBVIOUS
  <2> HIDE DEF one
  <2>3. one # Absent
    BY <2>2
  <2>4. Length(one) = 1
    BY <2>2, <2>3 DEF Length
  <2>5. Longer(one, list)
    BY <2>1, <2>4 DEF Longer
  <2>6. QED
    BY <2>1, <2>2, <2>3, <2>4, <2>5
<1>2. CASE list # Absent
  <2>1. /\ list \in Seq(S) /\ Length(list) = Len(list)
        /\ Added(list, e) = Append(list, e)
    BY <1>2 DEF Added, Length
  <2>2. /\ Append(list, e) \in Seq(S)
        /\ Len(Append(list, e)) = Len(list) + 1
        /\ \A i \in 1 .. Len(list) : Append(list, e)[i] = list[i]
        /\ Append(list, e)[Len(list) + 1] = e
        /\ Len(list) \in Nat
    BY <2>1, RangeOfAppend
  <2>3. QED
    BY <2>1, <2>2 DEF Length, Longer
<1>3. QED
  BY <1>1, <1>2
=============================================================================
