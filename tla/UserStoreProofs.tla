-------------------------- MODULE UserStoreProofs --------------------------
(***************************************************************************)
(* Lemmas about the operators of UserStore: what an update of a collection *)
(* yields has the type of a collection.                                    *)
(***************************************************************************)
EXTENDS UserStore, SequenceTheorems, WellFoundedInduction, TLAPS

\* Deleting one position leaves a sequence over the same set.
LEMMA WithoutType ==
  ASSUME NEW S, NEW s \in Seq(S), NEW i \in DOMAIN s
  PROVE  Without(s, i) \in Seq(S)
<1>1. Len(s) \in Nat /\ DOMAIN s = 1 .. Len(s) /\ i \in 1 .. Len(s)
  BY LenProperties
<1>2. SubSeq(s, 1, i - 1) \in Seq(S)
  BY <1>1, SubSeqProperties
<1>3. SubSeq(s, i + 1, Len(s)) \in Seq(S)
  BY <1>1, SubSeqProperties
<1> QED  BY <1>2, <1>3, ConcatProperties DEF Without

LEMMA DeleteOneType ==
  ASSUME NEW S, NEW coll \in Seq(S), NEW oid
  PROVE  DeleteOne(coll, oid) \in Seq(S)
<1>1. CASE HasOid(coll, oid)
  <2>1. (CHOOSE i \in PositionsOf(coll, oid) : TRUE) \in DOMAIN coll
    BY <1>1 DEF HasOid, PositionsOf
  <2> QED  BY <1>1, <2>1, WithoutType DEF DeleteOne
<1>2. CASE ~HasOid(coll, oid)
  BY <1>2 DEF DeleteOne
<1> QED  BY <1>1, <1>2

\* A services field stays one under both updates.
LEMMA AddToSetType ==
  ASSUME NEW S, NEW service \in S, NEW services \in Seq(S) \cup {NoServices}
  PROVE  AddToSet(services, service) \in Seq(S) \cup {NoServices}
<1>1. <<service>> \in Seq(S)
  OBVIOUS
<1>2. services # NoServices => Append(services, service) \in Seq(S)
  BY AppendProperties
<1> QED  BY <1>1, <1>2 DEF AddToSet

LEMMA PullType ==
  ASSUME NEW S, NEW service, NEW services \in Seq(S) \cup {NoServices}
  PROVE  Pull(services, service) \in Seq(S) \cup {NoServices}
<1>1. CASE services # NoServices /\ \E i \in DOMAIN services : services[i] = service
  <2>1. (CHOOSE i \in DOMAIN services : services[i] = service) \in DOMAIN services
    BY <1>1
  <2> QED  BY <1>1, <2>1, WithoutType DEF Pull
<1>2. CASE ~(services # NoServices /\ \E i \in DOMAIN services : services[i] = service)
  BY <1>2 DEF Pull
<1> QED  BY <1>1, <1>2

LEMMA AddToSetOneType ==
  ASSUME NEW O, NEW N, NEW S, NEW coll \in Seq(UserDocs(O, N, S)),
         NEW oid, NEW service \in S
  PROVE  AddToSetOne(coll, oid, service) \in Seq(UserDocs(O, N, S))
<1>1. Len(coll) \in Nat /\ DOMAIN coll = 1 .. Len(coll)
  BY LenProperties
<1>2. ASSUME NEW i \in 1 .. Len(coll)
      PROVE  [coll[i] EXCEPT !.services = AddToSet(@, service)] \in UserDocs(O, N, S)
  <2>1. coll[i] \in UserDocs(O, N, S)
    BY ElementOfSeq
  <2>2. AddToSet(coll[i].services, service) \in Seq(S) \cup {NoServices}
    BY <2>1, AddToSetType DEF UserDocs
  <2> QED  BY <2>1, <2>2 DEF UserDocs
<1>3. \A i \in 1 .. Len(coll) : coll[i] \in UserDocs(O, N, S)
  BY ElementOfSeq
<1> QED  BY <1>1, <1>2, <1>3, IsASeq DEF AddToSetOne

LEMMA PullOneType ==
  ASSUME NEW O, NEW N, NEW S, NEW coll \in Seq(UserDocs(O, N, S)),
         NEW oid, NEW service
  PROVE  PullOne(coll, oid, service) \in Seq(UserDocs(O, N, S))
<1>1. Len(coll) \in Nat /\ DOMAIN coll = 1 .. Len(coll)
  BY LenProperties
<1>2. ASSUME NEW i \in 1 .. Len(coll)
      PROVE  [coll[i] EXCEPT !.services = Pull(@, service)] \in UserDocs(O, N, S)
  <2>1. coll[i] \in UserDocs(O, N, S)
    BY ElementOfSeq
  <2>2. Pull(coll[i].services, service) \in Seq(S) \cup {NoServices}
    BY <2>1, PullType DEF UserDocs
  <2> QED  BY <2>1, <2>2 DEF UserDocs
<1>3. \A i \in 1 .. Len(coll) : coll[i] \in UserDocs(O, N, S)
  BY ElementOfSeq
<1> QED  BY <1>1, <1>2, <1>3, IsASeq DEF PullOne

LEMMA AppendUserType ==
  ASSUME NEW O, NEW N, NEW S, NEW coll \in Seq(UserDocs(O, N, S)),
         NEW oid \in O, NEW name \in N
  PROVE  Append(coll, NewUser(oid, name)) \in Seq(UserDocs(O, N, S))
<1>1. NewUser(oid, name) \in UserDocs(O, N, S)
  BY DEF NewUser, UserDocs
<1> QED  BY <1>1, AppendProperties

-----------------------------------------------------------------------------
(* What a cursor yields first.                                             *)

\* A nonempty set of positions has a first one.
LEMMA FirstPosition ==
  ASSUME NEW I, I \subseteq Nat, I # {}
  PROVE  \E i \in I : \A j \in I : i <= j
<1>1. PICK i \in I : \A j \in I : <<j, i>> \notin OpToRel(<, Nat)
  BY WFMin, NatLessThanWellFounded, Zenon
<1>2. \A j \in I : ~(j < i)
  BY <1>1, Zenon DEF OpToRel
<1> QED  BY <1>2

\* The document found by name stands at the first position of that name.
LEMMA FirstNamedIs ==
  ASSUME NEW S, NEW coll \in Seq(S), NEW name,
         NEW i \in Named(coll, name), \A j \in Named(coll, name) : i <= j
  PROVE  FirstNamed(coll, name) = coll[i]
<1>1. Named(coll, name) \subseteq Nat
  BY LenProperties DEF Named
<1>. DEFINE first(k) == k \in Named(coll, name) /\ \A j \in Named(coll, name) : k <= j
<1>2. \A k : first(k) => k = i
  BY <1>1
<1>3. (CHOOSE k \in Named(coll, name) : \A j \in Named(coll, name) : k <= j) = i
  BY <1>2
<1> QED  BY <1>3 DEF FirstNamed

LEMMA FirstNamedAt ==
  ASSUME NEW S, NEW coll \in Seq(S), NEW name, Named(coll, name) # {}
  PROVE  \E i \in Named(coll, name) :
            /\ \A j \in Named(coll, name) : i <= j
            /\ FirstNamed(coll, name) = coll[i]
<1>1. Named(coll, name) \subseteq Nat
  BY LenProperties DEF Named
<1>2. PICK i \in Named(coll, name) : \A j \in Named(coll, name) : i <= j
  BY <1>1, FirstPosition
<1> QED  BY <1>2, FirstNamedIs

-----------------------------------------------------------------------------
(* What deletions and updates leave of a collection: its documents in the  *)
(* same order, under the same identifiers and names.                       *)

\* new holds documents of coll, at positions f; one without services is as it was.
ThinsBy(f, new, coll) ==
  /\ f \in [DOMAIN new -> DOMAIN coll]
  /\ \A i, j \in DOMAIN new : i < j => f[i] < f[j]
  /\ \A i \in DOMAIN new :
       /\ new[i].oid = coll[f[i]].oid
       /\ new[i].username = coll[f[i]].username
       /\ new[i].services = NoServices => new[i] = coll[f[i]]

Thins(new, coll) == \E f : ThinsBy(f, new, coll)

\* No two documents have the same identifier.
Keyed(coll) == \A i, j \in DOMAIN coll : coll[i].oid = coll[j].oid => i = j

\* Wherever the document of that identifier is, it has the name of doc and is
\* the first one with it.
FirstOfName(doc, coll) ==
  \A i \in DOMAIN coll : coll[i].oid = doc.oid =>
    /\ coll[i].username = doc.username
    /\ \A j \in Named(coll, doc.username) : i <= j

LEMMA WithoutElements ==
  ASSUME NEW S, NEW s \in Seq(S), NEW i \in DOMAIN s
  PROVE  /\ Without(s, i) \in Seq(S) /\ Len(Without(s, i)) = Len(s) - 1
         /\ \A j \in 1 .. Len(s) - 1 :
              Without(s, i)[j] = s[IF j < i THEN j ELSE j + 1]
<1>1. Len(s) \in Nat /\ DOMAIN s = 1 .. Len(s) /\ i \in 1 .. Len(s)
  BY LenProperties
<1>. DEFINE front == SubSeq(s, 1, i - 1)
            back == SubSeq(s, i + 1, Len(s))
<1>2. /\ front \in Seq(S) /\ Len(front) = i - 1
      /\ \A j \in 1 .. i - 1 : front[j] = s[j]
  BY <1>1, SubSeqProperties
<1>3. /\ back \in Seq(S) /\ Len(back) = Len(s) - i
      /\ \A j \in 1 .. Len(s) - i : back[j] = s[i + j]
  BY <1>1, SubSeqProperties
<1>. HIDE DEF front, back
<1>4. /\ front \o back \in Seq(S) /\ Len(front \o back) = Len(front) + Len(back)
      /\ \A j \in 1 .. Len(front) + Len(back) :
           (front \o back)[j] = IF j <= Len(front) THEN front[j] ELSE back[j - Len(front)]
  BY <1>2, <1>3, ConcatProperties
<1>5. ASSUME NEW j \in 1 .. Len(s) - 1
      PROVE  (front \o back)[j] = s[IF j < i THEN j ELSE j + 1]
  <2>1. CASE j < i
    <3>1. j \in 1 .. i - 1 /\ j <= Len(front) /\ j \in 1 .. Len(front) + Len(back)
      BY <2>1, <1>1, <1>2, <1>3
    <3> QED  BY <3>1, <2>1, <1>2, <1>4
  <2>2. CASE ~(j < i)
    <3>1. /\ j - (i - 1) \in 1 .. Len(s) - i /\ ~(j <= Len(front))
          /\ j \in 1 .. Len(front) + Len(back) /\ i + (j - (i - 1)) = j + 1
      BY <2>2, <1>1, <1>2, <1>3
    <3>2. (front \o back)[j] = back[j - (i - 1)]
      BY <3>1, <1>2, <1>4
    <3> QED  BY <3>1, <3>2, <2>2, <1>3
  <2> QED  BY <2>1, <2>2
<1>6. Len(front \o back) = Len(s) - 1
  BY <1>1, <1>2, <1>3, <1>4
<1>7. Without(s, i) = front \o back
  BY DEF Without, front, back
<1> QED  BY <1>4, <1>5, <1>6, <1>7

\* A deletion thins the collection, and the identifier is gone.
LEMMA DeleteOneThins ==
  ASSUME NEW S, NEW coll \in Seq(S), NEW oid, HasOid(coll, oid), Keyed(coll)
  PROVE  Thins(DeleteOne(coll, oid), coll) /\ ~HasOid(DeleteOne(coll, oid), oid)
<1>. DEFINE k == CHOOSE i \in PositionsOf(coll, oid) : TRUE
            new == DeleteOne(coll, oid)
            f == [j \in DOMAIN new |-> IF j < k THEN j ELSE j + 1]
<1>1. k \in DOMAIN coll /\ coll[k].oid = oid
  BY DEF HasOid, PositionsOf
<1>2. new = Without(coll, k)
  BY DEF DeleteOne
<1>. HIDE DEF k
<1>3. Len(coll) \in Nat /\ DOMAIN coll = 1 .. Len(coll)
  BY LenProperties
<1>4. new \in Seq(S) /\ Len(new) = Len(coll) - 1
  BY <1>1, <1>2, WithoutElements
<1>5. DOMAIN new = 1 .. Len(coll) - 1
  BY <1>4, LenProperties
<1>6. \A j \in DOMAIN new : new[j] = coll[f[j]]
  <2>1. \A j \in 1 .. Len(coll) - 1 : Without(coll, k)[j] = coll[IF j < k THEN j ELSE j + 1]
    BY <1>1, WithoutElements
  <2>. QED BY <1>2, <1>5, <2>1
<1>. HIDE DEF new
<1>7. f \in [DOMAIN new -> DOMAIN coll] /\ \A j \in DOMAIN new : f[j] # k
  BY <1>1, <1>3, <1>5
<1>8. \A i, j \in DOMAIN new : i < j => f[i] < f[j]
  BY <1>1, <1>3, <1>5
<1>. HIDE DEF f
<1>9. ThinsBy(f, new, coll)
  BY <1>6, <1>7, <1>8 DEF ThinsBy
<1>10. \A j \in DOMAIN new : new[j].oid # oid
  BY <1>1, <1>6, <1>7 DEF Keyed
<1> QED  BY <1>9, <1>10 DEF Thins, HasOid, PositionsOf, new

\* An update keeps every document at its place, under its identifier and name.
LEMMA AddToSetOneThins ==
  ASSUME NEW O, NEW N, NEW S, NEW coll \in Seq(UserDocs(O, N, S)), NEW oid,
         NEW service \in S, NoServices \notin Seq(S)
  PROVE  Thins(AddToSetOne(coll, oid, service), coll)
<1>. DEFINE new == AddToSetOne(coll, oid, service)
            f == [i \in DOMAIN coll |-> i]
<1>1. DOMAIN new = DOMAIN coll /\ DOMAIN coll = 1 .. Len(coll) /\ Len(coll) \in Nat
  BY LenProperties DEF AddToSetOne
<1>2. ASSUME NEW i \in DOMAIN coll
      PROVE  /\ new[i].oid = coll[i].oid /\ new[i].username = coll[i].username
             /\ new[i].services = NoServices => new[i] = coll[i]
  <2>1. coll[i] \in UserDocs(O, N, S)
    BY <1>1, ElementOfSeq
  <2>2. AddToSet(coll[i].services, service) # NoServices
    <3>1. coll[i].services \in Seq(S) \cup {NoServices} /\ <<service>> \in Seq(S)
      BY <2>1 DEF UserDocs
    <3>2. coll[i].services \in Seq(S) => Append(coll[i].services, service) \in Seq(S)
      BY AppendProperties
    <3> QED  BY <3>1, <3>2 DEF AddToSet
  <2>3. new[i] = IF coll[i].oid = oid
                   THEN [coll[i] EXCEPT !.services = AddToSet(coll[i].services, service)]
                   ELSE coll[i]
    BY DEF AddToSetOne
  <2> QED  BY <2>1, <2>2, <2>3 DEF UserDocs
<1>3. ThinsBy(f, new, coll)
  BY <1>1, <1>2 DEF ThinsBy
<1> QED  BY <1>3 DEF Thins

LEMMA PullOneThins ==
  ASSUME NEW O, NEW N, NEW S, NEW coll \in Seq(UserDocs(O, N, S)), NEW oid,
         NEW service, NoServices \notin Seq(S)
  PROVE  Thins(PullOne(coll, oid, service), coll)
<1>. DEFINE new == PullOne(coll, oid, service)
            f == [i \in DOMAIN coll |-> i]
<1>1. DOMAIN new = DOMAIN coll /\ DOMAIN coll = 1 .. Len(coll) /\ Len(coll) \in Nat
  BY LenProperties DEF PullOne
<1>2. ASSUME NEW i \in DOMAIN coll
      PROVE  /\ new[i].oid = coll[i].oid /\ new[i].username = coll[i].username
             /\ new[i].services = NoServices => new[i] = coll[i]
  <2>1. coll[i] \in UserDocs(O, N, S)
    BY <1>1, ElementOfSeq
  <2>2. Pull(coll[i].services, service) = NoServices => coll[i].services = NoServices
    <3>1. coll[i].services \in Seq(S) \cup {NoServices}
      BY <2>1 DEF UserDocs
    <3>2. CASE coll[i].services \in Seq(S)
      <4>1. Pull(coll[i].services, service) \in Seq(S)
        <5>1. CASE \E j \in DOMAIN coll[i].services : coll[i].services[j] = service
          <6>1. (CHOOSE j \in DOMAIN coll[i].services : coll[i].services[j] = service)
                  \in DOMAIN coll[i].services
            BY <5>1
          <6> QED  BY <6>1, <3>2, WithoutType DEF Pull
        <5> QED  BY <5>1, <3>2 DEF Pull
      <4> QED  BY <4>1
    <3> QED  BY <3>1, <3>2
  <2>3. new[i] = IF coll[i].oid = oid
                   THEN [coll[i] EXCEPT !.services = Pull(coll[i].services, service)]
                   ELSE coll[i]
    BY DEF PullOne
  <2>4. Pull(coll[i].services, service) = NoServices =>
          [coll[i] EXCEPT !.services = Pull(coll[i].services, service)] = coll[i]
    BY <2>1, <2>2 DEF UserDocs
  <2> QED  BY <2>1, <2>3, <2>4 DEF UserDocs
<1>3. ThinsBy(f, new, coll)
  BY <1>1, <1>2 DEF ThinsBy
<1> QED  BY <1>3 DEF Thins

-----------------------------------------------------------------------------
\* A thinned collection has no new identifiers and none twice.
LEMMA ThinsKeys ==
  ASSUME NEW S, NEW coll \in Seq(S), NEW T, NEW new \in Seq(T), Thins(new, coll)
  PROVE  /\ Keyed(coll) => Keyed(new)
         /\ \A i \in DOMAIN new : \E k \in DOMAIN coll : new[i].oid = coll[k].oid
<1>1. PICK f : ThinsBy(f, new, coll)
  BY DEF Thins
<1>2. /\ DOMAIN new \subseteq Int /\ DOMAIN coll \subseteq Int
  BY LenProperties
<1>3. \A i, j \in DOMAIN new : f[i] = f[j] => i = j
  <2> SUFFICES ASSUME NEW i \in DOMAIN new, NEW j \in DOMAIN new, f[i] = f[j], i # j
               PROVE  FALSE
    OBVIOUS
  <2>1. f[i] \in Int /\ i \in Int /\ j \in Int
    BY <1>1, <1>2 DEF ThinsBy
  <2>2. i < j \/ j < i
    BY <2>1
  <2>3. f[i] < f[j] \/ f[j] < f[i]
    BY <2>2, <1>1 DEF ThinsBy
  <2> QED  BY <2>1, <2>3
<1> QED  BY <1>1, <1>3 DEF ThinsBy, Keyed

\* A document that was the first of its name stays so.
LEMMA ThinsFirst ==
  ASSUME NEW S, NEW coll \in Seq(S), NEW T, NEW new \in Seq(T), Thins(new, coll),
         NEW doc, FirstOfName(doc, coll)
  PROVE  FirstOfName(doc, new)
<1>1. PICK f : ThinsBy(f, new, coll)
  BY DEF Thins
<1>2. /\ DOMAIN new \subseteq Int /\ DOMAIN coll \subseteq Int
  BY LenProperties
<1> SUFFICES ASSUME NEW i \in DOMAIN new, new[i].oid = doc.oid
             PROVE  /\ new[i].username = doc.username
                    /\ \A j \in Named(new, doc.username) : i <= j
  BY DEF FirstOfName
<1>3. /\ f[i] \in DOMAIN coll /\ coll[f[i]].oid = doc.oid
      /\ coll[f[i]].username = new[i].username
  BY <1>1 DEF ThinsBy
<1>4. /\ coll[f[i]].username = doc.username
      /\ \A k \in Named(coll, doc.username) : f[i] <= k
  BY <1>3 DEF FirstOfName
<1>5. ASSUME NEW j \in Named(new, doc.username)
      PROVE  i <= j
  <2>1. j \in DOMAIN new /\ f[j] \in Named(coll, doc.username)
    BY <1>1 DEF ThinsBy, Named
  <2>2. f[i] <= f[j] /\ f[i] \in Int /\ f[j] \in Int /\ i \in Int /\ j \in Int
    BY <2>1, <1>2, <1>3, <1>4 DEF Named
  <2>3. j < i => f[j] < f[i]
    BY <2>1, <1>1 DEF ThinsBy
  <2> QED  BY <2>2, <2>3
<1> QED  BY <1>3, <1>4, <1>5

\* A document without services that is found by its name was found before, if
\* it had been the first of its name.
LEMMA ThinsFound ==
  ASSUME NEW S, NEW coll \in Seq(S), NEW T, NEW new \in Seq(T), Thins(new, coll),
         NEW doc, FirstOfName(doc, coll), doc.services = NoServices,
         Named(new, doc.username) # {}, FirstNamed(new, doc.username) = doc
  PROVE  Named(coll, doc.username) # {} /\ FirstNamed(coll, doc.username) = doc
<1>1. PICK f : ThinsBy(f, new, coll)
  BY DEF Thins
<1>2. PICK i \in Named(new, doc.username) : new[i] = doc
  BY FirstNamedAt
<1>3. f[i] \in DOMAIN coll /\ coll[f[i]] = doc
  BY <1>1, <1>2 DEF ThinsBy, Named
<1>4. /\ f[i] \in Named(coll, doc.username)
      /\ \A j \in Named(coll, doc.username) : f[i] <= j
  BY <1>3 DEF FirstOfName, Named
<1> QED  BY <1>3, <1>4, FirstNamedIs

-----------------------------------------------------------------------------
\* A document is appended behind those of the same name.
LEMMA AppendNamed ==
  ASSUME NEW S, NEW coll \in Seq(S), NEW doc \in S, NEW name
  PROVE  /\ Named(coll, name) # {} =>
              /\ Named(Append(coll, doc), name) # {}
              /\ FirstNamed(Append(coll, doc), name) = FirstNamed(coll, name)
         /\ Named(coll, name) = {} /\ Named(Append(coll, doc), name) # {} =>
              FirstNamed(Append(coll, doc), name) = doc
<1>. DEFINE new == Append(coll, doc)
<1>1. Len(coll) \in Nat /\ DOMAIN coll = 1 .. Len(coll)
  BY LenProperties
<1>2. /\ new \in Seq(S) /\ DOMAIN new = 1 .. Len(coll) + 1
      /\ \A i \in 1 .. Len(coll) : new[i] = coll[i]
      /\ new[Len(coll) + 1] = doc
  BY <1>1, AppendProperties, LenProperties
<1>. HIDE DEF new
<1>3. ASSUME Named(coll, name) # {}
      PROVE  Named(new, name) # {} /\ FirstNamed(new, name) = FirstNamed(coll, name)
  <2>1. PICK i \in Named(coll, name) :
           /\ \A j \in Named(coll, name) : i <= j
           /\ FirstNamed(coll, name) = coll[i]
    BY <1>3, FirstNamedAt
  <2>2. i \in Named(new, name) /\ new[i] = coll[i] /\ i \in 1 .. Len(coll)
    BY <1>1, <1>2 DEF Named
  <2>3. \A j \in Named(new, name) : j \in Named(coll, name) \/ j = Len(coll) + 1
    BY <1>1, <1>2 DEF Named
  <2>4. \A j \in Named(new, name) : i <= j
    BY <2>1, <2>2, <2>3, <1>1
  <2>5. FirstNamed(new, name) = new[i]
    BY <1>2, <2>2, <2>4, FirstNamedIs
  <2> QED  BY <2>1, <2>2, <2>5
<1>4. ASSUME Named(coll, name) = {}, Named(new, name) # {}
      PROVE  FirstNamed(new, name) = doc
  <2>1. \A j \in Named(new, name) : j = Len(coll) + 1
    BY <1>1, <1>2, <1>4 DEF Named
  <2>2. PICK i \in Named(new, name) : FirstNamed(new, name) = new[i]
    BY <1>2, <1>4, FirstNamedAt
  <2> QED  BY <1>2, <2>1, <2>2
<1> QED  BY <1>3, <1>4 DEF new

\* A document under a new identifier is appended: identifiers stay unique and
\* first documents of a name stay first.
LEMMA AppendKeyed ==
  ASSUME NEW S, NEW coll \in Seq(S), NEW new \in S, ~HasOid(coll, new.oid), Keyed(coll)
  PROVE  /\ Keyed(Append(coll, new))
         /\ \A i \in DOMAIN Append(coll, new) :
              \/ Append(coll, new)[i] = new
              \/ i \in DOMAIN coll /\ Append(coll, new)[i] = coll[i]
<1>1. Len(coll) \in Nat /\ DOMAIN coll = 1 .. Len(coll)
  BY LenProperties
<1>. DEFINE next == Append(coll, new)
<1>2. /\ DOMAIN next = 1 .. Len(coll) + 1
      /\ \A i \in 1 .. Len(coll) : next[i] = coll[i]
      /\ next[Len(coll) + 1] = new
  BY <1>1, AppendProperties, LenProperties
<1>. HIDE DEF next
<1>3. \A i \in 1 .. Len(coll) : coll[i].oid # new.oid
  BY <1>1 DEF HasOid, PositionsOf
<1>4. \A i \in DOMAIN next : i \in 1 .. Len(coll) \/ i = Len(coll) + 1
  BY <1>1, <1>2
<1>5. Keyed(next)
  BY <1>1, <1>2, <1>3, <1>4 DEF Keyed
<1>6. ASSUME NEW i \in DOMAIN next
      PROVE  next[i] = new \/ (i \in DOMAIN coll /\ next[i] = coll[i])
  <2>1. CASE i \in 1 .. Len(coll)  BY <1>1, <1>2, <2>1
  <2>2. CASE i = Len(coll) + 1     BY <1>2, <2>2
  <2> QED  BY <1>4, <2>1, <2>2
<1> QED  BY <1>5, <1>6 DEF next

LEMMA AppendFirst ==
  ASSUME NEW S, NEW coll \in Seq(S), NEW new \in S, NEW doc,
         new.oid # doc.oid, FirstOfName(doc, coll)
  PROVE  FirstOfName(doc, Append(coll, new))
<1>1. Len(coll) \in Nat /\ DOMAIN coll = 1 .. Len(coll)
  BY LenProperties
<1>. DEFINE next == Append(coll, new)
<1>2. /\ DOMAIN next = 1 .. Len(coll) + 1
      /\ \A i \in 1 .. Len(coll) : next[i] = coll[i]
      /\ next[Len(coll) + 1] = new
  BY <1>1, AppendProperties, LenProperties
<1>. HIDE DEF next
<1> SUFFICES ASSUME NEW i \in DOMAIN next, next[i].oid = doc.oid
             PROVE  /\ next[i].username = doc.username
                    /\ \A j \in Named(next, doc.username) : i <= j
  BY DEF FirstOfName, next
<1>3. i \in DOMAIN coll /\ coll[i] = next[i] /\ i <= Len(coll) /\ i \in Nat
  BY <1>1, <1>2
<1>4. /\ coll[i].username = doc.username
      /\ \A j \in Named(coll, doc.username) : i <= j
  BY <1>3 DEF FirstOfName
<1>5. \A j \in Named(next, doc.username) :
        j \in Named(coll, doc.username) \/ j = Len(coll) + 1
  BY <1>1, <1>2 DEF Named
<1> QED  BY <1>1, <1>3, <1>4, <1>5
=============================================================================
