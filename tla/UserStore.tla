----------------------------- MODULE UserStore -----------------------------
(***************************************************************************)
(* The two MongoDB collections of the service, usercol and servcol, seen   *)
(* through the calls src/ makes: insert_one, delete_one and update_one by  *)
(* _id, find by username.  A collection is the sequence of its documents   *)
(* in natural (insertion) order, the order in which a cursor yields them.  *)
(* The server itself is external; each call is atomic on its side.         *)
(***************************************************************************)
EXTENDS Sequences, Naturals

CONSTANT NoServices   \* the "services" field of a document that has none

\* A document of usercol, and one of servcol.
UserDocs(oids, names, services) ==
  [oid : oids, username : names, services : Seq(services) \cup {NoServices}]

ServiceDocs(oids, names) == [oid : oids, service : names]

\* What addUser and AddService insert.
NewUser(oid, name) == [oid |-> oid, username |-> name, services |-> NoServices]

NewService(oid, name) == [oid |-> oid, service |-> name]

\* The positions at which the query {"_id": oid} matches.
PositionsOf(coll, oid) == {i \in DOMAIN coll : coll[i].oid = oid}

HasOid(coll, oid) == PositionsOf(coll, oid) # {}

Without(s, i) == SubSeq(s, 1, i - 1) \o SubSeq(s, i + 1, Len(s))

\* Variant: the deletion is sent to the other collection.
DeleteElsewhere(coll, oid) == coll

\* delete_one({"_id": oid}): matching nothing is a success too.
DeleteOne(coll, oid) ==
  IF HasOid(coll, oid)
    THEN Without(coll, CHOOSE i \in PositionsOf(coll, oid) : TRUE)
    ELSE coll

\* Variant: $push.
PushAlways(services, service) ==
  IF services = NoServices THEN <<service>> ELSE Append(services, service)

\* $addToSet creates the array, appends, or leaves the set as it is.
AddToSet(services, service) ==
  IF services = NoServices THEN <<service>>
  ELSE IF \E i \in DOMAIN services : services[i] = service THEN services
  ELSE Append(services, service)

\* Variant: the field goes with its last value.
PullAndUnset(services, service) ==
  IF services = <<service>> THEN NoServices ELSE services

\* $pull leaves a document without the field alone; the array $addToSet
\* maintains holds a value at most once.
Pull(services, service) ==
  IF services # NoServices /\ \E i \in DOMAIN services : services[i] = service
    THEN Without(services, CHOOSE i \in DOMAIN services : services[i] = service)
    ELSE services

\* update_one({"_id": oid}, {"$addToSet": ...}) and {"$pull": ...}.
AddToSetOne(coll, oid, service) ==
  [i \in DOMAIN coll |->
     IF coll[i].oid = oid
       THEN [coll[i] EXCEPT !.services = AddToSet(@, service)]
       ELSE coll[i]]

PullOne(coll, oid, service) ==
  [i \in DOMAIN coll |->
     IF coll[i].oid = oid
       THEN [coll[i] EXCEPT !.services = Pull(@, service)]
       ELSE coll[i]]

\* The document mongoc_cursor_next yields first for {"username": name}.
Named(coll, name) == {i \in DOMAIN coll : coll[i].username = name}

\* Variant: the newest document comes first.
LastNamed(coll, name) ==
  coll[CHOOSE i \in Named(coll, name) : \A j \in Named(coll, name) : i >= j]

FirstNamed(coll, name) ==
  coll[CHOOSE i \in Named(coll, name) : \A j \in Named(coll, name) : i <= j]
=============================================================================
