-------------------------- MODULE SourceCatalogProofs --------------------------
(***************************************************************************)
(* Theorems about SourceCatalog, for any number of requests at work, of    *)
(* versions and of packages, however their statements interleave and       *)
(* wherever they are broken off.  The invariant says which calls a request *)
(* may still have to make, by who asked: none of a developer's publishes,  *)
(* and what a call makes the latest version has been published, or is      *)
(* published by the call before it.                                        *)
(*                                                                         *)
(* Then what holds while requests come one after another: every call has   *)
(* an effect in the terms of the store in memory, and each statement is    *)
(* shown to leave calls that come to what the call did, or to less.  So    *)
(* the whole request comes to what that store makes of it; and since that  *)
(* store keeps a public item at its latest release, so does the catalog.   *)
(***************************************************************************)
EXTENDS SourceCatalog, SequenceTheorems, TLAPS

\* Calls that take the version from the request.
Naming == {"UpsertPlugin", "UpsertVersion", "UpdatePluginMetadata", "SubmitVersion"}

\* The statuses that a request may give to the item, and to a version.
May(r) == IF r.by = "admin" THEN ItemStatuses ELSE {"review"}
MayVersion(r) == IF r.by = "admin" THEN Statuses ELSE {"pending"}

\* The calls that a request may still make.
Fixed(r) ==
  [do : {"Denormalize", "SubmitItem"}]
  \cup [do : IF r.version \in Versions THEN Naming ELSE {}]
  \cup [do : IF r.by = "admin" THEN {"Repoint", "DeprecateItem", "Publish"} ELSE {}]
  \cup [do : {"SetPluginStatus", "ApplyItemStatus", "FinishStatus", "WriteItemStatus"}, to : May(r)]
  \cup [do : {"ApplyToVersions"}, to : May(r), preferred : Names]
  \cup [do : {"SetVersionStatus", "WriteStatus"}, version : Versions, to : MayVersion(r)]
  \cup [do : {"SetLatestVersion"}, version : Versions]
  \cup [do : {"WritePlugin"}, row : [status : ItemStatuses, version : Versions, package : Archives]]
  \cup [do : {"WriteVersion"}, version : Versions,
        row : [status : {"draft", "pending"}, package : Archives]]
  \cup [do : {"WriteMetadata"}, version : Versions, package : Archives]

\* Those that name a latest version, where these have been published.
Pointed(rel) ==
  [do : {"PointLatest"}, version : rel]
  \cup [do : {"Display", "DisplayListed"}, version : Versions, latest : rel \cup {NoVersion}]
  \cup [do : {"WriteShown"}, version : Versions, package : Archives, latest : rel \cup {NoVersion}]

Todo(r, rel) == Fixed(r) \cup Pointed(rel)

\* A version is published, and becomes the latest by the next call.
Publishing(v) == [do |-> "WriteStatus", version |-> v, to |-> "published"]
Pointing(v) == DoVersion("PointLatest", v)

\* What a request has still to do.
Coming(r, rel, s) ==
  \/ s \in Seq(Todo(r, rel))
  \/ /\ r.by = "admin"
     /\ \E v \in Versions, rest \in Seq(Todo(r, rel)) : s = <<Publishing(v)>> \o (<<Pointing(v)>> \o rest)

Calls ==
  /\ calls = [w \in Workers |-> calls[w]]
  /\ request = [w \in Workers |-> request[w]]
  /\ \A w \in Workers : request[w] \in Requests \cup {Nothing}
  /\ \A w \in Workers : Coming(request[w], released, calls[w])

\* A published version has been published.
Public == \A v \in Versions : releases[v].status = "published" => v \in released

Inv == TypeOK /\ Calls /\ Public /\ LatestWasReleased

--------------------------------------------------------------------------------
(* Sequences of calls *)

\* More versions published allow more calls.
LEMMA MoreTodo == ASSUME NEW r, NEW rel, NEW more, rel \subseteq more
                  PROVE  Todo(r, rel) \subseteq Todo(r, more)
<1>1. [do : {"PointLatest"}, version : rel] \subseteq [do : {"PointLatest"}, version : more]
  OBVIOUS
<1>2. [do : {"Display", "DisplayListed"}, version : Versions, latest : rel \cup {NoVersion}]
        \subseteq [do : {"Display", "DisplayListed"}, version : Versions, latest : more \cup {NoVersion}]
  OBVIOUS
<1>3. [do : {"WriteShown"}, version : Versions, package : Archives, latest : rel \cup {NoVersion}]
        \subseteq [do : {"WriteShown"}, version : Versions, package : Archives,
                   latest : more \cup {NoVersion}]
  OBVIOUS
<1>4. Pointed(rel) \subseteq Pointed(more)
  BY <1>1, <1>2, <1>3, Zenon DEF Pointed
<1> QED
  BY <1>4 DEF Todo

LEMMA MoreReleased == ASSUME NEW r, NEW rel, NEW more, rel \subseteq more, NEW s, Coming(r, rel, s)
                      PROVE  Coming(r, more, s)
<1>1. \A q \in Seq(Todo(r, rel)) : q \in Seq(Todo(r, more))
  BY MoreTodo, SeqMonotonic
<1> QED
  BY <1>1 DEF Coming

\* The first call and the rest.
LEMMA FirstCall == ASSUME NEW r, NEW rel, NEW s, Coming(r, rel, s), s # <<>>
                   PROVE  \/ Head(s) \in Todo(r, rel) /\ Tail(s) \in Seq(Todo(r, rel))
                          \/ /\ r.by = "admin"
                             /\ \E v \in Versions, rest \in Seq(Todo(r, rel)) :
                                  Head(s) = Publishing(v) /\ Tail(s) = <<Pointing(v)>> \o rest
<1>1. CASE s \in Seq(Todo(r, rel))
  BY <1>1, HeadTailProperties
<1>2. CASE s \notin Seq(Todo(r, rel))
  <2>1. PICK v \in Versions, rest \in Seq(Todo(r, rel)) : s = <<Publishing(v)>> \o (<<Pointing(v)>> \o rest)
    BY <1>2 DEF Coming
  <2> DEFINE S == Todo(r, rel) \cup {Publishing(v), Pointing(v)}
             t == <<Pointing(v)>> \o rest
  <2>2. rest \in Seq(S) /\ <<Pointing(v)>> \in Seq(S) /\ <<Publishing(v)>> \in Seq(S)
    BY SeqMonotonic
  <2>3. t \in Seq(S)
    BY <2>2, ConcatProperties
  <2>4. Head(<<Publishing(v)>> \o t) = Publishing(v) /\ Tail(<<Publishing(v)>> \o t) = t
    <3> HIDE DEF t
    <3> QED
      BY <2>2, <2>3
  <2> QED
    BY <1>2, <2>1, <2>4 DEF Coming
<1> QED
  BY <1>1, <1>2

\* A call that publishes nothing is followed by calls that may be made.
LEMMA Ordinary == ASSUME NEW r, NEW rel, NEW s, Coming(r, rel, s), s # <<>>, Head(s).do # "WriteStatus"
                  PROVE  Head(s) \in Todo(r, rel) /\ Tail(s) \in Seq(Todo(r, rel))
<1>1. \A v : Head(s) # Publishing(v)
  BY DEF Publishing
<1> QED
  BY <1>1, FirstCall

--------------------------------------------------------------------------------
(* The machinery of calls *)

\* A step that begins, continues or ends a request keeps what requests have to do.
LEMMA Moves == ASSUME Inv, NEW w \in Workers, calls[w] # <<>>, released \subseteq released',
                      NEW s, Coming(request[w], released', s), Left(w, s)
               PROVE  Calls'
<1>1. calls' = [u \in Workers |-> IF u = w THEN s ELSE calls[u]]
  BY DEF Left, Inv, Calls
<1>2. request' = [u \in Workers |-> IF u = w /\ s = <<>> THEN Nothing ELSE request[u]]
  BY DEF Left, Inv, Calls
<1>3. \A u \in Workers : request'[u] \in Requests \cup {Nothing}
  BY <1>2 DEF Inv, Calls
<1>4. ASSUME NEW u \in Workers, u # w PROVE Coming(request'[u], released', calls'[u])
  BY <1>1, <1>2, <1>4, MoreReleased DEF Inv, Calls
<1>5. Coming(request'[w], released', calls'[w])
  <2>1. CASE s = <<>>
    BY <1>1, <2>1, EmptySeq DEF Coming
  <2>2. CASE s # <<>>
    BY <1>1, <1>2, <2>2
  <2> QED
    BY <2>1, <2>2
<1> QED
  BY <1>1, <1>2, <1>3, <1>4, <1>5 DEF Calls

\* And the types, where it writes what it may.
LEMMA MovesTypes == ASSUME Inv, NEW w \in Workers, calls[w] # <<>>, NEW s, Left(w, s),
                           item' \in Items, releases' \in Releases, released' \subseteq Versions
                    PROVE  TypeOK'
<1>1. \A u \in Workers : /\ request'[u] = IF u = w /\ s = <<>> THEN Nothing ELSE request[u]
                         /\ calls'[u] = IF u = w THEN s ELSE calls[u]
  BY DEF Left, Inv, Calls
<1>2. request[w] # Nothing
  BY DEF Inv, TypeOK
<1>3. \A u \in Workers : request'[u] \in Asked \cup {Nothing} /\ (request'[u] = Nothing <=> calls'[u] = <<>>)
  BY <1>1, <1>2 DEF Inv, TypeOK
<1>4. before' \in Stores \cup {NoStore} /\ begun' \in 0..MaxRequests /\ met' \in BOOLEAN /\ touched' \in BOOLEAN
  BY DEF Left, Inv, TypeOK
<1> QED
  BY <1>3, <1>4 DEF TypeOK

\* A worker at a call that publishes nothing.
LEMMA AtCall == ASSUME Inv, NEW w \in Workers, calls[w] # <<>>, Arg(w).do # "WriteStatus"
                PROVE  /\ Arg(w) \in Todo(request[w], released)
                       /\ Tail(calls[w]) \in Seq(Todo(request[w], released))
                       /\ request[w] \in Requests
<1>1. Coming(request[w], released, calls[w])
  BY DEF Inv, Calls
<1>2. request[w] \in Requests
  BY DEF Inv, Calls, TypeOK
<1> QED
  BY <1>1, <1>2, Ordinary DEF Arg

\* A worker at any call.
LEMMA AtWrite == ASSUME Inv, NEW w \in Workers, calls[w] # <<>>
                 PROVE  \/ /\ Arg(w) \in Todo(request[w], released)
                           /\ Tail(calls[w]) \in Seq(Todo(request[w], released))
                        \/ \E v \in Versions, rest \in Seq(Todo(request[w], released)) :
                             Arg(w) = Publishing(v) /\ Tail(calls[w]) = <<Pointing(v)>> \o rest
<1> DEFINE s == calls[w]
           r == request[w]
<1>1. Coming(r, released, s) /\ s # <<>>
  BY DEF Inv, Calls
<1> HIDE DEF s, r
<1>2. \/ Head(s) \in Todo(r, released) /\ Tail(s) \in Seq(Todo(r, released))
      \/ /\ r.by = "admin"
         /\ \E v \in Versions, rest \in Seq(Todo(r, released)) :
              Head(s) = Publishing(v) /\ Tail(s) = <<Pointing(v)>> \o rest
  BY <1>1, FirstCall
<1> QED
  BY <1>2 DEF Arg, s, r

\* A statement that reads goes on with what the request may do.
LEMMA Reads == ASSUME Inv, NEW w \in Workers, calls[w] # <<>>, Arg(w).do # "WriteStatus",
                      NEW todo \in Seq(Todo(request[w], released)), Go(w, todo)
               PROVE  Inv'
<1>1. todo \o Tail(calls[w]) \in Seq(Todo(request[w], released))
  BY AtCall, ConcatProperties
<1>2. Coming(request[w], released', todo \o Tail(calls[w])) /\ UNCHANGED <<item, releases, released>>
  BY <1>1 DEF Coming, Go
<1>3. Left(w, todo \o Tail(calls[w]))
  BY DEF Go, Continue
<1>4. Calls'
  BY <1>2, <1>3, Moves
<1>5. TypeOK'
  BY <1>2, <1>3, MovesTypes DEF Inv, TypeOK
<1> QED
  BY <1>2, <1>4, <1>5 DEF Inv, Public, LatestWasReleased

\* An error ends a request.
LEMMA Refuses == ASSUME Inv, NEW w \in Workers, calls[w] # <<>>, Refuse(w) PROVE Inv'
<1>1. Coming(request[w], released', <<>>) /\ Left(w, <<>>) /\ UNCHANGED <<item, releases, released>>
  BY EmptySeq DEF Coming, Refuse
<1>2. Calls'
  BY <1>1, Moves
<1>3. TypeOK'
  BY <1>1, MovesTypes DEF Inv, TypeOK
<1> QED
  BY <1>1, <1>2, <1>3 DEF Inv, Public, LatestWasReleased

\* The item's row is written.
LEMMA WritesItem == ASSUME Inv, NEW w \in Workers, calls[w] # <<>>, Arg(w).do # "WriteStatus",
                           NEW row \in Items, row.latest \in released \cup {NoVersion}, WriteItem(w, row)
                    PROVE  Inv'
<1>1. <<>> \o Tail(calls[w]) \in Seq(Todo(request[w], released))
  BY AtCall, EmptySeq, ConcatProperties
<1>2. /\ Coming(request[w], released', <<>> \o Tail(calls[w])) /\ Left(w, <<>> \o Tail(calls[w]))
      /\ item' = row /\ UNCHANGED <<releases, released>>
  BY <1>1 DEF Coming, WriteItem, Continue
<1>3. Calls'
  BY <1>2, Moves
<1>4. TypeOK'
  BY <1>2, MovesTypes DEF Inv, TypeOK
<1> QED
  BY <1>2, <1>3, <1>4 DEF Inv, Public, LatestWasReleased

\* A version's row is written.
LEMMA WritesRelease ==
  ASSUME Inv, NEW w \in Workers, calls[w] # <<>>, NEW v \in Versions,
         NEW row \in [status : Statuses \cup {"absent"}, package : Archives], WriteRelease(w, v, row),
         Coming(request[w], released', Tail(calls[w])),
         Tail(calls[w]) = <<>> \o Tail(calls[w])
  PROVE  Inv'
<1>1. /\ Left(w, Tail(calls[w])) /\ item' = item
      /\ releases' = [releases EXCEPT ![v] = row]
      /\ released' = IF row.status = "published" THEN released \cup {v} ELSE released
  BY DEF WriteRelease, Continue
<1>2. releases' \in Releases /\ released' \subseteq Versions /\ released \subseteq released'
  BY <1>1 DEF Inv, TypeOK, Releases
<1>3. Calls'
  BY <1>1, <1>2, Moves
<1>4. TypeOK'
  BY <1>1, <1>2, MovesTypes DEF Inv, TypeOK
<1>5. Public'
  BY <1>1 DEF Public, Inv, TypeOK, Releases
<1>6. LatestWasReleased'
  BY <1>1, <1>2 DEF LatestWasReleased, Inv
<1> QED
  BY <1>3, <1>4, <1>5, <1>6 DEF Inv

--------------------------------------------------------------------------------
(* Statements that read *)

\* The request of a call that takes its version names one.
LEMMA NamingCall ==
  ASSUME NEW r, NEW rel, NEW c \in Todo(r, rel),
         c.do \in Naming
  PROVE  r.version \in Versions
BY DEF Todo, Fixed, Pointed, Naming

\* Some calls are the administrator's.
LEMMA AdminCall ==
  ASSUME NEW r, NEW rel, NEW c \in Todo(r, rel),
         c.do \in {"Repoint", "DeprecateItem", "Publish"}
  PROVE  r.by = "admin"
BY DEF Todo, Fixed, Pointed, Naming

\* The item is given what the request may give.
LEMMA ItemCall ==
  ASSUME NEW r, NEW rel, NEW c \in Todo(r, rel),
         c.do \in {"SetPluginStatus", "ApplyItemStatus", "FinishStatus", "WriteItemStatus", "ApplyToVersions"}
  PROVE  c.to \in May(r)
BY DEF Todo, Fixed, Pointed, Naming

\* With the version to be preferred.
LEMMA PreferringCall ==
  ASSUME NEW r, NEW rel, NEW c \in Todo(r, rel),
         c.do = "ApplyToVersions"
  PROVE  c.preferred \in Names
BY DEF Todo, Fixed, Pointed, Naming

\* So is a version.
LEMMA VersionCall ==
  ASSUME NEW r, NEW rel, NEW c \in Todo(r, rel),
         c.do \in {"SetVersionStatus", "WriteStatus"}
  PROVE  c.version \in Versions /\ c.to \in MayVersion(r)
BY DEF Todo, Fixed, Pointed, Naming

\* What is to be the latest is a version.
LEMMA LatestCall ==
  ASSUME NEW r, NEW rel, NEW c \in Todo(r, rel),
         c.do = "SetLatestVersion"
  PROVE  c.version \in Versions
BY DEF Todo, Fixed, Pointed, Naming

\* And what is made so has been published.
LEMMA PointingCall ==
  ASSUME NEW r, NEW rel, NEW c \in Todo(r, rel),
         c.do = "PointLatest"
  PROVE  c.version \in rel
BY DEF Todo, Fixed, Pointed, Naming

\* What is shown where nothing better is found.
LEMMA DisplayCall ==
  ASSUME NEW r, NEW rel, NEW c \in Todo(r, rel),
         c.do \in {"Display", "DisplayListed"}
  PROVE  c.version \in Versions /\ c.latest \in rel \cup {NoVersion}
                 /\ c = [do |-> c.do, version |-> c.version, latest |-> c.latest]
BY DEF Todo, Fixed, Pointed, Naming

\* What is shown.
LEMMA ShownCall ==
  ASSUME NEW r, NEW rel, NEW c \in Todo(r, rel),
         c.do = "WriteShown"
  PROVE  /\ c.version \in Versions /\ c.package \in Archives
                 /\ c.latest \in rel \cup {NoVersion}
BY DEF Todo, Fixed, Pointed, Naming

\* The item as an upload writes it.
LEMMA PluginCall ==
  ASSUME NEW r, NEW rel, NEW c \in Todo(r, rel),
         c.do = "WritePlugin"
  PROVE  c.row \in [status : ItemStatuses, version : Versions, package : Archives]
BY DEF Todo, Fixed, Pointed, Naming

\* The version as an upload writes it.
LEMMA ReleaseCall ==
  ASSUME NEW r, NEW rel, NEW c \in Todo(r, rel),
         c.do = "WriteVersion"
  PROVE  c.version \in Versions /\ c.row \in [status : {"draft", "pending"}, package : Archives]
BY DEF Todo, Fixed, Pointed, Naming

\* The item as an edit writes it.
LEMMA MetadataCall ==
  ASSUME NEW r, NEW rel, NEW c \in Todo(r, rel),
         c.do = "WriteMetadata"
  PROVE  c.version \in Versions /\ c.package \in Archives
BY DEF Todo, Fixed, Pointed, Naming

\* Only an administrator's request makes a version published.
LEMMA AtWriteAdmin == ASSUME Inv, NEW w \in Workers, calls[w] # <<>>, Arg(w).do = "WriteStatus",
                             Arg(w).to = "published"
                      PROVE  request[w].by = "admin"
<1> DEFINE s == calls[w]
           r == request[w]
<1>1. Coming(r, released, s) /\ s # <<>> /\ Head(s).do = "WriteStatus" /\ Head(s).to = "published"
  BY DEF Inv, Calls, Arg
<1> HIDE DEF s, r
<1>2. Head(s) \in Todo(r, released) \/ r.by = "admin"
  BY <1>1, FirstCall
<1>3. Head(s) \in Todo(r, released) => Head(s).to \in MayVersion(r)
  BY <1>1, VersionCall
<1> QED
  BY <1>1, <1>2, <1>3 DEF MayVersion, r

\* The administrator may do everything, and some calls anyone may.
LEMMA Allowed == ASSUME NEW r, NEW rel
                 PROVE  /\ Denormalize \in Todo(r, rel)
                        /\ \A t \in May(r) : \A n \in {"SetPluginStatus", "ApplyItemStatus", "FinishStatus",
                                                       "WriteItemStatus"} : DoTo(n, t) \in Todo(r, rel)
                        /\ \A v \in Versions, t \in MayVersion(r) :
                             \A n \in {"SetVersionStatus", "WriteStatus"} :
                               [do |-> n, version |-> v, to |-> t] \in Todo(r, rel)
                        /\ \A v \in rel : Pointing(v) \in Todo(r, rel)
                        /\ \A v \in Versions : DoVersion("SetLatestVersion", v) \in Todo(r, rel)
                        /\ r.version \in Versions => \A n \in Naming : Do(n) \in Todo(r, rel)
                        /\ r.by = "admin" =>
                             \A n \in {"Repoint", "DeprecateItem", "Publish"} : Do(n) \in Todo(r, rel)
                        /\ Do("SubmitItem") \in Todo(r, rel)
BY DEF Todo, Fixed, Pointed, Naming, Denormalize, Do, DoTo, DoVersion, Pointing

\* One call, or two.
LEMMA Few == ASSUME NEW S
             PROVE  /\ <<>> \in Seq(S)
                    /\ \A a \in S : <<a>> \in Seq(S)
                    /\ \A a, b \in S : <<a, b>> \in Seq(S)
BY EmptySeq

\* And one list after another.
LEMMA Joined == ASSUME NEW S PROVE \A a, b \in Seq(S) : a \o b \in Seq(S)
BY ConcatProperties

\* What a developer's or an administrator's request names.
LEMMA Named == ASSUME NEW r \in Requests
               PROVE  /\ r.by \in {"developer", "admin"} /\ r.version \in Names /\ r.package \in Archives
                      /\ r.op \in {"item", "version", "metadata", "item status", "version status", "latest"}
                      /\ r.op # "item status" => r.version \in Versions
                      /\ r.op \in {"metadata", "latest"} => r.by = "admin"
                      /\ r.op = "item" =>
                           r.to \in {"draft"} \cup (IF r.by = "admin" THEN {"review", "published"} ELSE {})
                      /\ r.op = "item status" => r.to \in ItemStatuses
                      /\ r.op = "version status" => r.to \in Statuses
                      /\ r # Nothing
<1>1. \/ r \in Request({"item"}, {"developer"}, Versions, Archives, {"draft"})
      \/ r \in Request({"item"}, {"admin"}, Versions, Archives, {"draft", "review", "published"})
      \/ r \in Request({"version"}, {"developer", "admin"}, Versions, Archives, {"draft"})
      \/ r \in Request({"metadata"}, {"admin"}, Versions, Archives, {"draft"})
      \/ r \in Request({"item status"}, {"developer"}, {NoVersion}, {NoPackage}, {"review"})
      \/ r \in Request({"item status"}, {"admin"}, {NoVersion}, {NoPackage}, ItemStatuses \ {"review"})
      \/ r \in Request({"version status"}, {"developer"}, Versions, {NoPackage}, {"pending"})
      \/ r \in Request({"version status"}, {"admin"}, Versions, {NoPackage}, Statuses \ {"pending"})
      \/ r \in Request({"latest"}, {"admin"}, Versions, {NoPackage}, {"published"})
  BY DEF Requests
<1>2. NoVersion \in Names /\ Versions \subseteq Names /\ NoPackage \in Archives
  BY DEF Names, Archives
<1>3. Nothing.by = "nobody"
  BY DEF Nothing, Marked
<1>4. "review" \in ItemStatuses /\ "pending" \in Statuses
  BY DEF ItemStatuses, Statuses
<1> QED
  BY <1>1, <1>2, <1>3, <1>4 DEF Request

\* An upload of an item.
LEMMA UpsertPluginKeeps == ASSUME Inv, NEW w \in Workers, UpsertPlugin(w) PROVE Inv'
<1> DEFINE q == request[w]
           frozen == q.by # "admin" /\ item.latest # NoVersion
           row == [status |-> IF q.by = "admin" THEN "draft" ELSE item.status,
                   version |-> IF frozen THEN item.version ELSE q.version,
                   package |-> IF frozen THEN item.package ELSE q.package]
           write == [do |-> "WritePlugin", row |-> row]
<1>1. calls[w] # <<>> /\ Arg(w).do = "UpsertPlugin" /\ Go(w, <<write, Do("UpsertVersion")>>)
  BY DEF UpsertPlugin, Now, Arg
<1>2. q \in Requests /\ Arg(w) \in Todo(q, released)
  BY <1>1, AtCall
<1>3. q.version \in Versions /\ q.package \in Archives
  <2>1. q.version \in Versions
    BY <1>1, <1>2, NamingCall DEF Naming
  <2> QED
    BY <1>2, <2>1, Named
<1>4. row \in [status : ItemStatuses, version : Versions, package : Archives]
  BY <1>2, <1>3 DEF Inv, TypeOK, Items, ItemStatuses
<1> HIDE DEF row
<1>5. write \in Todo(q, released)
  BY <1>4 DEF Todo, Fixed
<1>6. Do("UpsertVersion") \in Todo(q, released)
  BY <1>3, Allowed DEF Naming
<1> HIDE DEF write
<1> QED
  BY <1>1, <1>5, <1>6, Few, Reads

\* An upload of a version.
LEMMA UpsertVersionKeeps == ASSUME Inv, NEW w \in Workers, UpsertVersion(w) PROVE Inv'
<1> DEFINE q == request[w]
           old == releases[q.version]
           status == IF old.status = "pending" THEN "pending" ELSE "draft"
           write == [do |-> "WriteVersion", version |-> q.version, row |-> Uploaded(old, q.package, status)]
<1>1. /\ calls[w] # <<>> /\ Arg(w).do = "UpsertVersion"
      /\ Refuse(w) \/ Go(w, <<write, Denormalize>>)
  BY DEF UpsertVersion, Now, Arg
<1>2. q \in Requests /\ Arg(w) \in Todo(q, released)
  BY <1>1, AtCall
<1>3. q.version \in Versions /\ q.package \in Archives
  <2>1. q.version \in Versions
    BY <1>1, <1>2, NamingCall DEF Naming
  <2> QED
    BY <1>2, <2>1, Named
<1>4. Uploaded(old, q.package, status) \in [status : {"draft", "pending"}, package : Archives]
  BY <1>2, <1>3 DEF Uploaded, Inv, TypeOK, Releases
<1>5. write \in Todo(q, released)
  BY <1>2, <1>3, <1>4 DEF Todo, Fixed
<1>6. Denormalize \in Todo(q, released)
  BY Allowed
<1> HIDE DEF write
<1> QED
  BY <1>1, <1>5, <1>6, Few, Reads, Refuses

LEMMA ThreeCalls == ASSUME NEW S, NEW x \in S, NEW y \in S, NEW z \in S, NEW d \in Seq(S)
                    PROVE  (<<x>> \o <<y>> \o <<z>>) \o d = <<x>> \o (<<y>> \o (<<z>> \o d))
<1> DEFINE a == <<x>>
           b == <<y>>
           c == <<z>>
           e == c \o d
<1>1. a \in Seq(S) /\ b \in Seq(S) /\ c \in Seq(S)
  OBVIOUS
<1> HIDE DEF a, b, c
<1>2. e \in Seq(S) /\ a \o b \in Seq(S)
  BY <1>1, Joined
<1>3. ((a \o b) \o c) \o d = (a \o b) \o e
  BY SMTT(30), <1>1, <1>2, ConcatAssociative
<1> HIDE DEF e
<1>4. (a \o b) \o e = a \o (b \o e)
  BY SMTT(30), <1>1, <1>2, ConcatAssociative
<1> QED
  BY <1>3, <1>4 DEF a, b, c, e

\* A version is published and then pointed to: its two calls are not parted.
LEMMA PublishingKeeps ==
  ASSUME Inv, NEW w \in Workers, calls[w] # <<>>, Arg(w).do # "WriteStatus", request[w].by = "admin",
         NEW v \in Versions, Go(w, <<Publishing(v)>> \o <<Pointing(v)>> \o <<Denormalize>>)
  PROVE  Inv'
<1> DEFINE S == Todo(request[w], released) \cup {Publishing(v), Pointing(v)}
           T == Tail(calls[w])
           rest == <<Denormalize>> \o T
           s == (<<Publishing(v)>> \o <<Pointing(v)>> \o <<Denormalize>>) \o T
<1>1. T \in Seq(Todo(request[w], released)) /\ rest \in Seq(Todo(request[w], released))
  BY AtCall, Allowed, Few, Joined
<1>2. T \in Seq(S) /\ \A c \in S : <<c>> \in Seq(S)
  BY <1>1, SeqMonotonic, Few
<1>3. Denormalize \in S /\ Publishing(v) \in S /\ Pointing(v) \in S
  BY Allowed
<1> HIDE DEF S, T
<1>4. s = <<Publishing(v)>> \o (<<Pointing(v)>> \o rest)
  BY <1>2, <1>3, ThreeCalls
<1>5. Coming(request[w], released', s) /\ UNCHANGED <<item, releases, released>>
  BY <1>1, <1>4 DEF Coming, Go
<1>6. Left(w, s)
  BY DEF Go, Continue, T
<1> HIDE DEF s
<1>7. Calls'
  BY <1>5, <1>6, Moves
<1>8. TypeOK'
  BY <1>5, <1>6, MovesTypes DEF Inv, TypeOK
<1> QED
  BY <1>5, <1>7, <1>8 DEF Inv, Public, LatestWasReleased

\* A change of a version's status.
LEMMA SetVersionStatusKeeps == ASSUME Inv, NEW w \in Workers, SetVersionStatus(w) PROVE Inv'
<1> DEFINE v == Arg(w).version
           to == Arg(w).to
           r == request[w]
           write == [do |-> "WriteStatus", version |-> v, to |-> to]
           moves == CASE to = "published" -> <<DoVersion("PointLatest", v)>>
                      [] to = "deprecated" -> <<Do("Repoint")>>
                      [] OTHER -> <<>>
<1>1. /\ calls[w] # <<>> /\ Arg(w).do = "SetVersionStatus"
      /\ Refuse(w) \/ Go(w, <<write>> \o moves \o <<Denormalize>>)
  BY DEF SetVersionStatus, Now, Arg
<1>2. Arg(w) \in Todo(r, released)
  BY <1>1, AtCall
<1>3. v \in Versions /\ to \in MayVersion(r)
  BY <1>1, <1>2, VersionCall
<1>4. write \in Todo(r, released) /\ Denormalize \in Todo(r, released)
  BY <1>3, Allowed
<1> DEFINE S == Seq(Todo(r, released))
<1>5. <<write>> \in S /\ <<Denormalize>> \in S /\ <<>> \in S
  BY <1>4, Few
<1>6. CASE Refuse(w)
  BY <1>1, <1>6, Refuses
<1>7. CASE to = "published" /\ Go(w, <<write>> \o moves \o <<Denormalize>>)
  <2>1. r.by = "admin"
    BY <1>3, <1>7 DEF MayVersion
  <2>2. write = Publishing(v) /\ moves = <<Pointing(v)>>
    BY <1>7 DEF Publishing, Pointing
  <2> HIDE DEF write, moves
  <2> QED
    BY <1>1, <1>3, <1>7, <2>1, <2>2, PublishingKeeps
<1>8. CASE to # "published" /\ Go(w, <<write>> \o moves \o <<Denormalize>>)
  <2>1. moves \in S
    <3>1. CASE to = "deprecated"
      <4>1. Do("Repoint") \in Todo(r, released)
        BY <1>3, <3>1, Allowed DEF MayVersion
      <4> QED
        BY <3>1, <4>1, Few
    <3>2. CASE to # "deprecated"
      BY <1>5, <1>8, <3>2
    <3> QED
      BY <3>1, <3>2
  <2> HIDE DEF write, moves
  <2>2. <<write>> \o moves \o <<Denormalize>> \in S
    BY <1>5, <2>1, Joined
  <2> QED
    BY <1>1, <1>8, <2>2, Reads
<1> QED
  BY <1>1, <1>6, <1>7, <1>8

\* A change of the latest version, to one that is published.
LEMMA SetLatestVersionKeeps == ASSUME Inv, NEW w \in Workers, SetLatestVersion(w) PROVE Inv'
<1> DEFINE v == Arg(w).version
<1>1. /\ calls[w] # <<>> /\ Arg(w).do = "SetLatestVersion"
      /\ \/ Refuse(w)
         \/ releases[v].status = "published" /\ Go(w, <<Pointing(v), Denormalize>>)
  BY DEF SetLatestVersion, Now, Arg, Pointing
<1>2. v \in Versions
  BY <1>1, AtCall, LatestCall
<1>3. releases[v].status = "published" => Pointing(v) \in Todo(request[w], released)
  BY <1>2, Allowed DEF Inv, Public
<1>4. Denormalize \in Todo(request[w], released)
  BY Allowed
<1> QED
  BY <1>1, <1>3, <1>4, Few, Reads, Refuses

\* What the item shows is looked for.
LEMMA DenormalizeKeeps == ASSUME Inv, NEW w \in Workers, DenormalizeLatest(w) PROVE Inv'
<1> DEFINE c == [do |-> "Display", version |-> item.version, latest |-> item.latest]
<1>1. calls[w] # <<>> /\ Arg(w).do = "Denormalize" /\ Go(w, <<c>>)
  BY DEF DenormalizeLatest, Now, Arg
<1>2. c \in Todo(request[w], released)
  BY DEF Todo, Pointed, Inv, TypeOK, Items, LatestWasReleased
<1> HIDE DEF c
<1> QED
  BY <1>1, <1>2, Few, Reads

\* What it shows has been published if it is made the latest.
LEMMA ShowAllowed == ASSUME Inv, NEW r, NEW v \in Versions, NEW latest \in released \cup {NoVersion}
                     PROVE  Show(v, latest) \in Todo(r, released)
<1>1. releases[v].package \in Archives
  BY DEF Inv, TypeOK, Releases
<1>2. (IF releases[v].status = "published" THEN v ELSE latest) \in released \cup {NoVersion}
  BY DEF Inv, Public
<1> QED
  BY <1>1, <1>2 DEF Show, Todo, Pointed

\* The latest version is shown.
LEMMA DisplayVersionKeeps == ASSUME Inv, NEW w \in Workers, DisplayVersion(w) PROVE Inv'
<1> DEFINE latest == Arg(w).latest
           next == [Arg(w) EXCEPT !.do = "DisplayListed"]
<1>1. calls[w] # <<>> /\ Arg(w).do = "Display"
  BY DEF DisplayVersion, Now, Arg
<1>2. Arg(w) \in Todo(request[w], released)
  BY <1>1, AtCall
<1>3. /\ Arg(w).version \in Versions /\ latest \in released \cup {NoVersion}
      /\ Arg(w) = [do |-> Arg(w).do, version |-> Arg(w).version, latest |-> latest]
  BY <1>1, <1>2, DisplayCall
<1>4. CASE latest \in With(releases, {"published"})
  <2>1. latest \in Versions /\ Go(w, <<Show(latest, latest)>>)
    BY <1>4 DEF DisplayVersion, With
  <2>2. Show(latest, latest) \in Todo(request[w], released)
    BY <1>3, <2>1, ShowAllowed
  <2> QED
    BY <1>1, <2>1, <2>2, Few, Reads
<1>5. CASE latest \notin With(releases, {"published"})
  <2>1. Go(w, <<next>>)
    BY <1>5 DEF DisplayVersion
  <2>2. next = [do |-> "DisplayListed", version |-> Arg(w).version, latest |-> latest]
    BY <1>3
  <2>3. next \in Todo(request[w], released)
    BY <1>3, <2>2 DEF Todo, Pointed
  <2> HIDE DEF next
  <2> QED
    BY <1>1, <2>1, <2>3, Few, Reads
<1> QED
  BY <1>4, <1>5

\* Or another one.
LEMMA DisplayListedKeeps == ASSUME Inv, NEW w \in Workers, DisplayListed(w) PROVE Inv'
<1>1. calls[w] # <<>> /\ Arg(w).do = "DisplayListed"
  BY DEF DisplayListed, Now, Arg
<1>2. Arg(w).version \in Versions /\ Arg(w).latest \in released \cup {NoVersion}
  BY <1>1, AtCall, DisplayCall
<1>3. PICK v \in Versions : Go(w, <<Show(v, Arg(w).latest)>>)
  BY DEF DisplayListed, Preferring, With
<1> QED
  BY <1>1, <1>2, <1>3, ShowAllowed, Few, Reads

\* A version out of use is replaced by a published one.
LEMMA RepointKeeps == ASSUME Inv, NEW w \in Workers, Repoint(w) PROVE Inv'
<1>1. calls[w] # <<>> /\ Arg(w).do = "Repoint"
  BY DEF Repoint, Now, Arg
<1>2. request[w].by = "admin"
  BY <1>1, AtCall, AdminCall
<1>3. \/ Go(w, <<Do("DeprecateItem")>>)
      \/ \E v \in Versions : releases[v].status = "published" /\ Go(w, <<Pointing(v)>>)
  BY DEF Repoint, With, Pointing
<1>4. Do("DeprecateItem") \in Todo(request[w], released)
  BY <1>2, Allowed
<1>5. \A v \in Versions : releases[v].status = "published" => Pointing(v) \in Todo(request[w], released)
  BY Allowed DEF Inv, Public
<1> QED
  BY <1>1, <1>3, <1>4, <1>5, Few, Reads

\* Or the item goes too.
LEMMA DeprecateItemKeeps == ASSUME Inv, NEW w \in Workers, DeprecateItem(w) PROVE Inv'
<1>1. calls[w] # <<>> /\ Arg(w).do = "DeprecateItem"
  BY DEF DeprecateItem, Now, Arg
<1>2. request[w].by = "admin"
  BY <1>1, AtCall, AdminCall
<1>3. Go(w, <<DoTo("SetPluginStatus", "deprecated")>>) \/ Go(w, <<>>)
  BY DEF DeprecateItem
<1>4. DoTo("SetPluginStatus", "deprecated") \in Todo(request[w], released)
  BY <1>2, Allowed DEF May, ItemStatuses
<1> QED
  BY <1>1, <1>3, <1>4, Few, Reads

\* The item is to be given a status.
LEMMA SetPluginStatusKeeps == ASSUME Inv, NEW w \in Workers, SetPluginStatus(w) PROVE Inv'
<1> DEFINE to == Arg(w).to
<1>1. /\ calls[w] # <<>> /\ Arg(w).do = "SetPluginStatus"
      /\ Refuse(w) \/ Go(w, <<DoTo("ApplyItemStatus", to), DoTo("FinishStatus", to)>>)
  BY DEF SetPluginStatus, Now, Arg
<1>2. to \in May(request[w])
  BY <1>1, AtCall, ItemCall
<1>3. DoTo("ApplyItemStatus", to) \in Todo(request[w], released)
      /\ DoTo("FinishStatus", to) \in Todo(request[w], released)
  BY <1>2, Allowed
<1> QED
  BY <1>1, <1>3, Few, Reads, Refuses

\* Its versions go along.
LEMMA ApplyItemStatusKeeps == ASSUME Inv, NEW w \in Workers, ApplyItemStatus(w) PROVE Inv'
<1> DEFINE c == [do |-> "ApplyToVersions", to |-> Arg(w).to, preferred |-> Preferred(item)]
<1>1. calls[w] # <<>> /\ Arg(w).do = "ApplyItemStatus" /\ Go(w, <<c>>)
  BY DEF ApplyItemStatus, Now, Arg
<1>2. Arg(w).to \in May(request[w])
  BY <1>1, AtCall, ItemCall
<1>3. Preferred(item) \in Names
  BY DEF Preferred, Inv, TypeOK, Items, Names
<1>4. c \in Todo(request[w], released)
  BY <1>2, <1>3 DEF Todo, Fixed
<1> HIDE DEF c
<1> QED
  BY <1>1, <1>4, Few, Reads

\* What a developer submits is submitted, not published: the version taken along is there.
LEMMA SubmittedIsThere == ASSUME NEW preferred, NEW v \in Picked(releases, preferred, "review")
                          PROVE  v \in Versions /\ releases[v].status \in Statuses
<1>1. PICK k \in DOMAIN Wanted("review") :
        v \in Preferring(preferred, With(releases, Wanted("review")[k]))
  BY DEF Picked
<1>2. Wanted("review") = <<{"draft"}, Statuses>>
  BY DEF Wanted
<1>3. Wanted("review")[k] \subseteq Statuses
  BY <1>1, <1>2 DEF Statuses
<1> QED
  BY <1>1, <1>3 DEF Preferring, With

LEMMA ApplyToVersionsKeeps == ASSUME Inv, NEW w \in Workers, ApplyToVersions(w) PROVE Inv'
<1> DEFINE to == Arg(w).to
           r == request[w]
           picked == Picked(releases, Arg(w).preferred, to)
           set(v, new) == <<[do |-> "SetVersionStatus", version |-> v, to |-> new]>>
           status(v) == releases[v].status
           taken(v) == CASE to = "review" /\ status(v) \in {"published", "pending"} -> <<>>
                         [] to = "review" /\ status(v) \in {"draft", "deprecated"} -> set(v, "pending")
                         [] to = "rejected" -> set(v, "draft")
                         [] to # "review" /\ status(v) = "published" -> <<DoVersion("PointLatest", v)>>
                         [] OTHER -> set(v, "published")
           S == Seq(Todo(r, released))
<1>1. /\ calls[w] # <<>> /\ Arg(w).do = "ApplyToVersions"
      /\ \/ \E v \in picked : Go(w, taken(v) \o <<Denormalize>>)
         \/ Refuse(w)
         \/ Go(w, <<Denormalize>>)
  BY DEF ApplyToVersions, Now, Arg
<1>2. to \in May(r)
  BY <1>1, AtCall, ItemCall
<1>3. \A v \in picked : v \in Versions
  BY DEF Picked
<1>4. <<Denormalize>> \in S /\ <<>> \in S
  BY Allowed, Few
<1>5. \A v \in Versions : \A new \in MayVersion(r) : set(v, new) \in S
  BY Allowed, Few
<1>6. ASSUME NEW v \in picked PROVE taken(v) \in S
  <2>1. CASE to = "review"
    <3>1. status(v) \in Statuses
      BY <2>1, <1>6, SubmittedIsThere
    <3>2. taken(v) = <<>> \/ taken(v) = set(v, "pending")
      BY <2>1, <3>1 DEF Statuses
    <3>3. "pending" \in MayVersion(r)
      BY DEF MayVersion, Statuses
    <3> QED
      BY <1>3, <1>4, <1>5, <1>6, <3>2, <3>3
  <2>2. CASE to # "review"
    <3>1. r.by = "admin"
      BY <1>2, <2>2 DEF May
    <3>2. "draft" \in MayVersion(r) /\ "published" \in MayVersion(r)
      BY <3>1 DEF MayVersion, Statuses
    <3>3. status(v) = "published" => <<Pointing(v)>> \in S
      BY <1>3, <1>6, Allowed, Few DEF Inv, Public
    <3>4. \/ taken(v) = set(v, "draft") \/ taken(v) = set(v, "published")
          \/ status(v) = "published" /\ taken(v) = <<Pointing(v)>>
      BY <2>2 DEF Pointing
    <3> QED
      BY <1>3, <1>5, <1>6, <3>2, <3>3, <3>4
  <2> QED
    BY <2>1, <2>2
<1>7. \A v \in picked : taken(v) \o <<Denormalize>> \in S
  BY <1>4, <1>6, Joined
<1> HIDE DEF taken, picked
<1> QED
  BY <1>1, <1>4, <1>7, Reads, Refuses

\* The last look before the item gets its status.
LEMMA FinishStatusKeeps == ASSUME Inv, NEW w \in Workers, FinishStatus(w) PROVE Inv'
<1>1. /\ calls[w] # <<>> /\ Arg(w).do = "FinishStatus"
      /\ Refuse(w) \/ Go(w, <<DoTo("WriteItemStatus", Arg(w).to)>>)
  BY DEF FinishStatus, Now, Arg
<1>2. Arg(w).to \in May(request[w])
  BY <1>1, AtCall, ItemCall
<1>3. DoTo("WriteItemStatus", Arg(w).to) \in Todo(request[w], released)
  BY <1>2, Allowed
<1> QED
  BY <1>1, <1>3, Few, Reads, Refuses

\* An upload of the administrator's goes on to the shelf.
LEMMA PublishKeeps == ASSUME Inv, NEW w \in Workers, Publish(w) PROVE Inv'
<1> DEFINE p == DoTo("SetPluginStatus", "published")
           a == DoTo("SetPluginStatus", "approved")
<1>1. calls[w] # <<>> /\ Arg(w).do = "Publish" /\ (Go(w, <<>>) \/ Go(w, <<p>>) \/ Go(w, <<a, p>>))
  BY DEF Publish, Now, Arg
<1>2. request[w].by = "admin"
  BY <1>1, AtCall, AdminCall
<1>3. p \in Todo(request[w], released) /\ a \in Todo(request[w], released)
  BY <1>2, Allowed DEF May, ItemStatuses
<1> HIDE DEF p, a
<1> QED
  BY <1>1, <1>3, Few, Reads

\* The row is edited.
LEMMA UpdatePluginMetadataKeeps == ASSUME Inv, NEW w \in Workers, UpdatePluginMetadata(w) PROVE Inv'
<1> DEFINE q == request[w]
           package == IF Ready(q.package) THEN q.package ELSE item.package
           c == [do |-> "WriteMetadata", version |-> q.version, package |-> package]
<1>1. calls[w] # <<>> /\ Arg(w).do = "UpdatePluginMetadata" /\ (Refuse(w) \/ Go(w, <<c>>))
  BY DEF UpdatePluginMetadata, Now, Arg
<1>2. q \in Requests /\ q.version \in Versions
  BY <1>1, AtCall, NamingCall DEF Naming
<1>3. package \in Archives
  BY <1>2, Named DEF Inv, TypeOK, Items
<1>4. c \in Todo(q, released)
  BY <1>2, <1>3 DEF Todo, Fixed
<1> HIDE DEF c
<1> QED
  BY <1>1, <1>4, Few, Reads, Refuses

\* A developer submits.
LEMMA SubmitItemKeeps == ASSUME Inv, NEW w \in Workers, SubmitItem(w) PROVE Inv'
<1>1. /\ calls[w] # <<>> /\ Arg(w).do = "SubmitItem"
      /\ Refuse(w) \/ Go(w, <<DoTo("SetPluginStatus", "review")>>)
  BY DEF SubmitItem, Now, Arg
<1>2. DoTo("SetPluginStatus", "review") \in Todo(request[w], released)
  BY Allowed DEF May, ItemStatuses
<1> QED
  BY <1>1, <1>2, Few, Reads, Refuses

LEMMA SubmitVersionKeeps == ASSUME Inv, NEW w \in Workers, SubmitVersion(w) PROVE Inv'
<1> DEFINE v == request[w].version
           c == [do |-> "SetVersionStatus", version |-> v, to |-> "pending"]
<1>1. calls[w] # <<>> /\ Arg(w).do = "SubmitVersion" /\ (Refuse(w) \/ Go(w, <<c>>))
  BY DEF SubmitVersion, Now, Arg
<1>2. v \in Versions
  BY <1>1, AtCall, NamingCall DEF Naming
<1>3. c \in Todo(request[w], released)
  BY <1>2, Allowed DEF MayVersion, Statuses
<1> HIDE DEF c
<1> QED
  BY <1>1, <1>3, Few, Reads, Refuses

--------------------------------------------------------------------------------
(* Statements that write *)

LEMMA WritePluginKeeps == ASSUME Inv, NEW w \in Workers, WritePlugin(w) PROVE Inv'
<1> DEFINE c == Arg(w).row
           row == [item EXCEPT !.status = c.status, !.version = c.version, !.package = c.package]
<1>1. calls[w] # <<>> /\ Arg(w).do = "WritePlugin" /\ WriteItem(w, row)
  BY DEF WritePlugin, Now, Arg
<1>2. c \in [status : ItemStatuses, version : Versions, package : Archives]
  BY <1>1, AtCall, PluginCall
<1>3. row \in Items /\ row.latest \in released \cup {NoVersion}
  BY <1>2 DEF Inv, TypeOK, Items, LatestWasReleased
<1> HIDE DEF row
<1> QED
  BY <1>1, <1>3, WritesItem

LEMMA PointLatestKeeps == ASSUME Inv, NEW w \in Workers, PointLatest(w) PROVE Inv'
<1> DEFINE row == [item EXCEPT !.latest = Arg(w).version]
<1>1. calls[w] # <<>> /\ Arg(w).do = "PointLatest" /\ WriteItem(w, row)
  BY DEF PointLatest, Now, Arg
<1>2. Arg(w).version \in released
  BY <1>1, AtCall, PointingCall
<1>3. row \in Items /\ row.latest \in released \cup {NoVersion}
  BY <1>2 DEF Inv, TypeOK, Items, Names
<1> HIDE DEF row
<1> QED
  BY <1>1, <1>3, WritesItem

LEMMA WriteShownKeeps == ASSUME Inv, NEW w \in Workers, WriteShown(w) PROVE Inv'
<1> DEFINE row == [item EXCEPT !.version = Arg(w).version, !.package = Arg(w).package,
                               !.latest = Arg(w).latest]
<1>1. calls[w] # <<>> /\ Arg(w).do = "WriteShown" /\ WriteItem(w, row)
  BY DEF WriteShown, Now, Arg
<1>2. /\ Arg(w).version \in Versions /\ Arg(w).package \in Archives
      /\ Arg(w).latest \in released \cup {NoVersion}
  BY <1>1, AtCall, ShownCall
<1>3. row \in Items /\ row.latest \in released \cup {NoVersion}
  BY <1>2 DEF Inv, TypeOK, Items, Names
<1> HIDE DEF row
<1> QED
  BY <1>1, <1>3, WritesItem

LEMMA WriteItemStatusKeeps == ASSUME Inv, NEW w \in Workers, WriteItemStatus(w) PROVE Inv'
<1> DEFINE row == [item EXCEPT !.status = Arg(w).to]
<1>1. calls[w] # <<>> /\ Arg(w).do = "WriteItemStatus" /\ WriteItem(w, row)
  BY DEF WriteItemStatus, Now, Arg
<1>2. Arg(w).to \in May(request[w])
  BY <1>1, AtCall, ItemCall
<1>3. Arg(w).to \in ItemStatuses
  BY <1>2 DEF May, ItemStatuses
<1>4. row \in Items /\ row.latest \in released \cup {NoVersion}
  BY <1>3 DEF Inv, TypeOK, Items, LatestWasReleased
<1> HIDE DEF row
<1> QED
  BY <1>1, <1>4, WritesItem

LEMMA WriteMetadataKeeps == ASSUME Inv, NEW w \in Workers, WriteMetadata(w) PROVE Inv'
<1> DEFINE row == [item EXCEPT !.version = Arg(w).version, !.package = Arg(w).package]
<1>1. calls[w] # <<>> /\ Arg(w).do = "WriteMetadata" /\ WriteItem(w, row)
  BY DEF WriteMetadata, Now, Arg
<1>2. Arg(w).version \in Versions /\ Arg(w).package \in Archives
  BY <1>1, AtCall, MetadataCall
<1>3. row \in Items /\ row.latest \in released \cup {NoVersion}
  BY <1>2 DEF Inv, TypeOK, Items, LatestWasReleased
<1> HIDE DEF row
<1> QED
  BY <1>1, <1>3, WritesItem

\* An upload publishes no version.
LEMMA WriteVersionKeeps == ASSUME Inv, NEW w \in Workers, WriteVersion(w) PROVE Inv'
<1> DEFINE v == Arg(w).version
           row == Arg(w).row
           T == Tail(calls[w])
<1>1. calls[w] # <<>> /\ Arg(w).do = "WriteVersion" /\ WriteRelease(w, v, row)
  BY DEF WriteVersion, Now, Arg
<1>2. v \in Versions /\ row \in [status : {"draft", "pending"}, package : Archives]
  BY <1>1, AtCall, ReleaseCall
<1>3. released' = released
  BY <1>1, <1>2 DEF WriteRelease
<1>4. T \in Seq(Todo(request[w], released))
  BY <1>1, AtCall
<1>5. Coming(request[w], released', T) /\ T = <<>> \o T
  BY <1>3, <1>4, ConcatEmptySeq DEF Coming
<1>6. row \in [status : Statuses \cup {"absent"}, package : Archives]
  BY <1>2 DEF Statuses
<1> QED
  BY <1>1, <1>2, <1>5, <1>6, WritesRelease

\* A change of status may publish one, and then the next call may point to it.
LEMMA WriteStatusKeeps == ASSUME Inv, NEW w \in Workers, WriteStatus(w) PROVE Inv'
<1> DEFINE v == Arg(w).version
           to == Arg(w).to
           row == [releases[v] EXCEPT !.status = to]
           r == request[w]
           T == Tail(calls[w])
<1>1. calls[w] # <<>> /\ Arg(w).do = "WriteStatus" /\ WriteRelease(w, v, row)
  BY DEF WriteStatus, Now, Arg
<1>2. Coming(r, released, calls[w])
  BY DEF Inv, Calls
<1>3. released \subseteq released'
  BY <1>1 DEF WriteRelease
<1>4. CASE Arg(w) \in Todo(r, released) /\ T \in Seq(Todo(r, released))
  <2>1. v \in Versions /\ to \in Statuses
    BY <1>1, <1>4, VersionCall DEF MayVersion, Statuses
  <2>2. row \in [status : Statuses \cup {"absent"}, package : Archives]
    BY <2>1 DEF Inv, TypeOK, Releases
  <2>3. Coming(r, released, T) /\ T = <<>> \o T
    BY <1>4, ConcatEmptySeq DEF Coming
  <2>4. Coming(r, released', T)
    BY <1>3, <2>3, MoreReleased
  <2> HIDE DEF row, v, T
  <2> QED
    BY <1>1, <2>1, <2>2, <2>3, <2>4, WritesRelease DEF T
<1>5. ASSUME NEW x \in Versions, NEW rest \in Seq(Todo(r, released)),
             Arg(w) = Publishing(x), T = <<Pointing(x)>> \o rest
      PROVE  Inv'
  <2>1. v = x /\ to = "published" /\ v \in Versions
    BY <1>5 DEF Publishing
  <2>2. row \in [status : Statuses \cup {"absent"}, package : Archives] /\ row.status = "published"
    BY <2>1 DEF Inv, TypeOK, Releases, Statuses
  <2>3. x \in released'
    BY <1>1, <2>1, <2>2 DEF WriteRelease
  <2>4. rest \in Seq(Todo(r, released'))
    <3>1. Todo(r, released) \subseteq Todo(r, released')
      BY <1>3, MoreTodo
    <3> QED
      BY <3>1, SeqMonotonic
  <2>5. <<Pointing(x)>> \in Seq(Todo(r, released'))
    BY <2>3, Allowed, Few
  <2>6. T \in Seq(Todo(r, released'))
    BY <1>5, <2>4, <2>5, Joined
  <2>7. Coming(r, released', T) /\ T = <<>> \o T
    BY <2>6, ConcatEmptySeq DEF Coming
  <2> HIDE DEF row, v, T
  <2> QED
    BY <1>1, <2>1, <2>2, <2>7, WritesRelease DEF T
<1>6. \/ Arg(w) \in Todo(r, released) /\ T \in Seq(Todo(r, released))
      \/ \E x \in Versions, rest \in Seq(Todo(r, released)) :
           Arg(w) = Publishing(x) /\ T = <<Pointing(x)>> \o rest
  BY <1>1, AtWrite
<1> QED
  BY <1>4, <1>5, <1>6

--------------------------------------------------------------------------------
(* Requests *)

\* A handler calls what its request may.
LEMMA HandlerMay == ASSUME NEW q \in Requests, NEW rel
                    PROVE  Handler(q) \in Seq(Todo(q, rel)) /\ Handler(q) # <<>>
<1> DEFINE S == Todo(q, rel)
<1>1. CASE q.op = "item"
  <2>1. Do("UpsertPlugin") \in S
    BY <1>1, Named, Allowed DEF Naming
  <2>2. q.to \in {"review", "published"} => q.by = "admin"
    BY <1>1, Named
  <2>3. q.to = "published" => Do("Publish") \in S
    BY <2>2, Allowed
  <2>4. DoTo("SetPluginStatus", "review") \in S
    BY Allowed DEF May, ItemStatuses
  <2>5. PICK more : /\ Handler(q) = <<Do("UpsertPlugin")>> \o more
                    /\ \/ q.to = "published" /\ more = <<Do("Publish")>>
                       \/ more = <<DoTo("SetPluginStatus", "review")>>
                       \/ more = <<>>
    BY <1>1 DEF Handler
  <2> HIDE DEF S
  <2>6. more \in Seq(S) /\ <<Do("UpsertPlugin")>> \in Seq(S)
    BY <2>1, <2>3, <2>4, <2>5, Few
  <2>7. Handler(q) \in Seq(S) /\ Len(Handler(q)) = 1 + Len(more) /\ Len(more) \in Nat
    BY <2>5, <2>6, ConcatProperties, LenProperties
  <2> QED
    BY <2>7 DEF S
<1>2. CASE q.op = "version"
  <2>1. Handler(q) = <<Do("UpsertVersion")>>
    BY <1>2 DEF Handler
  <2>2. Do("UpsertVersion") \in S
    BY <1>2, Named, Allowed DEF Naming
  <2> QED
    BY <2>1, <2>2, Few
<1>3. CASE q.op = "metadata"
  <2>1. Handler(q) = <<Do("UpdatePluginMetadata")>>
    BY <1>3 DEF Handler
  <2>2. Do("UpdatePluginMetadata") \in S
    BY <1>3, Named, Allowed DEF Naming
  <2> QED
    BY <2>1, <2>2, Few
<1>4. CASE q.op = "item status" /\ q.by = "developer"
  <2>1. Handler(q) = <<Do("SubmitItem")>>
    BY <1>4 DEF Handler
  <2>2. Do("SubmitItem") \in S
    BY Allowed
  <2> QED
    BY <2>1, <2>2, Few
<1>5. CASE q.op = "item status" /\ q.by = "admin"
  <2>1. Handler(q) = <<DoTo("SetPluginStatus", q.to)>>
    BY <1>5 DEF Handler
  <2>2. DoTo("SetPluginStatus", q.to) \in S
    BY <1>5, Named, Allowed DEF May
  <2> QED
    BY <2>1, <2>2, Few
<1>6. CASE q.op = "version status" /\ q.by = "developer"
  <2>1. Handler(q) = <<Do("SubmitVersion")>>
    BY <1>6 DEF Handler
  <2>2. Do("SubmitVersion") \in S
    BY <1>6, Named, Allowed DEF Naming
  <2> QED
    BY <2>1, <2>2, Few
<1>7. CASE q.op = "version status" /\ q.by = "admin"
  <2>1. Handler(q) = <<[do |-> "SetVersionStatus", version |-> q.version, to |-> q.to]>>
    BY <1>7 DEF Handler
  <2>2. [do |-> "SetVersionStatus", version |-> q.version, to |-> q.to] \in S
    BY <1>7, Named, Allowed DEF MayVersion
  <2> QED
    BY <2>1, <2>2, Few
<1>8. CASE q.op = "latest"
  <2>1. Handler(q) = <<DoVersion("SetLatestVersion", q.version)>>
    BY <1>8 DEF Handler
  <2>2. DoVersion("SetLatestVersion", q.version) \in S
    BY <1>8, Named, Allowed
  <2> QED
    BY <2>1, <2>2, Few
<1> QED
  BY <1>1, <1>2, <1>3, <1>4, <1>5, <1>6, <1>7, <1>8, Named

LEMMA BeginKeeps == ASSUME Inv, NEW w \in Workers, NEW q \in Asked, Begin(w, q) PROVE Inv'
<1>1. q \in Requests /\ q # Nothing
  BY ConstantsAssumption, Named
<1>2. Handler(q) \in Seq(Todo(q, released)) /\ Handler(q) # <<>>
  BY <1>1, HandlerMay
<1>3. /\ calls' = [u \in Workers |-> IF u = w THEN Handler(q) ELSE calls[u]]
      /\ request' = [u \in Workers |-> IF u = w THEN q ELSE request[u]]
      /\ UNCHANGED <<item, releases, released>>
  BY DEF Begin, Inv, Calls
<1>4. Calls'
  <2>1. \A u \in Workers : request'[u] \in Requests \cup {Nothing}
    BY <1>1, <1>3 DEF Inv, Calls
  <2>2. \A u \in Workers : Coming(request'[u], released', calls'[u])
    BY <1>2, <1>3 DEF Inv, Calls, Coming
  <2> QED
    BY <1>3, <2>1, <2>2 DEF Calls
<1>5. TypeOK'
  <2>1. begun' \in 0..MaxRequests
    BY ConstantsAssumption DEF Begin, Inv, TypeOK
  <2>2. before' \in Stores \cup {NoStore}
    BY DEF Begin, Inv, TypeOK, Store, Stores
  <2>3. met' \in BOOLEAN /\ touched' \in BOOLEAN
    BY DEF Begin, Inv, TypeOK, Touches
  <2>4. \A u \in Workers : request'[u] \in Asked \cup {Nothing} /\ (request'[u] = Nothing <=> calls'[u] = <<>>)
    BY <1>1, <1>2, <1>3 DEF Inv, TypeOK
  <2> QED
    BY <1>3, <2>1, <2>2, <2>3, <2>4 DEF Inv, TypeOK
<1> QED
  BY <1>3, <1>4, <1>5 DEF Inv, Public, LatestWasReleased

\* A request is broken off.
LEMMA BreakOffKeeps == ASSUME Inv, NEW w \in Workers, BreakOff(w) PROVE Inv'
<1>1. /\ calls' = [u \in Workers |-> IF u = w THEN <<>> ELSE calls[u]]
      /\ request' = [u \in Workers |-> IF u = w THEN Nothing ELSE request[u]]
      /\ UNCHANGED <<item, releases, released>>
  BY DEF BreakOff, Inv, Calls
<1>2. Calls'
  <2>1. \A u \in Workers : request'[u] \in Requests \cup {Nothing}
    BY <1>1 DEF Inv, Calls
  <2>2. \A u \in Workers : Coming(request'[u], released', calls'[u])
    BY <1>1, Few DEF Inv, Calls, Coming
  <2> QED
    BY <1>1, <2>1, <2>2 DEF Calls
<1>3. TypeOK'
  <2>1. begun' \in 0..MaxRequests /\ before' \in Stores \cup {NoStore}
        /\ met' \in BOOLEAN /\ touched' \in BOOLEAN
    BY DEF BreakOff, Inv, TypeOK
  <2>2. \A u \in Workers : request'[u] \in Asked \cup {Nothing} /\ (request'[u] = Nothing <=> calls'[u] = <<>>)
    BY <1>1 DEF Inv, TypeOK
  <2> QED
    BY <1>1, <2>1, <2>2 DEF Inv, TypeOK
<1> QED
  BY <1>1, <1>2, <1>3 DEF Inv, Public, LatestWasReleased

--------------------------------------------------------------------------------
(* The invariant *)

LEMMA InitInv == Init => Inv
<1> SUFFICES ASSUME Init PROVE Inv
  OBVIOUS
<1>1. PICK s \in Starts : item = s.item /\ releases = s.releases
  BY DEF Init
<1>2. PICK v \in Versions, p \in Archives, status \in {"draft", "published"}, latest \in Names :
        s = Drafted(v, p, status, latest) /\ latest = (IF status = "published" THEN v ELSE NoVersion)
  BY <1>1 DEF Starts, Names, Archives
<1>3. item = [status |-> status, version |-> v, package |-> p, latest |-> latest]
  BY <1>1, <1>2 DEF Drafted
<1>4. releases = [u \in Versions |-> IF u = v THEN [status |-> status, package |-> p]
                                     ELSE [status |-> "absent", package |-> NoPackage]]
  BY <1>1, <1>2 DEF Drafted
<1>5. item \in Items
  BY <1>2, <1>3 DEF Items, ItemStatuses
<1>6. releases \in Releases
  BY <1>2, <1>4 DEF Releases, Statuses, Archives
<1>7. released = {u \in Versions : releases[u].status = "published"}
  BY DEF Init
<1>8. LatestWasReleased
  BY <1>2, <1>3, <1>4, <1>7 DEF LatestWasReleased
<1>9. TypeOK
  <2>1. begun \in 0..MaxRequests
    BY ConstantsAssumption DEF Init
  <2>2. released \subseteq Versions
    BY <1>7
  <2>3. \A w \in Workers : request[w] = Nothing /\ calls[w] = <<>>
    BY DEF Init
  <2>4. before \in Stores \cup {NoStore} /\ met \in BOOLEAN /\ touched \in BOOLEAN
    BY DEF Init
  <2> QED
    BY <1>5, <1>6, <2>1, <2>2, <2>3, <2>4, Zenon DEF TypeOK
<1>10. Calls
  BY Few DEF Init, Calls, Coming
<1> QED
  BY <1>7, <1>8, <1>9, <1>10 DEF Inv, Public

LEMMA NextInv == Inv /\ [Next]_vars => Inv'
<1> SUFFICES ASSUME Inv, [Next]_vars PROVE Inv'
  OBVIOUS
<1>1. CASE UNCHANGED vars
  BY <1>1 DEF vars, Inv, TypeOK, Calls, Public, LatestWasReleased
<1>2. ASSUME NEW w \in Workers, NEW q \in Asked, Begin(w, q) PROVE Inv'
  BY <1>2, BeginKeeps
<1>3. ASSUME NEW w \in Workers, Read(w) PROVE Inv'
  BY <1>3, UpsertPluginKeeps, UpsertVersionKeeps, SetVersionStatusKeeps, SetLatestVersionKeeps,
     DenormalizeKeeps, DisplayVersionKeeps, DisplayListedKeeps, RepointKeeps, DeprecateItemKeeps,
     SetPluginStatusKeeps, ApplyItemStatusKeeps, ApplyToVersionsKeeps, FinishStatusKeeps,
     PublishKeeps, UpdatePluginMetadataKeeps, SubmitItemKeeps, SubmitVersionKeeps DEF Read
<1>4. ASSUME NEW w \in Workers, Write(w) PROVE Inv'
  BY <1>4, WritePluginKeeps, WriteVersionKeeps, WriteStatusKeeps, PointLatestKeeps, WriteShownKeeps,
     WriteItemStatusKeeps, WriteMetadataKeeps DEF Write
<1>5. ASSUME NEW w \in Workers, BreakOff(w) PROVE Inv'
  BY <1>5, BreakOffKeeps
<1> QED
  BY <1>1, <1>2, <1>3, <1>4, <1>5 DEF Next

\* However requests meet and wherever they are broken off, what a request has still to do
\* is what its sender may do (the handlers of source_developer.go and source_admin.go).
THEOREM InvInvariant == Spec => []Inv
<1> QED
  BY InitInv, NextInv, PTL DEF Spec

\* The rows keep the shape that their columns have.
THEOREM TypeCorrect == Spec => []TypeOK
<1>1. Inv => TypeOK
  BY DEF Inv
<1> QED
  BY <1>1, InvInvariant, PTL

\* The item's latest version is one that has been published, whatever meets
\* (SetLatestVersion, repointOrDeprecateItemAfterVersion and denormalizeLatest).
THEOREM LatestReleased == Spec => []LatestWasReleased
<1>1. Inv => LatestWasReleased
  BY DEF Inv
<1> QED
  BY <1>1, InvInvariant, PTL

\* Every list of calls is a sequence.
LEMMA ComingSeq == ASSUME NEW r, NEW rel, NEW s, Coming(r, rel, s)
                   PROVE  \E S : s \in Seq(S)
<1>1. CASE s \in Seq(Todo(r, rel))
  BY <1>1
<1>2. CASE s \notin Seq(Todo(r, rel))
  <2>1. PICK v \in Versions, rest \in Seq(Todo(r, rel)) : s = <<Publishing(v)>> \o (<<Pointing(v)>> \o rest)
    BY <1>2 DEF Coming
  <2> DEFINE S == Todo(r, rel) \cup {Publishing(v), Pointing(v)}
  <2>2. rest \in Seq(S) /\ <<Pointing(v)>> \in Seq(S) /\ <<Publishing(v)>> \in Seq(S)
    BY SeqMonotonic
  <2> HIDE DEF S
  <2>3. s \in Seq(S)
    BY <2>1, <2>2, Joined
  <2> QED
    BY <2>3
<1> QED
  BY <1>1, <1>2

\* What a step that changes a version's row to a published one was.
LEMMA Shorter == ASSUME NEW r, NEW rel, NEW s, Coming(r, rel, s), s # <<>>
                 PROVE  <<>> \o Tail(s) # s
<1>1. PICK S : s \in Seq(S)
  BY ComingSeq
<1>2. Tail(s) \in Seq(S) /\ Len(Tail(s)) = Len(s) - 1 /\ Len(s) \in Nat
  BY <1>1, HeadTailProperties, LenProperties
<1>3. <<>> \o Tail(s) = Tail(s)
  BY <1>2, ConcatEmptySeq
<1>4. Len(Tail(s)) # Len(s)
  <2> DEFINE n == Len(s)
             m == Len(Tail(s))
  <2>1. m = n - 1 /\ n \in Nat
    BY <1>2, Zenon
  <2> HIDE DEF n, m
  <2>2. m # n
    BY <2>1
  <2> QED
    BY <2>2 DEF n, m
<1>5. Tail(s) # s
  <2>1. Tail(s) = s => Len(Tail(s)) = Len(s)
    BY Zenon
  <2> QED
    BY <1>4, <2>1
<1> QED
  BY <1>3, <1>5, Zenon

LEMMA NextReviewed ==
  ASSUME Inv, Next, NEW v \in Versions, releases'[v].status = "published", releases'[v] # releases[v]
  PROVE  \E w \in Admins : calls'[w] # calls[w]
<1>1. PICK w \in Workers : WriteVersion(w) \/ WriteStatus(w)
  <2>1. releases' # releases
    OBVIOUS
  <2>2. ASSUME NEW w \in Workers, NEW q \in Asked, Begin(w, q) PROVE FALSE
    BY <2>1, <2>2 DEF Begin
  <2>3. ASSUME NEW w \in Workers, Read(w) PROVE FALSE
    BY <2>1, <2>3 DEF Read, Go, Refuse, UpsertPlugin, UpsertVersion, SetVersionStatus, SetLatestVersion,
         DenormalizeLatest, DisplayVersion, DisplayListed, Repoint, DeprecateItem, SetPluginStatus,
         ApplyItemStatus, ApplyToVersions, FinishStatus, Publish, UpdatePluginMetadata, SubmitItem,
         SubmitVersion
  <2>4. ASSUME NEW w \in Workers, BreakOff(w) PROVE FALSE
    BY <2>1, <2>4 DEF BreakOff
  <2>5. ASSUME NEW w \in Workers, Write(w) PROVE WriteVersion(w) \/ WriteStatus(w)
    BY <2>1, <2>5 DEF Write, WritePlugin, PointLatest, WriteShown, WriteItemStatus, WriteMetadata, WriteItem
  <2> QED
    BY <2>2, <2>3, <2>4, <2>5 DEF Next
<1>2. CASE WriteVersion(w)
  <2>1. calls[w] # <<>> /\ Arg(w).do = "WriteVersion"
        /\ releases' = [releases EXCEPT ![Arg(w).version] = Arg(w).row]
    BY <1>2 DEF WriteVersion, WriteRelease, Now, Arg
  <2>2. Arg(w).row.status # "published"
    BY <2>1, AtCall, ReleaseCall
  <2> QED
    BY <2>1, <2>2 DEF Inv, TypeOK, Releases
<1>3. CASE WriteStatus(w)
  <2>1. /\ calls[w] # <<>> /\ Arg(w).do = "WriteStatus"
        /\ releases' = [releases EXCEPT ![Arg(w).version] = [releases[Arg(w).version] EXCEPT !.status = Arg(w).to]]
        /\ calls' = [calls EXCEPT ![w] = <<>> \o Tail(calls[w])]
    BY <1>3 DEF WriteStatus, WriteRelease, Continue, Left, Now, Arg
  <2>2. Arg(w).version = v /\ Arg(w).to = "published"
    BY <2>1 DEF Inv, TypeOK, Releases
  <2>3. request[w].by = "admin"
    BY <2>1, <2>2, AtWriteAdmin
  <2>4. calls'[w] # calls[w]
    <3>1. Coming(request[w], released, calls[w])
      BY DEF Inv, Calls
    <3> QED
      BY <2>1, <3>1, Shorter DEF Inv, Calls
  <2> QED
    BY <2>3, <2>4 DEF Admins
<1> QED
  BY <1>1, <1>2, <1>3

\* A version becomes published, or gets another package while it is, only by a step of an
\* administrator's request, whatever the requests of developers have read before
\* (UpsertVersion and SetVersionStatus).
THEOREM Reviewed == Spec => ReleasesAreReviewed
<1>1. Inv /\ [Next]_vars =>
        [\A v \in Versions :
           (releases'[v].status = "published" /\ releases'[v] # releases[v])
             => \E w \in Admins : calls'[w] # calls[w]]_vars
  BY NextReviewed
<1> QED
  BY <1>1, InvInvariant, PTL DEF Spec, ReleasesAreReviewed

--------------------------------------------------------------------------------
(* The store in memory: what it writes and what it shows *)

\* The rows that a version may have.
Rows == [status : Statuses \cup {"absent"}, package : Archives]

\* The store in memory goes by the same rules.
LEMMA SameRules == /\ Memory!NoVersion = NoVersion /\ Memory!Statuses = Statuses
                   /\ \A p : Memory!Ready(p) = Ready(p)
                   /\ \A a, b : Memory!TransitionAllowed(a, b) = TransitionAllowed(a, b)
                   /\ \A a, b : Memory!VersionTransitionAllowed(a, b) = VersionTransitionAllowed(a, b)
                   /\ \A rs, ss : Memory!With(rs, ss) = With(rs, ss)
                   /\ \A v, vs : Memory!Preferring(v, vs) = Preferring(v, vs)
                   /\ \A rs, v, to : Memory!Picked(rs, v, to) = Picked(rs, v, to)
                   /\ \A r, p, to : Memory!Uploaded(r, p, to) = Uploaded(r, p, to)
                   /\ \A i : Memory!Preferred(i) = Preferred(i)
<1>1. Memory!NoVersion = NoVersion /\ Memory!Statuses = Statuses
      /\ Memory!NoPackage = NoPackage
  BY DEF Memory!NoVersion, Memory!Statuses, Memory!NoPackage, NoVersion, Statuses, NoPackage
<1>2. \A p : Memory!Ready(p) = Ready(p)
  BY <1>1 DEF Memory!Ready, Ready
<1>3. \A a, b : Memory!TransitionAllowed(a, b) = TransitionAllowed(a, b)
  BY DEF Memory!TransitionAllowed, TransitionAllowed
<1>4. \A a, b : Memory!VersionTransitionAllowed(a, b) = VersionTransitionAllowed(a, b)
  BY DEF Memory!VersionTransitionAllowed, VersionTransitionAllowed
<1>5. \A rs, ss : Memory!With(rs, ss) = With(rs, ss)
  BY DEF Memory!With, With
<1>6. \A v, vs : Memory!Preferring(v, vs) = Preferring(v, vs)
  BY DEF Memory!Preferring, Preferring
<1>7. \A to : Memory!Wanted(to) = Wanted(to)
  BY <1>1 DEF Memory!Wanted, Wanted
<1>8. \A rs, v, to : Memory!Picked(rs, v, to) = Picked(rs, v, to)
  BY <1>5, <1>6, <1>7 DEF Memory!Picked, Picked
<1>9. \A r, p, to : Memory!Uploaded(r, p, to) = Uploaded(r, p, to)
  BY <1>2 DEF Memory!Uploaded, Uploaded
<1>10. \A i : Memory!Preferred(i) = Preferred(i)
  BY <1>1 DEF Memory!Preferred, Preferred
<1> QED
  BY <1>1, <1>2, <1>3, <1>4, <1>5, <1>6, <1>8, <1>9, <1>10

\* Two stores that agree in every column are the same.
LEMMA SameStore == ASSUME NEW s \in Stores, NEW t \in Stores,
                          s.item.status = t.item.status, s.item.version = t.item.version,
                          s.item.package = t.item.package, s.item.latest = t.item.latest,
                          s.releases = t.releases
                   PROVE  s = t
<1>1. s.item = t.item
  BY DEF Stores, Items
<1> QED
  BY <1>1 DEF Stores

\* What the columns of a store may hold.
LEMMA Columns == ASSUME NEW s \in Stores
                 PROVE  /\ s.item \in Items /\ s.releases \in Releases
                        /\ s.item.status \in ItemStatuses /\ s.item.version \in Versions
                        /\ s.item.package \in Archives /\ s.item.latest \in Names
                        /\ \A v \in Versions : /\ s.releases[v] \in Rows
                                               /\ s.releases[v].status \in Statuses \cup {"absent"}
                                               /\ s.releases[v].package \in Archives
BY DEF Stores, Items, Releases, Rows

\* What is written by each statement, and what is left.
LEMMA StatusSet == ASSUME NEW s \in Stores, NEW to \in ItemStatuses, NEW t, t = Memory!SetStatus(s, to)
                   PROVE  /\ t \in Stores /\ t.item.status = to /\ t.item.version = s.item.version
                          /\ t.item.package = s.item.package /\ t.item.latest = s.item.latest
                          /\ t.releases = s.releases
BY DEF Memory!SetStatus, Stores, Items

\* The latest version.
LEMMA LatestSet == ASSUME NEW s \in Stores, NEW v \in Names, NEW t, t = Memory!SetLatest(s, v)
                   PROVE  /\ t \in Stores /\ t.item.status = s.item.status /\ t.item.version = s.item.version
                          /\ t.item.package = s.item.package /\ t.item.latest = v
                          /\ t.releases = s.releases
BY DEF Memory!SetLatest, Stores, Items

\* What the item shows.
LEMMA ShownSet == ASSUME NEW s \in Stores, NEW v \in Versions, NEW package \in Archives,
                         NEW t, t = Memory!SetShown(s, v, package)
                  PROVE  /\ t \in Stores /\ t.item.status = s.item.status /\ t.item.version = v
                         /\ t.item.package = package /\ t.item.latest = s.item.latest
                         /\ t.releases = s.releases
<1> DEFINE i == [s.item EXCEPT !.version = v, !.package = package]
<1>1. /\ i \in Items /\ i.status = s.item.status /\ i.version = v
      /\ i.package = package /\ i.latest = s.item.latest
  BY DEF Stores, Items
<1>2. t = [s EXCEPT !.item = i]
  BY DEF Memory!SetShown
<1> HIDE DEF i
<1>3. t.item = i /\ t.releases = s.releases /\ t \in Stores
  BY <1>1, <1>2 DEF Stores
<1> QED
  BY <1>1, <1>3

\* A version's row.
LEMMA ReleaseSet == ASSUME NEW s \in Stores, NEW v \in Versions, NEW row \in Rows,
                           NEW t, t = Memory!SetRelease(s, v, row)
                    PROVE  /\ t \in Stores /\ t.item = s.item
                           /\ t.releases[v] = row
                           /\ \A u \in Versions : u # v => t.releases[u] = s.releases[u]
<1>1. t = [s EXCEPT !.releases = [s.releases EXCEPT ![v] = row]]
  BY DEF Memory!SetRelease
<1> DEFINE r == [s.releases EXCEPT ![v] = row]
<1>2. r \in Releases /\ r[v] = row /\ \A u \in Versions : u # v => r[u] = s.releases[u]
  BY DEF Stores, Releases, Rows
<1> HIDE DEF r
<1>3. t.item = s.item /\ t.releases = r /\ t \in Stores
  BY <1>1, <1>2 DEF Stores, r
<1> QED
  BY <1>2, <1>3 DEF r

\* A version's status.
LEMMA ReleaseStatusSet == ASSUME NEW s \in Stores, NEW v \in Versions, NEW to \in Statuses,
                                 NEW t, t = Memory!SetReleaseStatus(s, v, to)
                          PROVE  /\ t \in Stores /\ t.item = s.item
                                 /\ t.releases[v].status = to
                                 /\ t.releases[v].package = s.releases[v].package
                                 /\ \A u \in Versions : u # v => t.releases[u] = s.releases[u]
                                 /\ (s.releases[v].status = to => t = s)
<1> DEFINE row == [s.releases[v] EXCEPT !.status = to]
<1>1. row \in Rows /\ row.status = to /\ row.package = s.releases[v].package
      /\ (s.releases[v].status = to => row = s.releases[v])
  BY DEF Stores, Releases, Rows
<1>2. t = Memory!SetRelease(s, v, row)
  BY DEF Memory!SetReleaseStatus
<1> HIDE DEF row
<1>3. /\ t \in Stores /\ t.item = s.item
      /\ t.releases[v] = row /\ \A u \in Versions : u # v => t.releases[u] = s.releases[u]
  BY <1>1, <1>2, ReleaseSet
<1>4. ASSUME s.releases[v].status = to PROVE t = s
  <2>1. t.releases = s.releases
    BY <1>1, <1>3, <1>4 DEF Stores, Releases
  <2> QED
    BY <1>3, <2>1, SameStore
<1> QED
  BY <1>1, <1>3, <1>4 DEF row

\* What the item shows.
LEMMA DisplayedKnown == ASSUME NEW s \in Stores
                        PROVE  Memory!Displayed(s) \subseteq Versions
BY SameRules DEF Memory!Displayed, Preferring, With

\* A version that is shown becomes the latest one if it is published.
LEMMA ShowSet == ASSUME NEW s \in Stores, NEW v \in Versions, NEW l \in Names, NEW t, t = Memory!Show(s, v, l)
                 PROVE  /\ t \in Stores /\ t.item.status = s.item.status /\ t.item.version = v
                        /\ t.item.package = s.releases[v].package
                        /\ t.item.latest = (IF s.releases[v].status = "published" THEN v ELSE l)
                        /\ t.releases = s.releases
<1> DEFINE shown == Memory!SetShown(s, v, s.releases[v].package)
           latest == IF s.releases[v].status = "published" THEN v ELSE l
<1>1. s.releases[v].package \in Archives /\ latest \in Names
  BY Columns DEF Names
<1>2. /\ shown \in Stores /\ shown.item.status = s.item.status /\ shown.item.version = v
      /\ shown.item.package = s.releases[v].package /\ shown.releases = s.releases
  BY <1>1, ShownSet
<1>3. t = Memory!SetLatest(shown, latest)
  BY DEF Memory!Show
<1> HIDE DEF shown, latest
<1> QED
  BY <1>1, <1>2, <1>3, LatestSet DEF latest

\* The item shows a version that the rows have.
LEMMA DenormalizedShows == ASSUME NEW s \in Stores, NEW e \in Memory!Denormalized(s)
                           PROVE  /\ e.ok /\ e = Memory!Done(e.store) /\ e.store \in Stores
                                  /\ \E v \in Memory!Displayed(s) : e.store = Memory!Show(s, v, s.item.latest)
                                  /\ e.store.item.status = s.item.status
                                  /\ e.store.releases = s.releases
<1>1. PICK v \in Memory!Displayed(s) : e = Memory!Done(Memory!Show(s, v, s.item.latest))
  BY DEF Memory!Denormalized
<1>2. e.ok /\ e.store = Memory!Show(s, v, s.item.latest)
  BY <1>1 DEF Memory!Done
<1>3. v \in Versions /\ s.item.latest \in Names
  BY DisplayedKnown, Columns
<1> QED
  BY <1>1, <1>2, <1>3, ShowSet

\* Once is enough.
LEMMA DenormalizedTwice == ASSUME NEW s \in Stores, NEW e \in Memory!Denormalized(s)
                           PROVE  Memory!Denormalized(e.store) = {e}
<1> DEFINE d == e.store
           public == With(s.releases, {"published"})
           known == With(s.releases, Statuses)
<1>1. PICK v \in Memory!Displayed(s) : d = Memory!Show(s, v, s.item.latest)
  BY DenormalizedShows
<1>2. e = Memory!Done(d) /\ d \in Stores /\ d.releases = s.releases
  BY DenormalizedShows
<1>3. v \in Versions /\ s.item.latest \in Names
  BY DisplayedKnown, Columns
<1>4. /\ d.item.version = v /\ d.item.package = s.releases[v].package
      /\ d.item.latest = (IF s.releases[v].status = "published" THEN v ELSE s.item.latest)
  BY <1>1, <1>3, ShowSet
<1>5. v \in public <=> s.releases[v].status = "published"
  BY <1>3 DEF With
<1>6. Memory!Displayed(s) = CASE s.item.latest \in public -> {s.item.latest}
        [] s.item.latest \notin public /\ public # {} -> Preferring(s.item.version, public)
        [] OTHER -> Preferring(s.item.version, known)
  BY SameRules DEF Memory!Displayed
<1>7. Memory!Displayed(d) = CASE d.item.latest \in public -> {d.item.latest}
        [] d.item.latest \notin public /\ public # {} -> Preferring(d.item.version, public)
        [] OTHER -> Preferring(d.item.version, known)
  BY <1>2, SameRules DEF Memory!Displayed
<1> HIDE DEF public, known, d
<1>8. Memory!Displayed(d) = {v}
  <2>1. CASE v \in public
    BY <1>4, <1>5, <1>7, <2>1
  <2>2. CASE v \notin public
    <3>1. s.item.latest \notin public /\ public = {}
      BY <1>6, <2>2 DEF Preferring
    <3>2. v \in known
      BY <1>6, <3>1 DEF Preferring
    <3> QED
      BY <1>4, <1>5, <1>7, <2>2, <3>1, <3>2 DEF Preferring
  <2> QED
    BY <2>1, <2>2
<1>9. Memory!Show(d, v, d.item.latest) = d
  <2> DEFINE t == Memory!Show(d, v, d.item.latest)
  <2>1. d.item.latest \in Names
    BY <1>2, Columns
  <2>2. /\ t \in Stores /\ t.item.status = d.item.status /\ t.item.version = v
        /\ t.item.package = d.releases[v].package
        /\ t.item.latest = (IF d.releases[v].status = "published" THEN v ELSE d.item.latest)
        /\ t.releases = d.releases
    BY <1>2, <1>3, <2>1, ShowSet
  <2> HIDE DEF t
  <2>3. t = d
    BY <1>2, <1>4, <2>2, SameStore
  <2> QED
    BY <2>3 DEF t
<1> QED
  BY <1>2, <1>8, <1>9 DEF Memory!Denormalized, d

\* It is the same thing before a change of the item's status and after it.
LEMMA DenormalizedStatus == ASSUME NEW s \in Stores, NEW to \in ItemStatuses, NEW e \in Memory!Denormalized(s)
                            PROVE  /\ Memory!Done(Memory!SetStatus(e.store, to))
                                        \in Memory!Denormalized(Memory!SetStatus(s, to))
                                   /\ \A f \in Memory!Denormalized(Memory!SetStatus(e.store, to)) :
                                        f = Memory!Done(Memory!SetStatus(e.store, to))
<1> DEFINE d == e.store
           t == Memory!SetStatus(s, to)
           x == Memory!SetStatus(d, to)
<1>1. PICK v \in Memory!Displayed(s) : d = Memory!Show(s, v, s.item.latest)
  BY DenormalizedShows
<1>2. e = Memory!Done(d) /\ d \in Stores /\ d.releases = s.releases
  BY DenormalizedShows
<1>3. v \in Versions /\ s.item.latest \in Names
  BY DisplayedKnown, Columns
<1>4. /\ d.item.version = v /\ d.item.package = s.releases[v].package
      /\ d.item.latest = (IF s.releases[v].status = "published" THEN v ELSE s.item.latest)
  BY <1>1, <1>3, ShowSet
<1>5. /\ t \in Stores /\ t.item.status = to /\ t.item.version = s.item.version
      /\ t.item.latest = s.item.latest /\ t.releases = s.releases
  BY StatusSet
<1>6. /\ x \in Stores /\ x.item.status = to /\ x.item.version = d.item.version
      /\ x.item.package = d.item.package /\ x.item.latest = d.item.latest /\ x.releases = d.releases
  BY <1>2, StatusSet
<1> HIDE DEF d, t, x
<1>7. Memory!Displayed(t) = Memory!Displayed(s)
  BY <1>5 DEF Memory!Displayed
<1>8. Memory!Show(t, v, t.item.latest) = x
  <2> DEFINE y == Memory!Show(t, v, t.item.latest)
  <2>1. /\ y \in Stores /\ y.item.status = t.item.status /\ y.item.version = v
        /\ y.item.package = t.releases[v].package
        /\ y.item.latest = (IF t.releases[v].status = "published" THEN v ELSE t.item.latest)
        /\ y.releases = t.releases
    BY <1>3, <1>5, ShowSet
  <2> HIDE DEF y
  <2>2. y = x
    BY <1>2, <1>4, <1>5, <1>6, <2>1, SameStore
  <2> QED
    BY <2>2 DEF y
<1>9. Memory!Done(x) \in Memory!Denormalized(t)
  BY <1>7, <1>8 DEF Memory!Denormalized
<1>10. Memory!Denormalized(x) = {Memory!Done(x)}
  <2> DEFINE f == Memory!Done(x)
  <2>1. f.store = x /\ f \in Memory!Denormalized(t)
    BY <1>9 DEF Memory!Done
  <2> HIDE DEF f
  <2>2. Memory!Denormalized(f.store) = {f}
    BY <1>5, <2>1, DenormalizedTwice
  <2> QED
    BY <2>1, <2>2 DEF f
<1> QED
  BY <1>9, <1>10 DEF d, t, x

--------------------------------------------------------------------------------
(* What calls come to *)

\* The item goes out of use, where it may.
Deprecated(s) ==
  IF s.item.status # "deprecated" /\ TransitionAllowed(s.item.status, "deprecated")
  THEN Memory!SetPluginStatus(s, "deprecated")
  ELSE {Memory!Done(s)}

\* Another published version takes the place of one gone, or the item goes too.
Repointed(s) ==
  IF With(s.releases, {"published"}) # {}
  THEN {Memory!Done(Memory!SetLatest(s, v)) : v \in With(s.releases, {"published"})}
  ELSE Deprecated(s)

\* The versions that may be shown when the latest one is not published.
Listed(s, v) ==
  LET public == With(s.releases, {"published"})
  IN  Preferring(v, IF public # {} THEN public ELSE With(s.releases, Statuses))

\* What each call of request q makes of the store when nobody comes between, errors included.
Effect(q, c, s) ==
  CASE c.do = "UpsertPlugin" -> Memory!UpsertPlugin(s, q.version, q.package, q.by)
    [] c.do = "UpsertVersion" -> Memory!UpsertVersion(s, q.version, q.package, q.by)
    [] c.do = "SetVersionStatus" -> Memory!SetVersionStatus(s, c.version, c.to)
    [] c.do = "SetLatestVersion" -> Memory!SetLatestVersion(s, c.version)
    [] c.do = "Denormalize" -> Memory!Denormalized(s)
    [] c.do = "Display" ->
         {Memory!Done(Memory!Show(s, v, c.latest)) :
            v \in IF c.latest \in With(s.releases, {"published"}) THEN {c.latest} ELSE Listed(s, c.version)}
    [] c.do = "DisplayListed" -> {Memory!Done(Memory!Show(s, v, c.latest)) : v \in Listed(s, c.version)}
    [] c.do = "Repoint" -> Repointed(s)
    [] c.do = "DeprecateItem" -> Deprecated(s)
    [] c.do = "SetPluginStatus" -> Memory!SetPluginStatus(s, c.to)
    [] c.do = "ApplyItemStatus" -> Memory!ApplyItemStatusToVersions(s, c.to)
    [] c.do = "ApplyToVersions" -> Memory!ApplyTo(s, Picked(s.releases, c.preferred, c.to), c.to)
    [] c.do = "FinishStatus" -> Memory!Guarded(c.to = "published" => Ready(s.item.package), s,
                                               {Memory!Done(Memory!SetStatus(s, c.to))})
    [] c.do = "Publish" -> Memory!Publish(s)
    [] c.do = "UpdatePluginMetadata" -> Memory!UpdatePluginMetadata(s, q.version, q.package)
    [] c.do = "SubmitItem" -> Memory!Guarded(Ready(s.item.package), s, Memory!SetPluginStatus(s, "review"))
    [] c.do = "SubmitVersion" -> Memory!Guarded(Ready(s.releases[q.version].package), s,
                                                Memory!SetVersionStatus(s, q.version, "pending"))
    [] c.do = "WritePlugin" ->
         {Memory!Done(Memory!SetShown(Memory!SetStatus(s, c.row.status), c.row.version, c.row.package))}
    [] c.do = "WriteVersion" -> {Memory!Done(Memory!SetRelease(s, c.version, c.row))}
    [] c.do = "WriteStatus" -> {Memory!Done(Memory!SetReleaseStatus(s, c.version, c.to))}
    [] c.do = "PointLatest" -> {Memory!Done(Memory!SetLatest(s, c.version))}
    [] c.do = "WriteShown" ->
         {Memory!Done(Memory!SetLatest(Memory!SetShown(s, c.version, c.package), c.latest))}
    [] c.do = "WriteItemStatus" -> {Memory!Done(Memory!SetStatus(s, c.to))}
    [] c.do = "WriteMetadata" -> {Memory!Done(Memory!SetShown(s, c.version, c.package))}

\* From a store, these calls one after another come to a store of X, an error halfway
\* included: P has the stores that may be between them, with the calls that are left.
Closed(q, X, P) ==
  \A p \in P : IF p[2] = <<>> THEN p[1] \in X
               ELSE \A e \in Effect(q, Head(p[2]), p[1]) :
                      IF e.ok THEN <<e.store, Tail(p[2])>> \in P ELSE e.store \in X

\* These calls, on this store, come to a store of X.
Fits(q, X, s, todo) == \E P : <<s, todo>> \in P /\ Closed(q, X, P)

\* When nothing is left to do the store is one of X.
LEMMA FitsEnd == ASSUME NEW q, NEW X, NEW s, Fits(q, X, s, <<>>) PROVE s \in X
BY DEF Fits, Closed

\* What a call comes to leaves the rest to do.
LEMMA FitsNext == ASSUME NEW q, NEW X, NEW s, NEW todo, Fits(q, X, s, todo), todo # <<>>,
                         NEW e \in Effect(q, Head(todo), s)
                  PROVE  IF e.ok THEN Fits(q, X, e.store, Tail(todo)) ELSE e.store \in X
<1>1. PICK P : <<s, todo>> \in P /\ Closed(q, X, P)
  BY DEF Fits
<1>2. IF e.ok THEN <<e.store, Tail(todo)>> \in P ELSE e.store \in X
  <2> DEFINE p == <<s, todo>>
  <2>1. p \in P /\ p[1] = s /\ p[2] = todo
    BY <1>1
  <2> HIDE DEF p
  <2> QED
    BY <1>1, <2>1 DEF Closed
<1> QED
  BY <1>1, <1>2 DEF Fits

\* A store of X with nothing left to do.
LEMMA FitsNone == ASSUME NEW q, NEW X, NEW s \in X PROVE Fits(q, X, s, <<>>)
<1> DEFINE P == {<<s, <<>>>>}
<1>1. <<s, <<>>>> \in P /\ Closed(q, X, P)
  BY DEF Closed
<1> QED
  BY <1>1 DEF Fits

\* Plans for whatever the first call comes to make a plan with it.
LEMMA FitsFrom == ASSUME NEW q, NEW X, NEW s, NEW todo, todo # <<>>,
                         \A e \in Effect(q, Head(todo), s) :
                           IF e.ok THEN Fits(q, X, e.store, Tail(todo)) ELSE e.store \in X
                  PROVE  Fits(q, X, s, todo)
<1> DEFINE After == {e \in Effect(q, Head(todo), s) : e.ok}
           Plan(e) == CHOOSE P : <<e.store, Tail(todo)>> \in P /\ Closed(q, X, P)
           Q == {<<s, todo>>} \cup UNION {Plan(e) : e \in After}
<1>1. \A e \in After : <<e.store, Tail(todo)>> \in Plan(e) /\ Closed(q, X, Plan(e))
  BY DEF Fits
<1>2. <<s, todo>> \in Q
  OBVIOUS
<1>3. \A e \in After : Plan(e) \subseteq Q
  OBVIOUS
<1>4. \A p \in Q : p = <<s, todo>> \/ \E e \in After : p \in Plan(e)
  OBVIOUS
<1>5. \A e \in Effect(q, Head(todo), s) : ~e.ok => e.store \in X
  OBVIOUS
<1>6. \A e \in Effect(q, Head(todo), s) : e.ok => e \in After
  OBVIOUS
<1> HIDE DEF After, Plan, Q
<1>7. Closed(q, X, Q)
  <2> SUFFICES ASSUME NEW p \in Q
               PROVE  IF p[2] = <<>> THEN p[1] \in X
                      ELSE \A e \in Effect(q, Head(p[2]), p[1]) :
                             IF e.ok THEN <<e.store, Tail(p[2])>> \in Q ELSE e.store \in X
    BY DEF Closed
  <2>1. CASE p = <<s, todo>>
    <3>1. p[1] = s /\ p[2] = todo
      BY <2>1
    <3> QED
      BY <1>1, <1>3, <1>5, <1>6, <3>1
  <2>2. ASSUME NEW e \in After, p \in Plan(e)
        PROVE  IF p[2] = <<>> THEN p[1] \in X
               ELSE \A f \in Effect(q, Head(p[2]), p[1]) :
                      IF f.ok THEN <<f.store, Tail(p[2])>> \in Q ELSE f.store \in X
    <3>1. IF p[2] = <<>> THEN p[1] \in X
          ELSE \A f \in Effect(q, Head(p[2]), p[1]) :
                 IF f.ok THEN <<f.store, Tail(p[2])>> \in Plan(e) ELSE f.store \in X
      BY <1>1, <2>2 DEF Closed
    <3> QED
      BY <1>3, <3>1
  <2> QED
    BY <1>4, <2>1, <2>2
<1> QED
  BY <1>2, <1>7 DEF Fits

\* A call may give way to others that come to the same, or to none.
LEMMA Answers0 == ASSUME NEW q, NEW X, NEW s, NEW todo, todo # <<>>, Fits(q, X, s, todo),
                         Memory!Done(s) \in Effect(q, Head(todo), s)
                  PROVE  Fits(q, X, s, Tail(todo))
<1>1. Memory!Done(s).ok /\ Memory!Done(s).store = s
  BY DEF Memory!Done
<1> QED
  BY <1>1, FitsNext

\* By one call that comes to nothing else.
LEMMA Answers1 == ASSUME NEW q, NEW X, NEW s, NEW todo, todo # <<>>, Fits(q, X, s, todo), NEW a, NEW t,
                         t # <<>>, Head(t) = a, Tail(t) = Tail(todo),
                         Effect(q, a, s) \subseteq Effect(q, Head(todo), s)
                  PROVE  Fits(q, X, s, t)
BY FitsNext, FitsFrom

\* By two, of which the first may fail.
LEMMA Answers2 == ASSUME NEW q, NEW X, NEW s, NEW todo, todo # <<>>, Fits(q, X, s, todo), NEW a, NEW b, NEW t,
                         t # <<>>, Head(t) = a, Tail(t) # <<>>, Head(Tail(t)) = b, Tail(Tail(t)) = Tail(todo),
                         \A e \in Effect(q, a, s) :
                           IF e.ok THEN Effect(q, b, e.store) \subseteq Effect(q, Head(todo), s)
                           ELSE e \in Effect(q, Head(todo), s)
                  PROVE  Fits(q, X, s, t)
<1>1. \A e \in Effect(q, a, s) :
        IF e.ok THEN Fits(q, X, e.store, Tail(t)) ELSE e.store \in X
  <2> TAKE e \in Effect(q, a, s)
  <2>1. CASE ~e.ok
    BY <2>1, FitsNext
  <2>2. CASE e.ok
    <3>1. \A f \in Effect(q, b, e.store) : IF f.ok THEN Fits(q, X, f.store, Tail(Tail(t))) ELSE f.store \in X
      BY <2>2, FitsNext
    <3> QED
      BY <2>2, <3>1, FitsFrom
  <2> QED
    BY <2>1, <2>2
<1> QED
  BY <1>1, FitsFrom

\* By three, of which the second may fail.
LEMMA Answers3 == ASSUME NEW q, NEW X, NEW s, NEW todo, todo # <<>>, Fits(q, X, s, todo),
                         NEW a, NEW b, NEW c, NEW t,
                         t # <<>>, Head(t) = a, Tail(t) # <<>>, Head(Tail(t)) = b, Tail(Tail(t)) # <<>>,
                         Head(Tail(Tail(t))) = c, Tail(Tail(Tail(t))) = Tail(todo),
                         \A e \in Effect(q, a, s) : e.ok /\ \A f \in Effect(q, b, e.store) :
                           IF f.ok THEN Effect(q, c, f.store) \subseteq Effect(q, Head(todo), s)
                           ELSE f \in Effect(q, Head(todo), s)
                  PROVE  Fits(q, X, s, t)
<1> SUFFICES ASSUME NEW e \in Effect(q, a, s) PROVE e.ok /\ Fits(q, X, e.store, Tail(t))
  BY FitsFrom
<1>1. \A f \in Effect(q, b, e.store) :
        IF f.ok THEN Fits(q, X, f.store, Tail(Tail(t))) ELSE f.store \in X
  <2> TAKE f \in Effect(q, b, e.store)
  <2>1. CASE ~f.ok
    BY <2>1, FitsNext
  <2>2. CASE f.ok
    <3>1. \A g \in Effect(q, c, f.store) :
            IF g.ok THEN Fits(q, X, g.store, Tail(Tail(Tail(t)))) ELSE g.store \in X
      BY <2>2, FitsNext
    <3> QED
      BY <2>2, <3>1, FitsFrom
  <2> QED
    BY <2>1, <2>2
<1> QED
  BY <1>1, FitsFrom

\* A call before a list, and two or three.
LEMMA FirstOne == ASSUME NEW S, NEW d \in Seq(S), NEW a
                  PROVE  /\ <<a>> \o d # <<>> /\ Head(<<a>> \o d) = a /\ Tail(<<a>> \o d) = d
                         /\ <<>> \o d = d
                         /\ \E U : <<a>> \o d \in Seq(U)
<1> DEFINE U == S \cup {a}
<1>1. d \in Seq(U) /\ <<a>> \in Seq(U) /\ a \in U
  BY SeqMonotonic
<1> HIDE DEF U
<1>2. <<a>> \o d \in Seq(U)
  BY <1>1, Joined
<1>3. <<a>> \o d # <<>> /\ Head(<<a>> \o d) = a /\ Tail(<<a>> \o d) = d
  BY <1>1
<1>4. <<>> \o d = d
  BY ConcatEmptySeq
<1> QED
  BY <1>2, <1>3, <1>4

\* Two calls before a list.
LEMMA FirstTwo == ASSUME NEW S, NEW d \in Seq(S), NEW a, NEW b
                  PROVE  /\ <<a, b>> \o d = <<a>> \o (<<b>> \o d)
                         /\ (<<a>> \o <<b>>) \o d = <<a>> \o (<<b>> \o d)
                         /\ (<<>> \o <<b>>) \o d = <<b>> \o d
<1> DEFINE U == S \cup {a, b}
           x == <<a>>
           y == <<b>>
<1>1. d \in Seq(U) /\ x \in Seq(U) /\ y \in Seq(U)
  <2>1. a \in U /\ b \in U /\ d \in Seq(U)
    BY SeqMonotonic
  <2> HIDE DEF U
  <2> QED
    BY <2>1
<1>4. x \o y = <<a, b>>
  <2> DEFINE l == x \o y
             m == <<a, b>>
  <2>1. a \in U /\ b \in U
    OBVIOUS
  <2> HIDE DEF U
  <2>2. l \in Seq(U) /\ m \in Seq(U)
    BY <2>1
  <2>3. Len(l) = 2 /\ Len(m) = 2 /\ l[1] = a /\ l[2] = b /\ m[1] = a /\ m[2] = b
    BY <2>1
  <2> HIDE DEF l, m
  <2>4. l = m
    BY <2>2, <2>3, SeqEqual
  <2> QED
    BY <2>4 DEF l, m
<1>2. <<>> \o <<b>> = <<b>>
  BY <1>1, ConcatEmptySeq
<1> HIDE DEF U, x, y
<1>3. (x \o y) \o d = x \o (y \o d)
  BY SMTT(30), <1>1, ConcatAssociative
<1> QED
  BY <1>2, <1>3, <1>4 DEF x, y

\* Three calls before a list.
LEMMA FirstThree == ASSUME NEW S, NEW d \in Seq(S), NEW a, NEW b, NEW c
                    PROVE  (<<a>> \o <<b>> \o <<c>>) \o d = <<a>> \o (<<b>> \o (<<c>> \o d))
<1> DEFINE U == S \cup {a, b, c}
<1>1. a \in U /\ b \in U /\ c \in U /\ d \in Seq(U)
  BY SeqMonotonic
<1> HIDE DEF U
<1> QED
  BY <1>1, ThreeCalls

\* Two calls with nothing between them.
LEMMA FirstSkip == ASSUME NEW S, NEW d \in Seq(S), NEW a, NEW b
                   PROVE  (<<a>> \o <<>> \o <<b>>) \o d = <<a>> \o (<<b>> \o d)
<1>1. <<a>> \o <<>> = <<a>>
  <2> DEFINE U == {a}
  <2>1. <<a>> \in Seq(U)
    OBVIOUS
  <2> QED
    BY <2>1, ConcatEmptySeq
<1>2. (<<a>> \o <<b>>) \o d = <<a>> \o (<<b>> \o d)
  BY FirstTwo, ZenonT(40)
<1> QED
  BY <1>1, <1>2, Zenon

\* The ways in which two calls are put before the rest.
LEMMA Shapes == ASSUME NEW S, NEW d \in Seq(S), NEW a, NEW b
                PROVE  \A todo \in {<<a, b>>, <<a>> \o <<b>>, <<a>> \o <<>> \o <<b>>} :
                         todo \o d = <<a>> \o (<<b>> \o d)
<1>1. <<a, b>> \o d = <<a>> \o (<<b>> \o d)
  BY FirstTwo, ZenonT(40)
<1>2. (<<a>> \o <<b>>) \o d = <<a>> \o (<<b>> \o d)
  BY FirstTwo, ZenonT(40)
<1>3. (<<a>> \o <<>> \o <<b>>) \o d = <<a>> \o (<<b>> \o d)
  BY FirstSkip, ZenonT(40)
<1> QED
  BY <1>1, <1>2, <1>3, Zenon

\* What follows the first call is a list.
LEMMA AtList == ASSUME Inv, NEW w \in Workers, calls[w] # <<>>
                PROVE  \E S : Tail(calls[w]) \in Seq(S)
<1> DEFINE s == calls[w]
<1>1. PICK S : s \in Seq(S)
  BY ComingSeq DEF Inv, Calls
<1> HIDE DEF s
<1>2. s # <<>> => Tail(s) \in Seq(S)
  BY <1>1, HeadTailProperties
<1> QED
  BY <1>2 DEF s

\* What is left to do after a step.
LEMMA LeftCalls == ASSUME Inv, NEW w \in Workers, NEW s, Left(w, s) PROVE calls'[w] = s
BY DEF Left, Inv, Calls

--------------------------------------------------------------------------------
(* Each statement leaves calls that come to the same *)

\* An error, which the call may come to.
LEMMA FitRefuse ==
  ASSUME Inv, NEW w \in Workers, calls[w] # <<>>, NEW X, Fits(request[w], X, Store, calls[w]), Refuse(w),
         Memory!Failed(Store) \in Effect(request[w], Arg(w), Store)
  PROVE  Fits(request[w], X, Store', calls'[w])
<1>1. calls'[w] = <<>> /\ Store' = Store
  BY LeftCalls DEF Refuse, Store
<1>2. ~Memory!Failed(Store).ok /\ Memory!Failed(Store).store = Store
  BY DEF Memory!Failed
<1>3. Store \in X
  BY <1>2, FitsNext DEF Arg
<1> QED
  BY <1>1, <1>3, FitsNone

\* Nothing is put in the call's place.
LEMMA FitNone ==
  ASSUME Inv, NEW w \in Workers, calls[w] # <<>>, NEW X, Fits(request[w], X, Store, calls[w]), Go(w, <<>>),
         Memory!Done(Store) \in Effect(request[w], Arg(w), Store)
  PROVE  Fits(request[w], X, Store', calls'[w])
<1>1. calls'[w] = <<>> \o Tail(calls[w]) /\ Store' = Store
  BY LeftCalls DEF Go, Continue, Store
<1>2. <<>> \o Tail(calls[w]) = Tail(calls[w])
  BY AtList, FirstOne
<1> QED
  BY <1>1, <1>2, Answers0 DEF Arg

\* Another call takes its place.
LEMMA FitOne ==
  ASSUME Inv, NEW w \in Workers, calls[w] # <<>>, NEW X, Fits(request[w], X, Store, calls[w]),
         NEW a, Go(w, <<a>>),
         Effect(request[w], a, Store) \subseteq Effect(request[w], Arg(w), Store)
  PROVE  Fits(request[w], X, Store', calls'[w])
<1>1. calls'[w] = <<a>> \o Tail(calls[w]) /\ Store' = Store
  BY LeftCalls DEF Go, Continue, Store
<1> DEFINE t == <<a>> \o Tail(calls[w])
<1>2. t # <<>> /\ Head(t) = a /\ Tail(t) = Tail(calls[w])
  BY AtList, FirstOne
<1> HIDE DEF t
<1>3. Fits(request[w], X, Store, t)
  BY <1>2, Answers1 DEF Arg
<1> QED
  BY <1>1, <1>3 DEF t

\* Two calls take its place.
LEMMA FitTwo ==
  ASSUME Inv, NEW w \in Workers, calls[w] # <<>>, NEW X, Fits(request[w], X, Store, calls[w]),
         NEW a, NEW b, NEW todo, Go(w, todo), todo \in {<<a, b>>, <<a>> \o <<b>>, <<a>> \o <<>> \o <<b>>},
         \A e \in Effect(request[w], a, Store) :
           IF e.ok THEN Effect(request[w], b, e.store) \subseteq Effect(request[w], Arg(w), Store)
           ELSE e \in Effect(request[w], Arg(w), Store)
  PROVE  Fits(request[w], X, Store', calls'[w])
<1>1. calls'[w] = todo \o Tail(calls[w]) /\ Store' = Store
  BY LeftCalls DEF Go, Continue, Store
<1> DEFINE d == Tail(calls[w])
           u == <<b>> \o d
           t == <<a>> \o u
<1>2. PICK S : d \in Seq(S)
  BY AtList
<1>3. todo \o d = t
  BY <1>2, Shapes, ZenonT(40)
<1>4. u # <<>> /\ Head(u) = b /\ Tail(u) = d /\ \E U : u \in Seq(U)
  BY <1>2, FirstOne
<1>5. t # <<>> /\ Head(t) = a /\ Tail(t) = u
  BY <1>4, FirstOne
<1> HIDE DEF t, u
<1>6. Fits(request[w], X, Store, t)
  BY <1>4, <1>5, Answers2 DEF Arg, d
<1> QED
  BY <1>1, <1>3, <1>6 DEF d

\* Three calls take its place.
LEMMA FitThree ==
  ASSUME Inv, NEW w \in Workers, calls[w] # <<>>, NEW X, Fits(request[w], X, Store, calls[w]),
         NEW a, NEW b, NEW c, Go(w, <<a>> \o <<b>> \o <<c>>),
         \A e \in Effect(request[w], a, Store) : e.ok /\ \A f \in Effect(request[w], b, e.store) :
           IF f.ok THEN Effect(request[w], c, f.store) \subseteq Effect(request[w], Arg(w), Store)
           ELSE f \in Effect(request[w], Arg(w), Store)
  PROVE  Fits(request[w], X, Store', calls'[w])
<1>1. calls'[w] = (<<a>> \o <<b>> \o <<c>>) \o Tail(calls[w]) /\ Store' = Store
  BY LeftCalls DEF Go, Continue, Store
<1> DEFINE d == Tail(calls[w])
           z == <<c>> \o d
           u == <<b>> \o z
           t == <<a>> \o u
<1>2. PICK S : d \in Seq(S)
  BY AtList
<1>3. (<<a>> \o <<b>> \o <<c>>) \o d = t
  BY <1>2, FirstThree
<1>4. z # <<>> /\ Head(z) = c /\ Tail(z) = d /\ \E U : z \in Seq(U)
  BY <1>2, FirstOne
<1>5. u # <<>> /\ Head(u) = b /\ Tail(u) = z /\ \E U : u \in Seq(U)
  BY <1>4, FirstOne
<1>6. t # <<>> /\ Head(t) = a /\ Tail(t) = u
  BY <1>5, FirstOne
<1> HIDE DEF t, u, z
<1>7. Fits(request[w], X, Store, t)
  BY <1>4, <1>5, <1>6, Answers3 DEF Arg, d
<1> QED
  BY <1>1, <1>3, <1>7 DEF d

\* A statement has written what the call comes to.
LEMMA FitWrite ==
  ASSUME Inv, NEW w \in Workers, calls[w] # <<>>, NEW X, Fits(request[w], X, Store, calls[w]), Continue(w, <<>>),
         Memory!Done(Store') \in Effect(request[w], Arg(w), Store)
  PROVE  Fits(request[w], X, Store', calls'[w])
<1> DEFINE next == Store'
<1>1. calls'[w] = <<>> \o Tail(calls[w])
  BY LeftCalls DEF Continue
<1>2. <<>> \o Tail(calls[w]) = Tail(calls[w])
  BY AtList, FirstOne
<1>3. Memory!Done(next) \in Effect(request[w], Arg(w), Store)
  OBVIOUS
<1>4. Memory!Done(next).ok /\ Memory!Done(next).store = next
  BY DEF Memory!Done
<1> HIDE DEF next
<1>5. Fits(request[w], X, next, Tail(calls[w]))
  BY <1>3, <1>4, FitsNext DEF Arg
<1> QED
  BY <1>1, <1>2, <1>5 DEF next

\* The store is one that the rules allow.
LEMMA StoreRows == ASSUME Inv PROVE Store \in Stores /\ Store.item = item /\ Store.releases = releases
BY DEF Inv, TypeOK, Store, Stores

\* The results of calls that are one write.
LEMMA DoneIs == ASSUME NEW s
                PROVE  /\ Memory!Done(s).ok /\ Memory!Done(s).store = s
                       /\ ~Memory!Failed(s).ok /\ Memory!Failed(s).store = s
BY DEF Memory!Done, Memory!Failed

\* An upload of an item writes its row and goes on to the version.
LEMMA UpsertPluginFits ==
  ASSUME Inv, NEW w \in Workers, NEW X, Fits(request[w], X, Store, calls[w]), UpsertPlugin(w)
  PROVE  Fits(request[w], X, Store', calls'[w])
<1> DEFINE q == request[w]
           frozen == q.by # "admin" /\ item.latest # NoVersion
           row == [status |-> IF q.by = "admin" THEN "draft" ELSE item.status,
                   version |-> IF frozen THEN item.version ELSE q.version,
                   package |-> IF frozen THEN item.package ELSE q.package]
           write == [do |-> "WritePlugin", row |-> row]
           moved == Memory!SetStatus(Store, IF q.by = "admin" THEN "draft" ELSE item.status)
           written == IF frozen THEN moved ELSE Memory!SetShown(moved, q.version, q.package)
<1>1. calls[w] # <<>> /\ Arg(w).do = "UpsertPlugin" /\ Go(w, <<write, Do("UpsertVersion")>>)
  BY DEF UpsertPlugin, Now, Arg
<1>2. q \in Requests /\ q.version \in Versions /\ q.package \in Archives
  <2>1. q \in Requests /\ Arg(w) \in Todo(q, released)
    BY <1>1, AtCall
  <2>2. q.version \in Versions
    BY <1>1, <2>1, NamingCall DEF Naming
  <2> QED
    BY <2>1, <2>2, Named
<1>3. Store \in Stores /\ Store.item = item /\ item \in Items
  BY StoreRows DEF Inv, TypeOK
<1>4. /\ moved \in Stores /\ moved.item.version = item.version /\ moved.item.package = item.package
      /\ row.status = (IF q.by = "admin" THEN "draft" ELSE item.status)
  <2>1. row.status \in ItemStatuses
    BY <1>3 DEF Items, ItemStatuses
  <2> QED
    BY <1>3, <2>1, StatusSet
<1>5. Memory!SetShown(moved, row.version, row.package) = written
  <2>1. CASE frozen
    <3> DEFINE t == Memory!SetShown(moved, item.version, item.package)
    <3>1. item.version \in Versions /\ item.package \in Archives
      BY <1>3 DEF Items
    <3>2. /\ t \in Stores /\ t.item.status = moved.item.status /\ t.item.version = item.version
          /\ t.item.package = item.package /\ t.item.latest = moved.item.latest
          /\ t.releases = moved.releases
      BY <1>4, <3>1, ShownSet
    <3> HIDE DEF t, moved
    <3>3. t = moved
      BY <1>4, <3>2, SameStore
    <3> QED
      BY <2>1, <3>3 DEF t
  <2>2. CASE ~frozen
    BY <2>2
  <2> QED
    BY <2>1, <2>2
<1>6. Effect(q, write, Store) = {Memory!Done(written)}
  <2>1. Effect(q, write, Store)
          = {Memory!Done(Memory!SetShown(Memory!SetStatus(Store, row.status), row.version, row.package))}
    BY DEF Effect
  <2> HIDE DEF row, written
  <2> QED
    BY <1>4, <1>5, <2>1
<1>7. Memory!UpsertPlugin(Store, q.version, q.package, q.by)
        = Memory!UpsertVersion(written, q.version, q.package, q.by)
  BY <1>3, SameRules DEF Memory!UpsertPlugin
<1> HIDE DEF written, write
<1>8. Effect(q, Do("UpsertVersion"), written) = Memory!UpsertVersion(written, q.version, q.package, q.by)
  BY DEF Effect, Do
<1>9. Effect(q, Arg(w), Store) = Memory!UpsertPlugin(Store, q.version, q.package, q.by)
  BY <1>1 DEF Effect
<1>10. \A e \in Effect(q, write, Store) :
         IF e.ok THEN Effect(q, Do("UpsertVersion"), e.store) \subseteq Effect(q, Arg(w), Store)
         ELSE e \in Effect(q, Arg(w), Store)
  BY <1>6, <1>7, <1>8, <1>9, DoneIs
<1> QED
  BY <1>1, <1>10, FitTwo

\* An upload of a version writes its row, and the item is made to show what it has to.
LEMMA UpsertVersionFits ==
  ASSUME Inv, NEW w \in Workers, NEW X, Fits(request[w], X, Store, calls[w]), UpsertVersion(w)
  PROVE  Fits(request[w], X, Store', calls'[w])
<1> DEFINE q == request[w]
           old == releases[q.version]
           closed == old.status \in {"published", "deprecated"}
           status == IF old.status = "pending" THEN "pending" ELSE "draft"
           row == Uploaded(old, q.package, status)
           write == [do |-> "WriteVersion", version |-> q.version, row |-> row]
           written == Memory!SetRelease(Store, q.version, row)
<1>1. /\ calls[w] # <<>> /\ Arg(w).do = "UpsertVersion"
      /\ IF closed /\ q.by # "admin" THEN Refuse(w) ELSE Go(w, <<write, Denormalize>>)
  BY DEF UpsertVersion, Now, Arg
<1>2. Effect(q, Arg(w), Store) = IF closed /\ q.by # "admin" THEN {Memory!Failed(Store)}
                                 ELSE Memory!Denormalized(written)
  <2>1. Effect(q, Arg(w), Store) = Memory!UpsertVersion(Store, q.version, q.package, q.by)
    BY <1>1 DEF Effect
  <2> QED
    BY <2>1, StoreRows, SameRules DEF Memory!UpsertVersion
<1>3. Effect(q, write, Store) = {Memory!Done(written)}
  BY DEF Effect
<1> HIDE DEF written, write
<1>4. Effect(q, Denormalize, written) = Memory!Denormalized(written)
  BY DEF Effect, Denormalize, Do
<1>5. CASE closed /\ q.by # "admin"
  BY <1>1, <1>2, <1>5, FitRefuse
<1>6. CASE ~(closed /\ q.by # "admin")
  <2>1. \A e \in Effect(q, write, Store) :
         IF e.ok THEN Effect(q, Denormalize, e.store) \subseteq Effect(q, Arg(w), Store)
         ELSE e \in Effect(q, Arg(w), Store)
    BY <1>2, <1>3, <1>4, <1>6, DoneIs
  <2> QED
    BY <1>1, <1>6, <2>1, FitTwo
<1> QED
  BY <1>5, <1>6

\* The latest version is set.
LEMMA SetLatestVersionFits ==
  ASSUME Inv, NEW w \in Workers, NEW X, Fits(request[w], X, Store, calls[w]), SetLatestVersion(w)
  PROVE  Fits(request[w], X, Store', calls'[w])
<1> DEFINE q == request[w]
           v == Arg(w).version
           open == releases[v].status = "published"
           written == Memory!SetLatest(Store, v)
<1>1. /\ calls[w] # <<>> /\ Arg(w).do = "SetLatestVersion"
      /\ IF open THEN Go(w, <<DoVersion("PointLatest", v), Denormalize>>) ELSE Refuse(w)
  BY DEF SetLatestVersion, Now, Arg
<1>2. Effect(q, Arg(w), Store) = Memory!SetLatestVersion(Store, v)
  BY <1>1 DEF Effect
<1>3. Memory!PointLatest(Store, v) = IF open THEN {Memory!Done(written)} ELSE {Memory!Failed(Store)}
  BY StoreRows DEF Memory!PointLatest, Memory!Guarded
<1>4. Effect(q, DoVersion("PointLatest", v), Store) = {Memory!Done(written)}
  BY DEF Effect, DoVersion
<1> HIDE DEF written
<1>5. Effect(q, Denormalize, written) = Memory!Denormalized(written)
  BY DEF Effect, Denormalize, Do
<1>6. CASE ~open
  <2>1. Memory!Failed(Store) \in Effect(q, Arg(w), Store)
    BY <1>2, <1>3, <1>6, DoneIs DEF Memory!SetLatestVersion, Memory!AndThen
  <2> QED
    BY <1>1, <1>6, <2>1, FitRefuse
<1>7. CASE open
  <2>1. Memory!Denormalized(written) \subseteq Effect(q, Arg(w), Store)
    BY <1>2, <1>3, <1>7, DoneIs DEF Memory!SetLatestVersion, Memory!AndThen
  <2>2. \A e \in Effect(q, DoVersion("PointLatest", v), Store) :
         IF e.ok THEN Effect(q, Denormalize, e.store) \subseteq Effect(q, Arg(w), Store)
         ELSE e \in Effect(q, Arg(w), Store)
    BY <1>4, <1>5, <2>1, DoneIs
  <2> QED
    BY <1>1, <1>7, <2>2, FitTwo
<1> QED
  BY <1>6, <1>7

\* What the item shows is looked for, by the row as it is read.
LEMMA DenormalizeFits ==
  ASSUME Inv, NEW w \in Workers, NEW X, Fits(request[w], X, Store, calls[w]), DenormalizeLatest(w)
  PROVE  Fits(request[w], X, Store', calls'[w])
<1> DEFINE q == request[w]
           c == [do |-> "Display", version |-> item.version, latest |-> item.latest]
           public == With(releases, {"published"})
<1>1. calls[w] # <<>> /\ Arg(w).do = "Denormalize" /\ Go(w, <<c>>)
  BY DEF DenormalizeLatest, Now, Arg
<1>2. Effect(q, Arg(w), Store) = Memory!Denormalized(Store)
  BY <1>1 DEF Effect
<1>3. Memory!Displayed(Store) = IF item.latest \in public THEN {item.latest} ELSE Listed(Store, item.version)
  BY StoreRows, SameRules DEF Memory!Displayed, Listed
<1>4. Effect(q, c, Store) = {Memory!Done(Memory!Show(Store, v, item.latest)) :
            v \in IF item.latest \in public THEN {item.latest} ELSE Listed(Store, item.version)}
  BY StoreRows DEF Effect
<1> HIDE DEF c, public
<1>5. Effect(q, c, Store) \subseteq Effect(q, Arg(w), Store)
  BY <1>2, <1>3, <1>4, StoreRows DEF Memory!Denormalized
<1> QED
  BY <1>1, <1>5, FitOne

\* What a version that is shown makes of the row.
LEMMA ShowEffect ==
  ASSUME Inv, NEW q, NEW v, NEW latest
  PROVE  Effect(q, Show(v, latest), Store) = {Memory!Done(Memory!Show(Store, v, latest))}
<1> DEFINE c == Show(v, latest)
<1>1. /\ c.do = "WriteShown" /\ c.version = v /\ c.package = releases[v].package
      /\ c.latest = IF releases[v].status = "published" THEN v ELSE latest
  BY DEF Show
<1> HIDE DEF c
<1>2. Effect(q, c, Store)
        = {Memory!Done(Memory!SetLatest(Memory!SetShown(Store, c.version, c.package), c.latest))}
  BY <1>1 DEF Effect
<1> QED
  BY <1>1, <1>2, StoreRows DEF Memory!Show, c

\* The latest version is shown, or the others are listed.
LEMMA DisplayVersionFits ==
  ASSUME Inv, NEW w \in Workers, NEW X, Fits(request[w], X, Store, calls[w]), DisplayVersion(w)
  PROVE  Fits(request[w], X, Store', calls'[w])
<1> DEFINE q == request[w]
           latest == Arg(w).latest
           next == [Arg(w) EXCEPT !.do = "DisplayListed"]
<1>1. calls[w] # <<>> /\ Arg(w).do = "Display"
  BY DEF DisplayVersion, Now, Arg
<1>2. Effect(q, Arg(w), Store) = {Memory!Done(Memory!Show(Store, v, latest)) :
            v \in IF latest \in With(releases, {"published"}) THEN {latest} ELSE Listed(Store, Arg(w).version)}
  BY <1>1, StoreRows DEF Effect
<1>3. CASE latest \in With(releases, {"published"})
  <2>1. Go(w, <<Show(latest, latest)>>)
    BY <1>3 DEF DisplayVersion
  <2>2. Effect(q, Show(latest, latest), Store) \subseteq Effect(q, Arg(w), Store)
    BY <1>2, <1>3, ShowEffect
  <2> QED
    BY <1>1, <2>1, <2>2, FitOne
<1>4. CASE latest \notin With(releases, {"published"})
  <2>1. Go(w, <<next>>)
    BY <1>4 DEF DisplayVersion
  <2>2. next = [do |-> "DisplayListed", version |-> Arg(w).version, latest |-> latest]
    BY <1>1, AtCall, DisplayCall
  <2>3. Effect(q, next, Store) = {Memory!Done(Memory!Show(Store, v, latest)) : v \in Listed(Store, Arg(w).version)}
    BY <2>2 DEF Effect
  <2> HIDE DEF next, latest
  <2>4. Effect(q, next, Store) \subseteq Effect(q, Arg(w), Store)
    BY <1>2, <1>4, <2>3
  <2> QED
    BY <1>1, <2>1, <2>4, FitOne
<1> QED
  BY <1>3, <1>4

\* One of those listed is shown.
LEMMA DisplayListedFits ==
  ASSUME Inv, NEW w \in Workers, NEW X, Fits(request[w], X, Store, calls[w]), DisplayListed(w)
  PROVE  Fits(request[w], X, Store', calls'[w])
<1> DEFINE q == request[w]
           latest == Arg(w).latest
<1>1. calls[w] # <<>> /\ Arg(w).do = "DisplayListed"
  BY DEF DisplayListed, Now, Arg
<1>2. Effect(q, Arg(w), Store) = {Memory!Done(Memory!Show(Store, v, latest)) : v \in Listed(Store, Arg(w).version)}
  BY <1>1 DEF Effect
<1>3. PICK v \in Listed(Store, Arg(w).version) : Go(w, <<Show(v, latest)>>)
  BY StoreRows DEF DisplayListed, Listed
<1>4. Effect(q, Show(v, latest), Store) \subseteq Effect(q, Arg(w), Store)
  BY <1>2, <1>3, ShowEffect
<1> QED
  BY <1>1, <1>3, <1>4, FitOne

\* Another version is pointed to, or the item's row is read.
LEMMA RepointFits ==
  ASSUME Inv, NEW w \in Workers, NEW X, Fits(request[w], X, Store, calls[w]), Repoint(w)
  PROVE  Fits(request[w], X, Store', calls'[w])
<1> DEFINE q == request[w]
           public == With(releases, {"published"})
<1>1. calls[w] # <<>> /\ Arg(w).do = "Repoint"
  BY DEF Repoint, Now, Arg
<1>2. Effect(q, Arg(w), Store) = Repointed(Store)
  BY <1>1 DEF Effect
<1>3. CASE public = {}
  <2>1. Go(w, <<Do("DeprecateItem")>>)
    BY <1>3 DEF Repoint
  <2>2. Effect(q, Do("DeprecateItem"), Store) = Deprecated(Store)
    BY DEF Effect, Do
  <2>3. Repointed(Store) = Deprecated(Store)
    BY <1>3, StoreRows DEF Repointed
  <2> QED
    BY <1>1, <1>2, <2>1, <2>2, <2>3, FitOne
<1>4. CASE public # {}
  <2>1. PICK v \in public : Go(w, <<DoVersion("PointLatest", v)>>)
    BY <1>4 DEF Repoint
  <2>2. Effect(q, DoVersion("PointLatest", v), Store) = {Memory!Done(Memory!SetLatest(Store, v))}
    BY DEF Effect, DoVersion
  <2>3. Effect(q, DoVersion("PointLatest", v), Store) \subseteq Effect(q, Arg(w), Store)
    BY <1>2, <1>4, <2>2, StoreRows DEF Repointed
  <2> QED
    BY <1>1, <2>1, <2>3, FitOne
<1> QED
  BY <1>3, <1>4

\* The item goes too, unless it may not.
LEMMA DeprecateItemFits ==
  ASSUME Inv, NEW w \in Workers, NEW X, Fits(request[w], X, Store, calls[w]), DeprecateItem(w)
  PROVE  Fits(request[w], X, Store', calls'[w])
<1> DEFINE q == request[w]
           goes == item.status # "deprecated" /\ TransitionAllowed(item.status, "deprecated")
<1>1. /\ calls[w] # <<>> /\ Arg(w).do = "DeprecateItem"
      /\ IF goes THEN Go(w, <<DoTo("SetPluginStatus", "deprecated")>>) ELSE Go(w, <<>>)
  BY DEF DeprecateItem, Now, Arg
<1>2. Effect(q, Arg(w), Store) = Deprecated(Store)
  BY <1>1 DEF Effect
<1>3. Deprecated(Store) = IF goes THEN Memory!SetPluginStatus(Store, "deprecated") ELSE {Memory!Done(Store)}
  BY StoreRows DEF Deprecated
<1>4. Effect(q, DoTo("SetPluginStatus", "deprecated"), Store) = Memory!SetPluginStatus(Store, "deprecated")
  BY DEF Effect, DoTo
<1>5. CASE goes
  BY <1>1, <1>2, <1>3, <1>4, <1>5, FitOne
<1>6. CASE ~goes
  BY <1>1, <1>2, <1>3, <1>6, FitNone
<1> QED
  BY <1>5, <1>6

\* The item's status is applied to a version, and then set.
LEMMA SetPluginStatusFits ==
  ASSUME Inv, NEW w \in Workers, NEW X, Fits(request[w], X, Store, calls[w]), SetPluginStatus(w)
  PROVE  Fits(request[w], X, Store', calls'[w])
<1> DEFINE q == request[w]
           to == Arg(w).to
           open == TransitionAllowed(item.status, to)
           a == DoTo("ApplyItemStatus", to)
           b == DoTo("FinishStatus", to)
<1>1. /\ calls[w] # <<>> /\ Arg(w).do = "SetPluginStatus"
      /\ IF open THEN Go(w, <<a, b>>) ELSE Refuse(w)
  BY DEF SetPluginStatus, Now, Arg
<1>2. Effect(q, Arg(w), Store) = Memory!SetPluginStatus(Store, to)
  BY <1>1 DEF Effect
<1>3. Effect(q, a, Store) = Memory!ApplyItemStatusToVersions(Store, to)
  BY DEF Effect, DoTo
<1>4. \A t : Effect(q, b, t) = Memory!Guarded(to = "published" => Ready(t.item.package), t,
                                              {Memory!Done(Memory!SetStatus(t, to))})
  BY DEF Effect, DoTo
<1> HIDE DEF a, b, to
<1>5. CASE ~open
  <2>1. Memory!Failed(Store) \in Effect(q, Arg(w), Store)
    BY <1>2, <1>5, StoreRows, SameRules DEF Memory!SetPluginStatus, Memory!Guarded
  <2> QED
    BY <1>1, <1>5, <2>1, FitRefuse
<1>6. CASE open
  <2>1. \A e \in Memory!ApplyItemStatusToVersions(Store, to) :
          IF e.ok THEN Memory!Guarded(to = "published" => Ready(e.store.item.package), e.store,
                                      {Memory!Done(Memory!SetStatus(e.store, to))})
                         \subseteq Memory!SetPluginStatus(Store, to)
          ELSE e \in Memory!SetPluginStatus(Store, to)
    BY <1>6, StoreRows, SameRules DEF Memory!SetPluginStatus, Memory!Guarded, Memory!AndThen
  <2>2. \A e \in Effect(q, a, Store) :
         IF e.ok THEN Effect(q, b, e.store) \subseteq Effect(q, Arg(w), Store)
         ELSE e \in Effect(q, Arg(w), Store)
    BY <1>2, <1>3, <1>4, <2>1
  <2> QED
    BY <1>1, <1>6, <2>2, FitTwo
<1> QED
  BY <1>5, <1>6

\* The row tells the version to be preferred.
LEMMA ApplyItemStatusFits ==
  ASSUME Inv, NEW w \in Workers, NEW X, Fits(request[w], X, Store, calls[w]), ApplyItemStatus(w)
  PROVE  Fits(request[w], X, Store', calls'[w])
<1> DEFINE q == request[w]
           c == [do |-> "ApplyToVersions", to |-> Arg(w).to, preferred |-> Preferred(item)]
<1>1. calls[w] # <<>> /\ Arg(w).do = "ApplyItemStatus" /\ Go(w, <<c>>)
  BY DEF ApplyItemStatus, Now, Arg
<1>2. Effect(q, Arg(w), Store) = Memory!ApplyItemStatusToVersions(Store, Arg(w).to)
  BY <1>1 DEF Effect
<1>3. Effect(q, c, Store) = Memory!ApplyTo(Store, Picked(releases, Preferred(item), Arg(w).to), Arg(w).to)
  BY StoreRows DEF Effect
<1>4. Effect(q, c, Store) = Effect(q, Arg(w), Store)
  BY <1>2, <1>3, StoreRows, SameRules DEF Memory!ApplyItemStatusToVersions
<1> HIDE DEF c
<1> QED
  BY <1>1, <1>4, FitOne

\* The item's status is set, unless there is nothing to publish.
LEMMA FinishStatusFits ==
  ASSUME Inv, NEW w \in Workers, NEW X, Fits(request[w], X, Store, calls[w]), FinishStatus(w)
  PROVE  Fits(request[w], X, Store', calls'[w])
<1> DEFINE q == request[w]
           to == Arg(w).to
           shut == to = "published" /\ ~Ready(item.package)
           a == DoTo("WriteItemStatus", to)
<1>1. /\ calls[w] # <<>> /\ Arg(w).do = "FinishStatus"
      /\ IF shut THEN Refuse(w) ELSE Go(w, <<a>>)
  BY DEF FinishStatus, Now, Arg
<1>2. Effect(q, Arg(w), Store) = IF shut THEN {Memory!Failed(Store)}
                                 ELSE {Memory!Done(Memory!SetStatus(Store, to))}
  BY <1>1, StoreRows DEF Effect, Memory!Guarded
<1>3. Effect(q, a, Store) = {Memory!Done(Memory!SetStatus(Store, to))}
  BY DEF Effect, DoTo
<1> HIDE DEF a
<1>4. CASE shut
  BY <1>1, <1>2, <1>4, FitRefuse
<1>5. CASE ~shut
  BY <1>1, <1>2, <1>3, <1>5, FitOne
<1> QED
  BY <1>4, <1>5

\* The item is put on the shelf, by way of its approval where it has to.
LEMMA PublishFits ==
  ASSUME Inv, NEW w \in Workers, NEW X, Fits(request[w], X, Store, calls[w]), Publish(w)
  PROVE  Fits(request[w], X, Store', calls'[w])
<1> DEFINE q == request[w]
           a == DoTo("SetPluginStatus", "approved")
           b == DoTo("SetPluginStatus", "published")
<1>1. calls[w] # <<>> /\ Arg(w).do = "Publish"
  BY DEF Publish, Now, Arg
<1>2. Effect(q, Arg(w), Store) = Memory!Publish(Store)
  BY <1>1 DEF Effect
<1>3. /\ Effect(q, a, Store) = Memory!SetPluginStatus(Store, "approved")
      /\ \A t : Effect(q, b, t) = Memory!SetPluginStatus(t, "published")
  BY DEF Effect, DoTo
<1> HIDE DEF a, b
<1>4. CASE item.status = "published"
  <2>1. Go(w, <<>>)
    BY <1>4 DEF Publish
  <2>2. Memory!Done(Store) \in Effect(q, Arg(w), Store)
    BY <1>2, <1>4, StoreRows DEF Memory!Publish
  <2> QED
    BY <1>1, <2>1, <2>2, FitNone
<1>5. CASE item.status \in {"approved", "hidden"}
  <2>1. Go(w, <<b>>)
    BY <1>5 DEF Publish, b
  <2>2. Effect(q, Arg(w), Store) = Memory!SetPluginStatus(Store, "published")
    BY <1>2, <1>5, StoreRows DEF Memory!Publish
  <2> QED
    BY <1>1, <1>3, <2>1, <2>2, FitOne
<1>6. CASE item.status \notin {"published", "approved", "hidden"}
  <2>1. Go(w, <<a, b>>)
    BY <1>6 DEF Publish, a, b
  <2>2. \A e \in Memory!SetPluginStatus(Store, "approved") :
          IF e.ok THEN Memory!SetPluginStatus(e.store, "published") \subseteq Memory!Publish(Store)
          ELSE e \in Memory!Publish(Store)
    BY <1>6, StoreRows DEF Memory!Publish, Memory!AndThen
  <2>3. \A e \in Effect(q, a, Store) :
         IF e.ok THEN Effect(q, b, e.store) \subseteq Effect(q, Arg(w), Store)
         ELSE e \in Effect(q, Arg(w), Store)
    BY <1>2, <1>3, <2>2
  <2> QED
    BY <1>1, <2>1, <2>3, FitTwo
<1> QED
  BY <1>4, <1>5, <1>6

\* The row is edited.
LEMMA UpdatePluginMetadataFits ==
  ASSUME Inv, NEW w \in Workers, NEW X, Fits(request[w], X, Store, calls[w]), UpdatePluginMetadata(w)
  PROVE  Fits(request[w], X, Store', calls'[w])
<1> DEFINE q == request[w]
           package == IF Ready(q.package) THEN q.package ELSE item.package
           shut == item.status = "published" /\ ~Ready(package)
           a == [do |-> "WriteMetadata", version |-> q.version, package |-> package]
           written == Memory!SetShown(Store, q.version, package)
<1>1. /\ calls[w] # <<>> /\ Arg(w).do = "UpdatePluginMetadata"
      /\ IF shut THEN Refuse(w) ELSE Go(w, <<a>>)
  BY DEF UpdatePluginMetadata, Now, Arg
<1>2. q.version \in Versions /\ package \in Archives
  <2>1. q \in Requests /\ Arg(w) \in Todo(q, released)
    BY <1>1, AtCall
  <2>2. q.version \in Versions
    BY <1>1, <2>1, NamingCall DEF Naming
  <2>3. item.package \in Archives
    BY StoreRows, Columns
  <2> QED
    BY <2>1, <2>2, <2>3, Named
<1>3. written.item.package = package
  BY <1>2, StoreRows, ShownSet
<1>4. Effect(q, a, Store) = {Memory!Done(written)}
  BY DEF Effect
<1> HIDE DEF a
<1>5. Effect(q, Arg(w), Store) = IF shut THEN {Memory!Failed(Store)} ELSE {Memory!Done(written)}
  <2>1. Effect(q, Arg(w), Store) = Memory!UpdatePluginMetadata(Store, q.version, q.package)
    BY <1>1 DEF Effect
  <2>2. Memory!UpdatePluginMetadata(Store, q.version, q.package)
          = Memory!Guarded(Store.item.status = "published" => Ready(written.item.package), Store,
                           {Memory!Done(written)})
    BY StoreRows, SameRules DEF Memory!UpdatePluginMetadata
  <2> HIDE DEF written
  <2> QED
    BY <1>3, <2>1, <2>2, StoreRows DEF Memory!Guarded
<1>6. CASE shut
  BY <1>1, <1>5, <1>6, FitRefuse
<1>7. CASE ~shut
  BY <1>1, <1>4, <1>5, <1>7, FitOne
<1> QED
  BY <1>6, <1>7

\* The developer submits what has a package.
LEMMA SubmitItemFits ==
  ASSUME Inv, NEW w \in Workers, NEW X, Fits(request[w], X, Store, calls[w]), SubmitItem(w)
  PROVE  Fits(request[w], X, Store', calls'[w])
<1> DEFINE q == request[w]
           a == DoTo("SetPluginStatus", "review")
<1>1. /\ calls[w] # <<>> /\ Arg(w).do = "SubmitItem"
      /\ IF Ready(item.package) THEN Go(w, <<a>>) ELSE Refuse(w)
  BY DEF SubmitItem, Now, Arg
<1>2. Effect(q, Arg(w), Store) = IF Ready(item.package) THEN Memory!SetPluginStatus(Store, "review")
                                 ELSE {Memory!Failed(Store)}
  BY <1>1, StoreRows DEF Effect, Memory!Guarded
<1>3. Effect(q, a, Store) = Memory!SetPluginStatus(Store, "review")
  BY DEF Effect, DoTo
<1> HIDE DEF a
<1>4. CASE Ready(item.package)
  BY <1>1, <1>2, <1>3, <1>4, FitOne
<1>5. CASE ~Ready(item.package)
  BY <1>1, <1>2, <1>5, FitRefuse
<1> QED
  BY <1>4, <1>5

\* What the developer submits for review.
LEMMA SubmitVersionFits ==
  ASSUME Inv, NEW w \in Workers, NEW X, Fits(request[w], X, Store, calls[w]), SubmitVersion(w)
  PROVE  Fits(request[w], X, Store', calls'[w])
<1> DEFINE q == request[w]
           v == q.version
           a == [do |-> "SetVersionStatus", version |-> v, to |-> "pending"]
           open == Ready(releases[v].package)
<1>1. /\ calls[w] # <<>> /\ Arg(w).do = "SubmitVersion"
      /\ IF open THEN Go(w, <<a>>) ELSE Refuse(w)
  BY DEF SubmitVersion, Now, Arg
<1>2. Effect(q, Arg(w), Store) = IF open THEN Memory!SetVersionStatus(Store, v, "pending")
                                 ELSE {Memory!Failed(Store)}
  BY <1>1, StoreRows DEF Effect, Memory!Guarded
<1>3. Effect(q, a, Store) = Memory!SetVersionStatus(Store, v, "pending")
  BY DEF Effect
<1> HIDE DEF a
<1>4. CASE open
  BY <1>1, <1>2, <1>3, <1>4, FitOne
<1>5. CASE ~open
  BY <1>1, <1>2, <1>5, FitRefuse
<1> QED
  BY <1>4, <1>5

\* What a change of a version's status comes to.
MayTurn(s, v, to) ==
  /\ s.releases[v].status # "absent"
  /\ VersionTransitionAllowed(s.releases[v].status, to)
  /\ to = "published" => Ready(s.releases[v].package)

\* What a change of a version's status comes to.
LEMMA VersionStatusSet ==
  ASSUME NEW s \in Stores, NEW v \in Versions, NEW to \in Statuses, NEW written,
         written = Memory!SetReleaseStatus(s, v, to)
  PROVE  /\ ~MayTurn(s, v, to) => Memory!SetVersionStatus(s, v, to) = {Memory!Failed(s)}
         /\ MayTurn(s, v, to) /\ to = "published" =>
              Memory!SetVersionStatus(s, v, to) = Memory!Denormalized(Memory!SetLatest(written, v))
         /\ MayTurn(s, v, to) /\ to = "deprecated" =>
              \A e \in Memory!RepointOrDeprecate(written) :
                e.ok => Memory!Denormalized(e.store) \subseteq Memory!SetVersionStatus(s, v, to)
         /\ MayTurn(s, v, to) /\ to \notin {"published", "deprecated"} =>
              Memory!SetVersionStatus(s, v, to) = Memory!Denormalized(written)
<1> DEFINE moved == CASE to = "published" -> Memory!PointLatest(written, v)
                      [] to = "deprecated" -> Memory!RepointOrDeprecate(written)
                      [] OTHER -> {Memory!Done(written)}
<1>1. Memory!SetVersionStatus(s, v, to) =
        IF MayTurn(s, v, to) THEN UNION {IF r.ok THEN Memory!Denormalized(r.store) ELSE {r} : r \in moved}
        ELSE {Memory!Failed(s)}
  BY SameRules DEF Memory!SetVersionStatus, Memory!Guarded, Memory!AndThen, MayTurn
<1>2. written.releases[v].status = to
  BY ReleaseStatusSet
<1>3. to = "published" => moved = {Memory!Done(Memory!SetLatest(written, v))}
  BY <1>2 DEF Memory!PointLatest, Memory!Guarded
<1>4. to = "deprecated" => moved = Memory!RepointOrDeprecate(written)
  OBVIOUS
<1>5. to \notin {"published", "deprecated"} => moved = {Memory!Done(written)}
  OBVIOUS
<1> HIDE DEF moved
<1>6. CASE to = "published"
  BY <1>1, <1>3, <1>6, DoneIs
<1>7. CASE to = "deprecated"
  BY <1>1, <1>4, <1>7
<1>8. CASE to \notin {"published", "deprecated"}
  BY <1>1, <1>5, <1>8, DoneIs
<1> QED
  BY <1>6, <1>7, <1>8

\* No version goes along with an item that is hidden, deprecated or put back to a draft.
LEMMA NonePicked == ASSUME NEW rs, NEW v, NEW to, to \notin {"review", "approved", "rejected", "published"}
                    PROVE  Picked(rs, v, to) = {}
<1>1. Wanted(to) = <<>>
  BY DEF Wanted
<1>2. DOMAIN Wanted(to) = {}
  BY <1>1
<1> QED
  BY <1>2 DEF Picked

\* So that such an item is shown as before, with its status.
LEMMA DeprecatedIs ==
  ASSUME NEW s \in Stores, TransitionAllowed(s.item.status, "deprecated"),
         NEW f \in Memory!SetPluginStatus(s, "deprecated")
  PROVE  \E e \in Memory!Denormalized(s) : f = Memory!Done(Memory!SetStatus(e.store, "deprecated"))
<1>1. Memory!ApplyItemStatusToVersions(s, "deprecated") = Memory!Denormalized(s)
  <2>1. Memory!Picked(s.releases, Memory!Preferred(s.item), "deprecated") = {}
    BY NonePicked, SameRules
  <2> QED
    BY <2>1 DEF Memory!ApplyItemStatusToVersions, Memory!ApplyTo, Memory!Guarded
<1>2. PICK e \in Memory!Denormalized(s) :
        f \in IF e.ok THEN {Memory!Done(Memory!SetStatus(e.store, "deprecated"))} ELSE {e}
  BY <1>1, SameRules DEF Memory!SetPluginStatus, Memory!AndThen, Memory!Guarded
<1>3. e.ok
  BY DenormalizedShows
<1> QED
  BY <1>2, <1>3

\* The item that goes with its last version is shown twice, which is once.
LEMMA WithdrawnOnce ==
  ASSUME NEW s \in Stores, NEW f \in Repointed(s)
  PROVE  f.ok /\ \E e \in Memory!RepointOrDeprecate(s) :
                   e.ok /\ Memory!Denormalized(f.store) \subseteq Memory!Denormalized(e.store)
<1> DEFINE public == With(s.releases, {"published"})
           goes == TransitionAllowed(s.item.status, "deprecated")
           gone == Memory!SetStatus(s, "deprecated")
<1>1. CASE public # {}
  <2>1. PICK v \in public : f = Memory!Done(Memory!SetLatest(s, v))
    BY <1>1 DEF Repointed
  <2>2. f \in Memory!PointLatest(s, v)
    BY <2>1 DEF Memory!PointLatest, Memory!Guarded, With
  <2>3. f \in Memory!RepointOrDeprecate(s)
    BY <1>1, <2>2, SameRules DEF Memory!RepointOrDeprecate
  <2> QED
    BY <2>1, <2>3, DoneIs
<1>2. CASE public = {}
  <2>1. f \in Deprecated(s)
    BY <1>2 DEF Repointed
  <2>2. Memory!RepointOrDeprecate(s) = IF goes THEN {Memory!Done(gone)} ELSE {Memory!Done(s)}
    BY <1>2, SameRules DEF Memory!RepointOrDeprecate
  <2>3. CASE ~goes
    BY <2>1, <2>2, <2>3, DoneIs DEF Deprecated
  <2>4. CASE goes /\ s.item.status = "deprecated"
    <3>1. /\ gone \in Stores /\ gone.item.status = s.item.status /\ gone.item.version = s.item.version
          /\ gone.item.package = s.item.package /\ gone.item.latest = s.item.latest
          /\ gone.releases = s.releases
      BY <2>4, StatusSet DEF ItemStatuses
    <3> HIDE DEF gone
    <3>2. gone = s
      BY <3>1, SameStore
    <3> QED
      BY <2>1, <2>2, <2>4, <3>2, DoneIs DEF Deprecated
  <2>5. CASE goes /\ s.item.status # "deprecated"
    <3>1. PICK e \in Memory!Denormalized(s) : f = Memory!Done(Memory!SetStatus(e.store, "deprecated"))
      BY <2>1, <2>5, DeprecatedIs DEF Deprecated
    <3>2. f.ok /\ f.store = Memory!SetStatus(e.store, "deprecated")
      BY <3>1, DoneIs
    <3>3. /\ f \in Memory!Denormalized(gone)
          /\ \A g \in Memory!Denormalized(f.store) : g = f
      BY <3>1, <3>2, DenormalizedStatus DEF ItemStatuses
    <3>4. Memory!Done(gone) \in Memory!RepointOrDeprecate(s)
      BY <2>2, <2>5
    <3> HIDE DEF gone
    <3> QED
      BY <3>2, <3>3, <3>4, DoneIs
  <2> QED
    BY <2>3, <2>4, <2>5
<1> QED
  BY <1>1, <1>2

\* A version's status is written, what depends on it, and what the item shows.
LEMMA SetVersionStatusFits ==
  ASSUME Inv, NEW w \in Workers, NEW X, Fits(request[w], X, Store, calls[w]), SetVersionStatus(w)
  PROVE  Fits(request[w], X, Store', calls'[w])
<1> DEFINE q == request[w]
           v == Arg(w).version
           to == Arg(w).to
           moves == CASE to = "published" -> <<DoVersion("PointLatest", v)>>
                      [] to = "deprecated" -> <<Do("Repoint")>>
                      [] OTHER -> <<>>
           write == [do |-> "WriteStatus", version |-> v, to |-> to]
           written == Memory!SetReleaseStatus(Store, v, to)
           all == Memory!SetVersionStatus(Store, v, to)
<1>1. /\ calls[w] # <<>> /\ Arg(w).do = "SetVersionStatus"
      /\ IF MayTurn(Store, v, to) THEN Go(w, <<write>> \o moves \o <<Denormalize>>) ELSE Refuse(w)
  BY StoreRows DEF SetVersionStatus, Now, Arg, MayTurn
<1>2. v \in Versions /\ to \in Statuses
  <2>1. Arg(w) \in Todo(q, released)
    BY <1>1, AtCall
  <2> QED
    BY <1>1, <2>1, VersionCall DEF MayVersion, Statuses
<1>3. Effect(q, Arg(w), Store) = all
  BY <1>1 DEF Effect
<1>4. Effect(q, write, Store) = {Memory!Done(written)}
  BY DEF Effect
<1>5. \A t : Effect(q, Denormalize, t) = Memory!Denormalized(t)
  BY DEF Effect, Denormalize, Do
<1>6. written \in Stores
  BY <1>2, StoreRows, ReleaseStatusSet
<1> HIDE DEF write
<1>7. CASE ~MayTurn(Store, v, to)
  <2>1. Memory!Failed(Store) \in all
    BY <1>2, <1>7, StoreRows, VersionStatusSet
  <2> QED
    BY <1>1, <1>3, <1>7, <2>1, FitRefuse
<1>8. CASE MayTurn(Store, v, to) /\ to = "published"
  <2> DEFINE b == DoVersion("PointLatest", v)
  <2>1. Go(w, <<write>> \o <<b>> \o <<Denormalize>>)
    BY <1>1, <1>8
  <2>2. Effect(q, b, written) = {Memory!Done(Memory!SetLatest(written, v))}
    BY DEF Effect, DoVersion
  <2>3. all = Memory!Denormalized(Memory!SetLatest(written, v))
    BY <1>2, <1>8, StoreRows, VersionStatusSet
  <2> HIDE DEF b, written, all
  <2>4. \A e \in Effect(q, write, Store) : e.ok /\ \A f \in Effect(q, b, e.store) :
           IF f.ok THEN Effect(q, Denormalize, f.store) \subseteq Effect(q, Arg(w), Store)
           ELSE f \in Effect(q, Arg(w), Store)
    BY <1>3, <1>4, <1>5, <2>2, <2>3, DoneIs
  <2> QED
    BY <1>1, <2>1, <2>4, FitThree
<1>9. CASE MayTurn(Store, v, to) /\ to = "deprecated"
  <2> DEFINE b == Do("Repoint")
  <2>1. Go(w, <<write>> \o <<b>> \o <<Denormalize>>)
    BY <1>1, <1>9
  <2>2. Effect(q, b, written) = Repointed(written)
    BY DEF Effect, Do
  <2>3. \A e \in Memory!RepointOrDeprecate(written) : e.ok => Memory!Denormalized(e.store) \subseteq all
    BY <1>2, <1>9, StoreRows, VersionStatusSet
  <2> HIDE DEF b, written, all
  <2>4. \A f \in Repointed(written) : f.ok /\ Memory!Denormalized(f.store) \subseteq all
    <3> TAKE f \in Repointed(written)
    <3>1. PICK e \in Memory!RepointOrDeprecate(written) :
            e.ok /\ Memory!Denormalized(f.store) \subseteq Memory!Denormalized(e.store)
      BY <1>6, WithdrawnOnce
    <3> QED
      BY <1>6, <2>3, <3>1, WithdrawnOnce
  <2>5. \A e \in Effect(q, write, Store) : e.ok /\ \A f \in Effect(q, b, e.store) :
           IF f.ok THEN Effect(q, Denormalize, f.store) \subseteq Effect(q, Arg(w), Store)
           ELSE f \in Effect(q, Arg(w), Store)
    BY <1>3, <1>4, <1>5, <2>2, <2>4, DoneIs
  <2> QED
    BY <1>1, <2>1, <2>5, FitThree
<1>10. CASE MayTurn(Store, v, to) /\ to \notin {"published", "deprecated"}
  <2>1. Go(w, <<write>> \o <<>> \o <<Denormalize>>)
    BY <1>1, <1>10
  <2>2. all = Memory!Denormalized(written)
    BY <1>2, <1>10, StoreRows, VersionStatusSet
  <2> HIDE DEF written, all
  <2>3. \A e \in Effect(q, write, Store) :
           IF e.ok THEN Effect(q, Denormalize, e.store) \subseteq Effect(q, Arg(w), Store)
           ELSE e \in Effect(q, Arg(w), Store)
    BY <1>3, <1>4, <1>5, <2>2, DoneIs
  <2> QED
    BY <1>1, <2>1, <2>3, FitTwo
<1> QED
  BY <1>7, <1>8, <1>9, <1>10

\* Every release that is picked is there, with a status that is looked for.
LEMMA PickedIs == ASSUME NEW rs, NEW v, NEW to, NEW u \in Picked(rs, v, to)
                  PROVE  /\ u \in Versions /\ to \in {"review", "approved", "rejected", "published"}
                         /\ rs[u].status \in Statuses
                         /\ to = "rejected" => rs[u].status = "pending"
                         /\ to \in {"approved", "published"} => rs[u].status \in {"pending", "draft", "published"}
<1>1. PICK k \in DOMAIN Wanted(to) : u \in Preferring(v, With(rs, Wanted(to)[k]))
  BY DEF Picked
<1>2. u \in Versions /\ rs[u].status \in Wanted(to)[k]
  BY <1>1 DEF Preferring, With
<1>3. to \in {"review", "approved", "rejected", "published"}
  BY NonePicked
<1>4. /\ Wanted("review") = <<{"draft"}, Statuses>>
      /\ Wanted("approved") = <<{"pending"}, {"draft"}, {"published"}>>
      /\ Wanted("rejected") = <<{"pending"}>>
      /\ Wanted("published") = <<{"published"}, {"pending"}, {"draft"}>>
  BY DEF Wanted
<1>5. CASE to = "review"
  <2>1. k \in {1, 2}
    BY <1>1, <1>4, <1>5
  <2> QED
    BY <1>2, <1>4, <1>5, <2>1 DEF Statuses
<1>6. CASE to = "approved"
  <2>1. k \in {1, 2, 3}
    BY <1>1, <1>4, <1>6
  <2> QED
    BY <1>2, <1>4, <1>6, <2>1 DEF Statuses
<1>7. CASE to = "rejected"
  <2>1. k = 1
    BY <1>1, <1>4, <1>7
  <2> QED
    BY <1>2, <1>4, <1>7, <2>1 DEF Statuses
<1>8. CASE to = "published"
  <2>1. k \in {1, 2, 3}
    BY <1>1, <1>4, <1>8
  <2> QED
    BY <1>2, <1>4, <1>8, <2>1 DEF Statuses
<1> QED
  BY <1>3, <1>5, <1>6, <1>7, <1>8

\* What the item's status makes of the version it takes along is what the item then shows.
LEMMA TakenIn ==
  ASSUME NEW s \in Stores, NEW P, NEW to, NEW v \in P, NEW e \in Memory!StatusTaken(s, v, to)
  PROVE  IF e.ok THEN Memory!Denormalized(e.store) \subseteq Memory!ApplyTo(s, P, to)
         ELSE e \in Memory!ApplyTo(s, P, to)
BY DEF Memory!ApplyTo, Memory!AndThen

\* The version is taken along by a change of its own status.
LEMMA TurnedIn ==
  ASSUME NEW s \in Stores, NEW rs, rs = s.releases, NEW p, NEW to, NEW v \in Picked(rs, p, to), NEW new,
         \/ to = "review" /\ new = "pending" /\ s.releases[v].status \in {"draft", "deprecated"}
         \/ to = "rejected" /\ new = "draft"
         \/ /\ to \in {"approved", "published"} /\ new = "published"
            /\ s.releases[v].status \in {"pending", "draft"},
         NEW e \in Memory!SetVersionStatus(s, v, new)
  PROVE  IF e.ok THEN Memory!Denormalized(e.store) \subseteq Memory!ApplyTo(s, Picked(rs, p, to), to)
         ELSE e \in Memory!ApplyTo(s, Picked(rs, p, to), to)
<1> DEFINE all == Memory!ApplyTo(s, Picked(rs, p, to), to)
           status == s.releases[v].status
           written == Memory!SetReleaseStatus(s, v, new)
           latest == Memory!SetLatest(written, v)
<1>1. v \in Versions /\ new \in Statuses /\ status \in Statuses
  BY PickedIs DEF Statuses
<1>2. written \in Stores /\ written.releases[v].status = new
  BY <1>1, ReleaseStatusSet
<1>3. latest \in Stores
  BY <1>1, <1>2, LatestSet DEF Names
<1>4. CASE ~MayTurn(s, v, new)
  <2>1. e = Memory!Failed(s)
    BY <1>1, <1>4, VersionStatusSet
  <2>2. Memory!Failed(s) \in Memory!StatusTaken(s, v, to)
    <3>1. CASE to = "review"
      <4>1. status = "deprecated"
        BY <1>4, <3>1 DEF MayTurn, VersionTransitionAllowed
      <4> QED
        BY <3>1, <4>1 DEF Memory!StatusTaken
    <3>2. CASE to = "rejected"
      <4>1. status = "pending"
        BY <3>2, PickedIs
      <4> QED
        BY <1>4, <3>2, <4>1 DEF MayTurn, VersionTransitionAllowed
    <3>3. CASE to \in {"approved", "published"}
      <4>1. ~Ready(s.releases[v].package) /\ status \in {"pending", "draft"}
        BY <1>4, <3>3 DEF MayTurn, VersionTransitionAllowed
      <4> QED
        BY <3>3, <4>1, SameRules DEF Memory!StatusTaken, Memory!Guarded
    <3> QED
      BY <3>1, <3>2, <3>3
  <2> QED
    BY <2>1, <2>2, TakenIn, DoneIs
<1>5. CASE MayTurn(s, v, new) /\ new = "published"
  <2>1. Memory!SetVersionStatus(s, v, new) = Memory!Denormalized(latest)
    BY <1>1, <1>5, VersionStatusSet
  <2>2. Memory!Done(latest) \in Memory!StatusTaken(s, v, to)
    <3>1. to \in {"approved", "published"} /\ Ready(s.releases[v].package)
      BY <1>5 DEF MayTurn
    <3>2. Memory!PointLatest(written, v) = {Memory!Done(latest)}
      BY <1>2, <1>5 DEF Memory!PointLatest, Memory!Guarded
    <3>3. Memory!StatusTaken(s, v, to) = Memory!PointLatest(written, v)
      BY <1>5, <3>1, SameRules DEF Memory!StatusTaken, Memory!Guarded
    <3> QED
      BY <3>2, <3>3
  <2> HIDE DEF latest
  <2>3. Memory!Denormalized(latest) \subseteq all
    BY <2>2, TakenIn, DoneIs
  <2> QED
    BY <1>3, <2>1, <2>3, DenormalizedTwice, DenormalizedShows
<1>6. CASE MayTurn(s, v, new) /\ new # "published"
  <2>1. Memory!SetVersionStatus(s, v, new) = Memory!Denormalized(written)
    BY <1>1, <1>6, VersionStatusSet
  <2>2. Memory!Done(written) \in Memory!StatusTaken(s, v, to)
    <3>1. CASE to = "review"
      <4>1. status = "draft" /\ new = "pending"
        BY <1>6, <3>1 DEF MayTurn, VersionTransitionAllowed
      <4> QED
        BY <3>1, <4>1 DEF Memory!StatusTaken
    <3>2. CASE to = "rejected"
      BY <3>2 DEF Memory!StatusTaken
    <3> QED
      BY <1>6, <3>1, <3>2
  <2> HIDE DEF written
  <2>3. Memory!Denormalized(written) \subseteq all
    BY <2>2, TakenIn, DoneIs
  <2> QED
    BY <1>2, <2>1, <2>3, DenormalizedTwice, DenormalizedShows
<1> QED
  BY <1>4, <1>5, <1>6

\* The version that is taken along is changed, or pointed to, or left as it is.
LEMMA ApplyToVersionsFits ==
  ASSUME Inv, NEW w \in Workers, NEW X, Fits(request[w], X, Store, calls[w]), ApplyToVersions(w)
  PROVE  Fits(request[w], X, Store', calls'[w])
<1> DEFINE q == request[w]
           to == Arg(w).to
           P == Picked(releases, Arg(w).preferred, to)
           all == Memory!ApplyTo(Store, P, to)
           set(v, new) == <<[do |-> "SetVersionStatus", version |-> v, to |-> new]>>
           status(v) == releases[v].status
           taken(v) == CASE to = "review" /\ status(v) \in {"published", "pending"} -> <<>>
                         [] to = "review" /\ status(v) \in {"draft", "deprecated"} -> set(v, "pending")
                         [] to = "rejected" -> set(v, "draft")
                         [] to # "review" /\ status(v) = "published" -> <<DoVersion("PointLatest", v)>>
                         [] OTHER -> set(v, "published")
<1>1. /\ calls[w] # <<>> /\ Arg(w).do = "ApplyToVersions"
      /\ IF P # {} THEN \E v \in P : Go(w, taken(v) \o <<Denormalize>>)
         ELSE IF to \in {"review", "approved", "published"} THEN Refuse(w)
              ELSE Go(w, <<Denormalize>>)
  BY DEF ApplyToVersions, Now, Arg
<1>2. Effect(q, Arg(w), Store) = all
  BY <1>1, StoreRows DEF Effect
<1>3. \A t : Effect(q, Denormalize, t) = Memory!Denormalized(t)
  BY DEF Effect, Denormalize, Do
<1>4. CASE P = {} /\ to \in {"review", "approved", "published"}
  <2>1. Memory!Failed(Store) \in all
    BY <1>4 DEF Memory!ApplyTo, Memory!Guarded
  <2> QED
    BY <1>1, <1>2, <1>4, <2>1, FitRefuse
<1>5. CASE P = {} /\ to \notin {"review", "approved", "published"}
  <2>1. all = Memory!Denormalized(Store)
    BY <1>5 DEF Memory!ApplyTo, Memory!Guarded
  <2> QED
    BY <1>1, <1>2, <1>3, <1>5, <2>1, FitOne
<1>6. ASSUME NEW v \in P, Go(w, taken(v) \o <<Denormalize>>)
      PROVE  Fits(request[w], X, Store', calls'[w])
  <2>1. /\ v \in Versions /\ to \in {"review", "approved", "rejected", "published"}
        /\ status(v) \in Statuses
        /\ to = "rejected" => status(v) = "pending"
        /\ to \in {"approved", "published"} => status(v) \in {"pending", "draft", "published"}
    BY <1>6, PickedIs
  <2>2. Store \in Stores /\ Store.releases = releases
    BY StoreRows
  <2>3. CASE to = "review" /\ status(v) \in {"published", "pending"}
    <3>1. taken(v) = <<>> /\ <<>> \o <<Denormalize>> = <<Denormalize>>
      BY <2>3, FirstOne
    <3>2. Go(w, <<Denormalize>>)
      BY <1>6, <3>1
    <3>3. Memory!Done(Store) \in Memory!StatusTaken(Store, v, to)
      <4>1. ASSUME status(v) = "pending" PROVE Memory!SetReleaseStatus(Store, v, "pending") = Store
        <5>1. "pending" \in Statuses
          BY DEF Statuses
        <5>2. Store.releases[v].status = "pending"
          BY <2>2, <4>1
        <5> QED
          BY <2>1, <2>2, <5>1, <5>2, ReleaseStatusSet, SMTT(30)
      <4> QED
        BY <2>2, <2>3, <4>1 DEF Memory!StatusTaken
    <3>4. Memory!Denormalized(Store) \subseteq all
      BY <1>6, <2>2, <3>3, TakenIn, DoneIs
    <3> QED
      BY <1>1, <1>2, <1>3, <3>2, <3>4, FitOne
  <2>4. CASE to \in {"approved", "published"} /\ status(v) = "published"
    <3> DEFINE a == DoVersion("PointLatest", v)
               latest == Memory!SetLatest(Store, v)
    <3>1. Go(w, <<a>> \o <<Denormalize>>)
      BY <1>6, <2>4
    <3>2. Effect(q, a, Store) = {Memory!Done(latest)}
      BY DEF Effect, DoVersion
    <3>3. Memory!Done(latest) \in Memory!StatusTaken(Store, v, to)
      <4>1. Memory!SetReleaseStatus(Store, v, "published") = Store
        BY <2>1, <2>2, <2>4, ReleaseStatusSet DEF Statuses
      <4>2. Memory!StatusTaken(Store, v, to) = Memory!PointLatest(Store, v)
        BY <2>2, <2>4, <4>1 DEF Memory!StatusTaken, Memory!Guarded
      <4> QED
        BY <2>2, <2>4, <4>2 DEF Memory!PointLatest, Memory!Guarded
    <3> HIDE DEF a, latest, all
    <3>4. Memory!Denormalized(latest) \subseteq all
      BY <1>6, <2>2, <3>3, TakenIn, DoneIs DEF all
    <3>5. \A e \in Effect(q, a, Store) :
            IF e.ok THEN Effect(q, Denormalize, e.store) \subseteq Effect(q, Arg(w), Store)
            ELSE e \in Effect(q, Arg(w), Store)
      BY <1>2, <1>3, <3>2, <3>4, DoneIs
    <3> QED
      BY <1>1, <3>1, <3>5, FitTwo
  <2>5. ASSUME NEW new,
               \/ to = "review" /\ new = "pending" /\ status(v) \in {"draft", "deprecated"}
               \/ to = "rejected" /\ new = "draft"
               \/ to \in {"approved", "published"} /\ new = "published" /\ status(v) \in {"pending", "draft"}
        PROVE  Fits(request[w], X, Store', calls'[w])
    <3> DEFINE a == [do |-> "SetVersionStatus", version |-> v, to |-> new]
    <3>1. Go(w, <<a>> \o <<Denormalize>>)
      <4>1. taken(v) = set(v, new)
        <5> HIDE DEF set
        <5>1. CASE to = "review"
          BY <2>5, <5>1
        <5>2. CASE to = "rejected"
          BY <2>1, <2>5, <5>2
        <5>3. CASE to \in {"approved", "published"}
          BY <2>5, <5>3
        <5> QED
          BY <2>5, <5>1, <5>2, <5>3
      <4> QED
        BY <1>6, <4>1
    <3>2. Effect(q, a, Store) = Memory!SetVersionStatus(Store, v, new)
      BY DEF Effect
    <3> HIDE DEF a
    <3>3. \A e \in Memory!SetVersionStatus(Store, v, new) :
            IF e.ok THEN Memory!Denormalized(e.store) \subseteq all ELSE e \in all
      BY <1>6, <2>2, <2>5, TurnedIn
    <3> HIDE DEF all
    <3>4. \A e \in Effect(q, a, Store) :
            IF e.ok THEN Effect(q, Denormalize, e.store) \subseteq Effect(q, Arg(w), Store)
            ELSE e \in Effect(q, Arg(w), Store)
      BY <1>2, <1>3, <3>2, <3>3
    <3> QED
      BY <1>1, <3>1, <3>4, FitTwo
  <2> QED
    BY <2>1, <2>3, <2>4, <2>5 DEF Statuses
<1> QED
  BY <1>1, <1>4, <1>5, <1>6

--------------------------------------------------------------------------------
(* Statements that write *)

\* The item's row of an upload.
LEMMA WritePluginFits ==
  ASSUME Inv, NEW w \in Workers, NEW X, Fits(request[w], X, Store, calls[w]), WritePlugin(w)
  PROVE  Fits(request[w], X, Store', calls'[w])
<1> DEFINE row == Arg(w).row
           written == Memory!SetShown(Memory!SetStatus(Store, row.status), row.version, row.package)
           i == [item EXCEPT !.status = row.status, !.version = row.version, !.package = row.package]
<1>1. /\ calls[w] # <<>> /\ Arg(w).do = "WritePlugin" /\ Continue(w, <<>>)
      /\ item' = i /\ releases' = releases
  BY DEF WritePlugin, WriteItem, Now, Arg
<1>2. row.status \in ItemStatuses /\ row.version \in Versions /\ row.package \in Archives
  BY <1>1, AtCall, PluginCall
<1>3. /\ i \in Items /\ i.status = row.status /\ i.version = row.version /\ i.package = row.package
      /\ i.latest = item.latest
  BY <1>2 DEF Inv, TypeOK, Items
<1>4. /\ written \in Stores /\ written.item.status = row.status /\ written.item.version = row.version
      /\ written.item.package = row.package /\ written.item.latest = item.latest
      /\ written.releases = releases
  <2> DEFINE t == Memory!SetStatus(Store, row.status)
  <2>1. t \in Stores /\ t.item.status = row.status /\ t.item.latest = item.latest /\ t.releases = releases
    BY <1>2, StoreRows, StatusSet
  <2> HIDE DEF t, row
  <2>2. /\ Memory!SetShown(t, row.version, row.package) \in Stores
        /\ Memory!SetShown(t, row.version, row.package).item.status = row.status
        /\ Memory!SetShown(t, row.version, row.package).item.version = row.version
        /\ Memory!SetShown(t, row.version, row.package).item.package = row.package
        /\ Memory!SetShown(t, row.version, row.package).item.latest = item.latest
        /\ Memory!SetShown(t, row.version, row.package).releases = releases
    BY <1>2, <2>1, ShownSet
  <2> QED
    BY <2>2 DEF t
<1> HIDE DEF i
<1>5. Store' = [item |-> i, releases |-> releases]
  BY <1>1 DEF Store
<1>6. Store' = written
  <2> DEFINE next == [item |-> i, releases |-> releases]
  <2>1. next \in Stores /\ next.item = i /\ next.releases = releases
    BY <1>3, StoreRows DEF Stores
  <2> HIDE DEF next, written
  <2>2. next = written
    BY <1>3, <1>4, <2>1, SameStore
  <2> QED
    BY <1>5, <2>2 DEF next
<1>7. Effect(request[w], Arg(w), Store) = {Memory!Done(written)}
  BY <1>1 DEF Effect
<1> HIDE DEF written
<1> QED
  BY <1>1, <1>6, <1>7, FitWrite

\* The version's row of an upload.
LEMMA WriteVersionFits ==
  ASSUME Inv, NEW w \in Workers, NEW X, Fits(request[w], X, Store, calls[w]), WriteVersion(w)
  PROVE  Fits(request[w], X, Store', calls'[w])
<1> DEFINE v == Arg(w).version
           row == Arg(w).row
           rs == [releases EXCEPT ![v] = row]
           written == Memory!SetRelease(Store, v, row)
<1>1. /\ calls[w] # <<>> /\ Arg(w).do = "WriteVersion" /\ Continue(w, <<>>)
      /\ item' = item /\ releases' = rs
  BY DEF WriteVersion, WriteRelease, Now, Arg
<1>2. written = [item |-> item, releases |-> rs]
  BY DEF Memory!SetRelease, Store
<1>3. Store' = written
  BY <1>1, <1>2 DEF Store
<1>4. Effect(request[w], Arg(w), Store) = {Memory!Done(written)}
  BY <1>1 DEF Effect
<1> HIDE DEF written
<1> QED
  BY <1>1, <1>3, <1>4, FitWrite

\* A version's status.
LEMMA WriteStatusFits ==
  ASSUME Inv, NEW w \in Workers, NEW X, Fits(request[w], X, Store, calls[w]), WriteStatus(w)
  PROVE  Fits(request[w], X, Store', calls'[w])
<1> DEFINE v == Arg(w).version
           row == [releases[v] EXCEPT !.status = Arg(w).to]
           rs == [releases EXCEPT ![v] = row]
           written == Memory!SetReleaseStatus(Store, v, Arg(w).to)
<1>1. /\ calls[w] # <<>> /\ Arg(w).do = "WriteStatus" /\ Continue(w, <<>>)
      /\ item' = item /\ releases' = rs
  BY DEF WriteStatus, WriteRelease, Now, Arg
<1>2. written = [item |-> item, releases |-> rs]
  <2>1. written = Memory!SetRelease(Store, v, row)
    BY StoreRows DEF Memory!SetReleaseStatus
  <2> HIDE DEF row
  <2> QED
    BY <2>1 DEF Memory!SetRelease, Store
<1>3. Store' = written
  BY <1>1, <1>2 DEF Store
<1>4. Effect(request[w], Arg(w), Store) = {Memory!Done(written)}
  BY <1>1 DEF Effect
<1> HIDE DEF written
<1> QED
  BY <1>1, <1>3, <1>4, FitWrite

\* The latest version.
LEMMA PointLatestFits ==
  ASSUME Inv, NEW w \in Workers, NEW X, Fits(request[w], X, Store, calls[w]), PointLatest(w)
  PROVE  Fits(request[w], X, Store', calls'[w])
<1> DEFINE v == Arg(w).version
           i == [item EXCEPT !.latest = v]
           written == Memory!SetLatest(Store, v)
<1>1. /\ calls[w] # <<>> /\ Arg(w).do = "PointLatest" /\ Continue(w, <<>>)
      /\ item' = i /\ releases' = releases
  BY DEF PointLatest, WriteItem, Now, Arg
<1>2. written = [item |-> i, releases |-> releases]
  BY DEF Memory!SetLatest, Store
<1>3. Store' = written
  BY <1>1, <1>2 DEF Store
<1>4. Effect(request[w], Arg(w), Store) = {Memory!Done(written)}
  BY <1>1 DEF Effect
<1> HIDE DEF written
<1> QED
  BY <1>1, <1>3, <1>4, FitWrite

\* The item's status.
LEMMA WriteItemStatusFits ==
  ASSUME Inv, NEW w \in Workers, NEW X, Fits(request[w], X, Store, calls[w]), WriteItemStatus(w)
  PROVE  Fits(request[w], X, Store', calls'[w])
<1> DEFINE to == Arg(w).to
           i == [item EXCEPT !.status = to]
           written == Memory!SetStatus(Store, to)
<1>1. /\ calls[w] # <<>> /\ Arg(w).do = "WriteItemStatus" /\ Continue(w, <<>>)
      /\ item' = i /\ releases' = releases
  BY DEF WriteItemStatus, WriteItem, Now, Arg
<1>2. written = [item |-> i, releases |-> releases]
  BY DEF Memory!SetStatus, Store
<1>3. Store' = written
  BY <1>1, <1>2 DEF Store
<1>4. Effect(request[w], Arg(w), Store) = {Memory!Done(written)}
  BY <1>1 DEF Effect
<1> HIDE DEF written
<1> QED
  BY <1>1, <1>3, <1>4, FitWrite

\* The item's row, edited.
LEMMA WriteMetadataFits ==
  ASSUME Inv, NEW w \in Workers, NEW X, Fits(request[w], X, Store, calls[w]), WriteMetadata(w)
  PROVE  Fits(request[w], X, Store', calls'[w])
<1> DEFINE v == Arg(w).version
           package == Arg(w).package
           i == [item EXCEPT !.version = v, !.package = package]
           written == Memory!SetShown(Store, v, package)
<1>1. /\ calls[w] # <<>> /\ Arg(w).do = "WriteMetadata" /\ Continue(w, <<>>)
      /\ item' = i /\ releases' = releases
  BY DEF WriteMetadata, WriteItem, Now, Arg
<1>2. written = [item |-> i, releases |-> releases]
  <2>1. written = [Store EXCEPT !.item = i]
    BY StoreRows DEF Memory!SetShown
  <2> HIDE DEF i
  <2> QED
    BY <2>1 DEF Store
<1>3. Store' = written
  BY <1>1, <1>2 DEF Store
<1>4. Effect(request[w], Arg(w), Store) = {Memory!Done(written)}
  BY <1>1 DEF Effect
<1> HIDE DEF written
<1> QED
  BY <1>1, <1>3, <1>4, FitWrite

\* The row as it shows a version, and its latest one.
LEMMA WriteShownFits ==
  ASSUME Inv, NEW w \in Workers, NEW X, Fits(request[w], X, Store, calls[w]), WriteShown(w)
  PROVE  Fits(request[w], X, Store', calls'[w])
<1> DEFINE v == Arg(w).version
           package == Arg(w).package
           latest == Arg(w).latest
           i == [item EXCEPT !.version = v, !.package = package, !.latest = latest]
           shown == Memory!SetShown(Store, v, package)
           written == Memory!SetLatest(shown, latest)
<1>1. /\ calls[w] # <<>> /\ Arg(w).do = "WriteShown" /\ Continue(w, <<>>)
      /\ item' = i /\ releases' = releases
  BY DEF WriteShown, WriteItem, Now, Arg
<1>2. v \in Versions /\ package \in Archives /\ latest \in Names
  <2>1. latest \in released \cup {NoVersion} /\ v \in Versions /\ package \in Archives
    BY <1>1, AtCall, ShownCall
  <2> QED
    BY <2>1 DEF Inv, TypeOK, Names
<1>3. /\ i \in Items /\ i.status = item.status /\ i.version = v /\ i.package = package /\ i.latest = latest
  BY <1>2 DEF Inv, TypeOK, Items
<1>4. /\ shown \in Stores /\ shown.item.status = item.status /\ shown.item.version = v
      /\ shown.item.package = package /\ shown.releases = releases
  BY <1>2, StoreRows, ShownSet
<1> HIDE DEF shown, v, package, latest
<1>5. /\ written \in Stores /\ written.item.status = item.status /\ written.item.version = v
      /\ written.item.package = package /\ written.item.latest = latest /\ written.releases = releases
  BY <1>2, <1>4, LatestSet
<1> HIDE DEF i
<1>6. Store' = [item |-> i, releases |-> releases]
  BY <1>1 DEF Store
<1>7. Store' = written
  <2> DEFINE next == [item |-> i, releases |-> releases]
  <2>1. next \in Stores /\ next.item = i /\ next.releases = releases
    BY <1>3, StoreRows DEF Stores
  <2> HIDE DEF next, written
  <2>2. next = written
    BY <1>3, <1>5, <2>1, SameStore
  <2> QED
    BY <1>6, <2>2 DEF next
<1>8. Effect(request[w], Arg(w), Store) = {Memory!Done(written)}
  BY <1>1 DEF Effect, shown, v, package, latest
<1> HIDE DEF written
<1> QED
  BY <1>1, <1>7, <1>8, FitWrite

\* A step that reads or writes leaves the request what comes to the same.
LEMMA StepFits ==
  ASSUME Inv, NEW w \in Workers, NEW X, Fits(request[w], X, Store, calls[w]), Read(w) \/ Write(w)
  PROVE  Fits(request[w], X, Store', calls'[w])
<1>1. CASE Read(w)
  BY <1>1, UpsertPluginFits, UpsertVersionFits, SetVersionStatusFits, SetLatestVersionFits,
     DenormalizeFits, DisplayVersionFits, DisplayListedFits, RepointFits, DeprecateItemFits,
     SetPluginStatusFits, ApplyItemStatusFits, ApplyToVersionsFits, FinishStatusFits,
     PublishFits, UpdatePluginMetadataFits, SubmitItemFits, SubmitVersionFits DEF Read
<1>2. CASE Write(w)
  BY <1>2, WritePluginFits, WriteVersionFits, WriteStatusFits, PointLatestFits, WriteShownFits,
     WriteItemStatusFits, WriteMetadataFits DEF Write
<1> QED
  BY <1>1, <1>2

--------------------------------------------------------------------------------
(* Requests *)

\* A handler of one call.
LEMMA FitsAlone == ASSUME NEW q, NEW X, NEW s, NEW c, \A e \in Effect(q, c, s) : e.store \in X
                   PROVE  Fits(q, X, s, <<c>>)
<1> DEFINE t == <<c>>
<1>1. t # <<>> /\ Head(t) = c /\ Tail(t) = <<>>
  OBVIOUS
<1> HIDE DEF t
<1>2. Fits(q, X, s, t)
  BY <1>1, FitsNone, FitsFrom
<1> QED
  BY <1>2 DEF t

\* What a handler calls comes to what the store in memory makes of the request.
LEMMA HandlerFits == ASSUME NEW q \in Requests, NEW s
                     PROVE  Fits(q, Memory!Outcomes(s, q), s, Handler(q))
<1> DEFINE X == Memory!Outcomes(s, q)
<1>1. CASE q.op = "item"
  <2> DEFINE a == Do("UpsertPlugin")
             b == IF q.to = "published" THEN Do("Publish") ELSE DoTo("SetPluginStatus", "review")
             first == Memory!UpsertPlugin(s, q.version, q.package, q.by)
             further(t) == CASE q.to = "published" -> Memory!Publish(t)
                             [] q.to = "review" -> Memory!SetPluginStatus(t, "review")
                             [] OTHER -> {Memory!Done(t)}
  <2>1. X = {r.store : r \in UNION {IF e.ok THEN further(e.store) ELSE {e} : e \in first}}
    BY <1>1 DEF Memory!Outcomes, Memory!AndThen
  <2>2. Effect(q, a, s) = first
    BY DEF Effect, Do
  <2>3. q.to \in {"published", "review"} => \A t : Effect(q, b, t) = further(t)
    BY DEF Effect, Do, DoTo
  <2>4. \A t : q.to \notin {"published", "review"} => further(t) = {Memory!Done(t)}
    OBVIOUS
  <2>5. IF q.to \in {"published", "review"} THEN Handler(q) = <<a>> \o <<b>> ELSE Handler(q) = <<a>> \o <<>>
    <3>1. CASE q.to = "published"
      BY <1>1, <3>1 DEF Handler
    <3>2. CASE q.to = "review"
      BY <1>1, <3>2 DEF Handler
    <3>3. CASE q.to \notin {"published", "review"}
      BY <1>1, <3>3 DEF Handler
    <3> QED
      BY <3>1, <3>2, <3>3
  <2> HIDE DEF a, b, first, further, X
  <2>6. CASE q.to \in {"published", "review"}
    <3>1. PICK S : <<b>> \in Seq(S) /\ Len(<<b>>) = 1
      <4> DEFINE S == {b}
      <4>1. <<b>> \in Seq(S) /\ Len(<<b>>) = 1
        OBVIOUS
      <4> QED
        BY <4>1
    <3>2. Handler(q) # <<>> /\ Head(Handler(q)) = a /\ Tail(Handler(q)) = <<b>>
      BY <2>5, <2>6, <3>1, FirstOne
    <3>3. \A e \in first : IF e.ok THEN \A f \in further(e.store) : f.store \in X ELSE e.store \in X
      BY <2>1
    <3>4. \A e \in first : IF e.ok THEN Fits(q, X, e.store, <<b>>) ELSE e.store \in X
      BY <2>3, <2>6, <3>3, FitsAlone
    <3>5. Fits(q, X, s, Handler(q))
      BY <2>2, <3>2, <3>4, FitsFrom
    <3> QED
      BY <3>5 DEF X
  <2>7. CASE q.to \notin {"published", "review"}
    <3>1. Handler(q) = <<a>>
      <4>1. <<a>> \in Seq({a})
        OBVIOUS
      <4> QED
        BY <2>5, <2>7, <4>1, ConcatEmptySeq
    <3>2. \A e \in first : e.store \in X
      <4> TAKE e \in first
      <4>1. CASE ~e.ok
        BY <2>1, <4>1
      <4>2. CASE e.ok
        <5>1. Memory!Done(e.store) \in further(e.store) /\ Memory!Done(e.store).store = e.store
          BY <2>4, <2>7, DoneIs
        <5> QED
          BY <2>1, <4>2, <5>1
      <4> QED
        BY <4>1, <4>2
    <3>3. Fits(q, X, s, <<a>>)
      BY <2>2, <3>2, FitsAlone
    <3> QED
      BY <3>1, <3>3 DEF X
  <2> QED
    BY <2>6, <2>7
<1>2. CASE q.op = "version"
  <2>1. Handler(q) = <<Do("UpsertVersion")>>
    BY <1>2 DEF Handler
  <2>2. X = {r.store : r \in Memory!UpsertVersion(s, q.version, q.package, q.by)}
    BY <1>2 DEF Memory!Outcomes
  <2>3. Effect(q, Do("UpsertVersion"), s) = Memory!UpsertVersion(s, q.version, q.package, q.by)
    BY DEF Effect, Do
  <2> HIDE DEF X
  <2>4. Fits(q, X, s, <<Do("UpsertVersion")>>)
    BY <2>2, <2>3, FitsAlone
  <2> QED
    BY <2>1, <2>4 DEF X
<1>3. CASE q.op = "metadata"
  <2>1. Handler(q) = <<Do("UpdatePluginMetadata")>>
    BY <1>3 DEF Handler
  <2>2. X = {r.store : r \in Memory!UpdatePluginMetadata(s, q.version, q.package)}
    BY <1>3 DEF Memory!Outcomes
  <2>3. Effect(q, Do("UpdatePluginMetadata"), s) = Memory!UpdatePluginMetadata(s, q.version, q.package)
    BY DEF Effect, Do
  <2> HIDE DEF X
  <2>4. Fits(q, X, s, <<Do("UpdatePluginMetadata")>>)
    BY <2>2, <2>3, FitsAlone
  <2> QED
    BY <2>1, <2>4 DEF X
<1>4. CASE q.op = "item status" /\ q.by = "developer"
  <2>1. Handler(q) = <<Do("SubmitItem")>>
    BY <1>4 DEF Handler
  <2>2. q.to = "review"
    BY <1>4 DEF Requests, Request
  <2>3. X = {r.store : r \in Memory!Guarded(Ready(s.item.package), s, Memory!SetPluginStatus(s, "review"))}
    BY <1>4, <2>2, SameRules DEF Memory!Outcomes, Memory!Guarded
  <2>4. Effect(q, Do("SubmitItem"), s)
          = Memory!Guarded(Ready(s.item.package), s, Memory!SetPluginStatus(s, "review"))
    BY DEF Effect, Do
  <2> HIDE DEF X
  <2>5. Fits(q, X, s, <<Do("SubmitItem")>>)
    BY <2>3, <2>4, FitsAlone
  <2> QED
    BY <2>1, <2>5 DEF X
<1>5. CASE q.op = "item status" /\ q.by = "admin"
  <2> DEFINE c == DoTo("SetPluginStatus", q.to)
  <2>1. Handler(q) = <<c>>
    BY <1>5 DEF Handler
  <2>2. X = {r.store : r \in Memory!SetPluginStatus(s, q.to)}
    BY <1>5 DEF Memory!Outcomes, Memory!Guarded
  <2>3. Effect(q, c, s) = Memory!SetPluginStatus(s, q.to)
    BY DEF Effect, DoTo
  <2> HIDE DEF X, c
  <2>4. Fits(q, X, s, <<c>>)
    BY <2>2, <2>3, FitsAlone
  <2> QED
    BY <2>1, <2>4 DEF X
<1>6. CASE q.op = "version status" /\ q.by = "developer"
  <2> DEFINE all == Memory!Guarded(Ready(s.releases[q.version].package), s,
                                   Memory!SetVersionStatus(s, q.version, "pending"))
  <2>1. Handler(q) = <<Do("SubmitVersion")>>
    BY <1>6 DEF Handler
  <2>2. q.to = "pending"
    BY <1>6 DEF Requests, Request
  <2>3. X = {r.store : r \in all}
    BY <1>6, <2>2, SameRules DEF Memory!Outcomes, Memory!Guarded
  <2>4. Effect(q, Do("SubmitVersion"), s) = all
    BY DEF Effect, Do
  <2> HIDE DEF X, all
  <2>5. Fits(q, X, s, <<Do("SubmitVersion")>>)
    BY <2>3, <2>4, FitsAlone
  <2> QED
    BY <2>1, <2>5 DEF X
<1>7. CASE q.op = "version status" /\ q.by = "admin"
  <2> DEFINE c == [do |-> "SetVersionStatus", version |-> q.version, to |-> q.to]
  <2>1. Handler(q) = <<c>>
    BY <1>7 DEF Handler
  <2>2. X = {r.store : r \in Memory!SetVersionStatus(s, q.version, q.to)}
    BY <1>7 DEF Memory!Outcomes, Memory!Guarded
  <2>3. Effect(q, c, s) = Memory!SetVersionStatus(s, q.version, q.to)
    BY DEF Effect
  <2> HIDE DEF X, c
  <2>4. Fits(q, X, s, <<c>>)
    BY <2>2, <2>3, FitsAlone
  <2> QED
    BY <2>1, <2>4 DEF X
<1>8. CASE q.op = "latest"
  <2> DEFINE c == DoVersion("SetLatestVersion", q.version)
  <2>1. Handler(q) = <<c>>
    BY <1>8 DEF Handler
  <2>2. X = {r.store : r \in Memory!SetLatestVersion(s, q.version)}
    BY <1>8 DEF Memory!Outcomes
  <2>3. Effect(q, c, s) = Memory!SetLatestVersion(s, q.version)
    BY DEF Effect, DoVersion
  <2> HIDE DEF X, c
  <2>4. Fits(q, X, s, <<c>>)
    BY <2>2, <2>3, FitsAlone
  <2> QED
    BY <2>1, <2>4 DEF X
<1> QED
  BY <1>1, <1>2, <1>3, <1>4, <1>5, <1>6, <1>7, <1>8, Named

--------------------------------------------------------------------------------
(* The refinement *)

\* While requests come one after another, one is at work at a time, and what it has
\* still to do comes to what the store in memory makes of it.
Promise ==
  ~met => /\ \A u, w \in Busy : u = w
          /\ \A w \in Busy : /\ before \in Stores
                             /\ Fits(request[w], Memory!Outcomes(before, request[w]), Store, calls[w])

\* Every statement leaves the request a list of calls.
LEMMA StepLeaves == ASSUME NEW w \in Workers, Read(w) \/ Write(w)
                    PROVE  calls[w] # <<>> /\ \E todo : Left(w, todo)
<1> DEFINE Leaves == \E todo : Left(w, todo)
<1>1. \A todo : Go(w, todo) => Leaves
  BY DEF Go, Continue
<1>2. Refuse(w) => Leaves
  BY DEF Refuse
<1>3. \A row : WriteItem(w, row) => Leaves
  BY DEF WriteItem, Continue
<1>4. \A v, row : WriteRelease(w, v, row) => Leaves
  BY DEF WriteRelease, Continue
<1>5. calls[w] # <<>>
  BY DEF Read, Write, Now, UpsertPlugin, UpsertVersion, SetVersionStatus, SetLatestVersion,
     DenormalizeLatest, DisplayVersion, DisplayListed, Repoint, DeprecateItem, SetPluginStatus,
     ApplyItemStatus, ApplyToVersions, FinishStatus, Publish, UpdatePluginMetadata, SubmitItem,
     SubmitVersion, WritePlugin, WriteVersion, WriteStatus, PointLatest, WriteShown, WriteItemStatus,
     WriteMetadata
<1> HIDE DEF Leaves
<1>6. Write(w) => Leaves
  BY <1>3, <1>4 DEF Write, WritePlugin, WriteVersion, WriteStatus, PointLatest, WriteShown,
     WriteItemStatus, WriteMetadata
<1>7. Read(w) => Leaves
  <2>1. UpsertPlugin(w) => Leaves
    BY <1>1, <1>2, Zenon DEF UpsertPlugin
  <2>2. UpsertVersion(w) => Leaves
    BY <1>1, <1>2, Zenon DEF UpsertVersion
  <2>3. SetVersionStatus(w) => Leaves
    BY <1>1, <1>2, Zenon DEF SetVersionStatus
  <2>4. SetLatestVersion(w) => Leaves
    BY <1>1, <1>2, Zenon DEF SetLatestVersion
  <2>5. DenormalizeLatest(w) => Leaves
    BY <1>1, <1>2, Zenon DEF DenormalizeLatest
  <2>6. DisplayVersion(w) => Leaves
    BY <1>1, <1>2, Zenon DEF DisplayVersion
  <2>7. DisplayListed(w) => Leaves
    BY <1>1, <1>2, Zenon DEF DisplayListed
  <2>8. Repoint(w) => Leaves
    BY <1>1, <1>2, Zenon DEF Repoint
  <2>9. DeprecateItem(w) => Leaves
    BY <1>1, <1>2, Zenon DEF DeprecateItem
  <2>10. SetPluginStatus(w) => Leaves
    BY <1>1, <1>2, Zenon DEF SetPluginStatus
  <2>11. ApplyItemStatus(w) => Leaves
    BY <1>1, <1>2, Zenon DEF ApplyItemStatus
  <2>12. ApplyToVersions(w) => Leaves
    BY <1>1, <1>2, Zenon DEF ApplyToVersions
  <2>13. FinishStatus(w) => Leaves
    BY <1>1, <1>2, Zenon DEF FinishStatus
  <2>14. Publish(w) => Leaves
    BY <1>1, <1>2, Zenon DEF Publish
  <2>15. UpdatePluginMetadata(w) => Leaves
    BY <1>1, <1>2, Zenon DEF UpdatePluginMetadata
  <2>16. SubmitItem(w) => Leaves
    BY <1>1, <1>2, Zenon DEF SubmitItem
  <2>17. SubmitVersion(w) => Leaves
    BY <1>1, <1>2, Zenon DEF SubmitVersion
  <2> QED
    BY <2>1, <2>2, <2>3, <2>4, <2>5, <2>6, <2>7, <2>8, <2>9, <2>10, <2>11, <2>12, <2>13, <2>14, <2>15, <2>16, <2>17 DEF Read
<1> QED
  BY <1>5, <1>6, <1>7 DEF Leaves

\* What a statement does to the requests at work.
LEMMA LeftBusy ==
  ASSUME Inv, NEW w \in Workers, calls[w] # <<>>, NEW todo, Left(w, todo)
  PROVE  /\ calls'[w] = todo /\ met' = met
         /\ Busy' = IF todo = <<>> THEN Busy \ {w} ELSE Busy
         /\ todo # <<>> => request' = request /\ before' = before
         /\ w \in Busy
<1>1. calls' = [u \in Workers |-> IF u = w THEN todo ELSE calls[u]]
  BY DEF Left, Inv, Calls
<1>2. calls'[w] = todo /\ \A u \in Workers : u # w => calls'[u] = calls[u]
  BY <1>1
<1>3. Busy' = IF todo = <<>> THEN Busy \ {w} ELSE Busy
  BY <1>2 DEF Busy
<1> QED
  BY <1>2, <1>3 DEF Left, Busy

\* What a request that begins does.
LEMMA BeginBusy ==
  ASSUME Inv, NEW w \in Workers, NEW q \in Asked, Begin(w, q)
  PROVE  /\ q \in Requests /\ calls'[w] = Handler(q) /\ Handler(q) # <<>> /\ request'[w] = q
         /\ Busy' = Busy \cup {w}
         /\ met' = (met \/ Busy # {})
         /\ Store' = Store
<1>1. q \in Requests /\ Handler(q) # <<>>
  BY ConstantsAssumption, HandlerMay
<1>2. /\ calls' = [u \in Workers |-> IF u = w THEN Handler(q) ELSE calls[u]]
      /\ request' = [u \in Workers |-> IF u = w THEN q ELSE request[u]]
  BY DEF Begin, Inv, Calls
<1>3. /\ calls'[w] = Handler(q) /\ request'[w] = q
      /\ \A u \in Workers : u # w => calls'[u] = calls[u]
  BY <1>2
<1>4. Busy' = Busy \cup {w}
  BY <1>1, <1>3 DEF Busy
<1> QED
  BY <1>1, <1>3, <1>4 DEF Begin, Store

\* Every step keeps the promise.
LEMMA PromiseStep ==
  ASSUME Inv, Promise, [Next]_vars
  PROVE  Promise'
<1> SUFFICES ASSUME ~met'
             PROVE  /\ \A u, w \in Busy' : u = w
                    /\ \A w \in Busy' : /\ before' \in Stores
                                        /\ Fits(request'[w], Memory!Outcomes(before', request'[w]), Store', calls'[w])
  BY DEF Promise
<1>1. CASE UNCHANGED vars
  <2>1. /\ Busy' = Busy /\ Store' = Store /\ before' = before /\ request' = request
        /\ calls' = calls /\ met' = met
    BY <1>1 DEF vars, Busy, Store
  <2> QED
    BY <2>1 DEF Promise
<1>2. ASSUME NEW w \in Workers, NEW q \in Asked, Begin(w, q)
      PROVE  /\ \A u, v \in Busy' : u = v
             /\ \A v \in Busy' : /\ before' \in Stores
                                 /\ Fits(request'[v], Memory!Outcomes(before', request'[v]), Store', calls'[v])
  <2>1. Busy' = {w} /\ ~met
    BY <1>2, BeginBusy DEF Inv, TypeOK
  <2>2. before' = Store
    BY <1>2 DEF Begin
  <2>3. Fits(q, Memory!Outcomes(Store, q), Store, Handler(q))
    BY <1>2, BeginBusy, HandlerFits
  <2> QED
    BY <1>2, <2>1, <2>2, <2>3, BeginBusy, StoreRows
<1>3. ASSUME NEW w \in Workers, Read(w) \/ Write(w)
      PROVE  /\ \A u, v \in Busy' : u = v
             /\ \A v \in Busy' : /\ before' \in Stores
                                 /\ Fits(request'[v], Memory!Outcomes(before', request'[v]), Store', calls'[v])
  <2>1. PICK todo : calls[w] # <<>> /\ Left(w, todo)
    BY <1>3, StepLeaves
  <2>2. /\ calls'[w] = todo /\ met' = met /\ w \in Busy
        /\ Busy' = IF todo = <<>> THEN Busy \ {w} ELSE Busy
        /\ todo # <<>> => request' = request /\ before' = before
    BY <2>1, LeftBusy
  <2>3. Busy = {w} /\ before \in Stores
        /\ Fits(request[w], Memory!Outcomes(before, request[w]), Store, calls[w])
    BY <2>2 DEF Promise
  <2>4. Fits(request[w], Memory!Outcomes(before, request[w]), Store', calls'[w])
    BY <1>3, <2>3, StepFits
  <2>5. CASE todo = <<>>
    BY <2>2, <2>3, <2>5
  <2>6. CASE todo # <<>>
    BY <2>2, <2>3, <2>4, <2>6
  <2> QED
    BY <2>5, <2>6
<1>4. ASSUME NEW w \in Workers, BreakOff(w) PROVE FALSE
  BY <1>4 DEF BreakOff
<1> QED
  BY <1>1, <1>2, <1>3, <1>4 DEF Next

\* The other store's requests and marks are these.
LEMMA SameMarks == /\ Memory!Requests = Requests /\ Memory!Nothing = Nothing /\ Memory!Several = Several
                   /\ Memory!NoStore = NoStore /\ Memory!Starts = Starts
<1>1. /\ Memory!Nothing = Nothing /\ Memory!Several = Several /\ Memory!NoStore = NoStore
  BY DEF Memory!Nothing, Memory!Several, Memory!NoStore, Memory!Marked, Memory!NoVersion, Memory!NoPackage,
     Nothing, Several, NoStore, Marked, NoVersion, NoPackage
<1>2. /\ Memory!Archives = Archives /\ Memory!Statuses = Statuses /\ Memory!ItemStatuses = ItemStatuses
      /\ Memory!NoVersion = NoVersion /\ Memory!NoPackage = NoPackage
  BY DEF Memory!Archives, Memory!Statuses, Memory!ItemStatuses, Memory!NoVersion, Memory!NoPackage,
     Archives, Statuses, ItemStatuses, NoVersion, NoPackage
<1>3. \A a, b, c, d, e : Memory!Request(a, b, c, d, e) = Request(a, b, c, d, e)
  BY DEF Memory!Request, Request
<1>4. Memory!Requests = Requests
  BY <1>2, <1>3 DEF Memory!Requests, Requests
<1>5. \A v, p, status, latest : Memory!Drafted(v, p, status, latest) = Drafted(v, p, status, latest)
  BY <1>2 DEF Memory!Drafted, Drafted
<1>6. Memory!Starts = Starts
  BY <1>2, <1>5 DEF Memory!Starts, Starts
<1> QED
  BY <1>1, <1>4, <1>6

\* A mark is no request.
LEMMA MarksApart == /\ Nothing \notin Requests /\ Several \notin Requests /\ Nothing # Several
<1>1. Nothing.by = "nobody" /\ Several.by = "nobody" /\ Nothing.op # Several.op
  BY DEF Nothing, Several, Marked
<1>2. \A r \in Requests : r.by \in {"developer", "admin"}
  BY Named
<1> QED
  BY <1>1, <1>2

\* The requests as the other store sees them.
LEMMA AskingIs == ASSUME Inv, Promise
                  PROVE  /\ met => Asking = Several
                         /\ ~met /\ Busy = {} => Asking = Nothing
                         /\ \A w \in Busy : ~met => Asking = request[w] /\ request[w] \in Requests /\ Busy = {w}
<1>1. ASSUME NEW w \in Busy, ~met PROVE Asking = request[w] /\ request[w] \in Requests /\ Busy = {w}
  <2>1. Busy = {w} /\ w \in Workers /\ calls[w] # <<>>
    BY <1>1 DEF Promise, Busy
  <2>2. (CHOOSE u \in Workers : u \in Busy) = w
    BY <2>1
  <2>3. request[w] \in Requests
    BY <2>1 DEF Inv, TypeOK, Calls
  <2> QED
    BY <1>1, <2>1, <2>2, <2>3 DEF Asking
<1> QED
  BY <1>1 DEF Asking

\* The same after a step.
LEMMA AskingNext == ASSUME Inv', Promise'
                    PROVE  /\ met' => Asking' = Several
                           /\ ~met' /\ Busy' = {} => Asking' = Nothing
                           /\ \A w \in Busy' : ~met' => Asking' = request'[w]
<1>1. ASSUME NEW w \in Busy', ~met' PROVE Asking' = request'[w]
  <2>1. Busy' = {w} /\ w \in Workers
    BY <1>1 DEF Promise, Busy
  <2>2. (CHOOSE u \in Workers : u \in Busy') = w
    BY <2>1
  <2> QED
    BY <1>1, <2>1, <2>2 DEF Asking
<1> QED
  BY <1>1 DEF Asking

\* A step is one of the other store's, or none that it sees.
LEMMA StepRefines ==
  ASSUME Inv, Promise, Inv', Promise', [Next]_vars
  PROVE  [Memory!Next]_(Memory!vars)
<1> DEFINE store == IF met THEN NoStore ELSE IF Busy = {} THEN Store ELSE before
<1>1. CASE UNCHANGED vars
  <2>1. Busy' = Busy /\ Store' = Store /\ before' = before /\ met' = met /\ Asking' = Asking
    BY <1>1 DEF vars, Busy, Store, Asking
  <2> QED
    BY <2>1 DEF Memory!vars
<1>2. CASE met /\ met'
  <2>1. Asking = Several /\ Asking' = Several
    BY <1>2, AskingIs, AskingNext
  <2> QED
    BY <1>2, <2>1 DEF Memory!vars
<1>3. CASE ~met /\ met'
  <2>1. Asking' = Several
    BY <1>3, AskingNext
  <2>2. Asking # Several
    BY <1>3, AskingIs, MarksApart
  <2>3. Memory!Meet
    BY <1>3, <2>1, <2>2, SameMarks DEF Memory!Meet
  <2> QED
    BY <2>3 DEF Memory!Next
<1>4. ASSUME NEW w \in Workers, NEW q \in Asked, Begin(w, q), ~met'
      PROVE  [Memory!Next]_(Memory!vars)
  <2>1. /\ q \in Requests /\ request'[w] = q /\ ~met /\ Busy = {} /\ Busy' = {w} /\ before' = Store
    BY <1>4, BeginBusy DEF Inv, TypeOK, Begin
  <2>2. Asking = Nothing /\ Asking' = q
    BY <1>4, <2>1, AskingIs, AskingNext
  <2>3. Memory!Ask(q)
    BY <1>4, <2>1, <2>2, SameMarks DEF Memory!Ask
  <2> QED
    BY <2>1, <2>3, SameMarks DEF Memory!Next
<1>5. ASSUME NEW w \in Workers, Read(w) \/ Write(w), ~met, ~met'
      PROVE  [Memory!Next]_(Memory!vars)
  <2>1. PICK todo : calls[w] # <<>> /\ Left(w, todo)
    BY <1>5, StepLeaves
  <2>2. /\ calls'[w] = todo /\ w \in Busy
        /\ Busy' = IF todo = <<>> THEN Busy \ {w} ELSE Busy
        /\ todo # <<>> => request' = request /\ before' = before
    BY <2>1, LeftBusy
  <2>3. Busy = {w} /\ Asking = request[w] /\ request[w] \in Requests
    BY <1>5, <2>2, AskingIs
  <2>4. Fits(request[w], Memory!Outcomes(before, request[w]), Store', calls'[w])
    <3>1. Fits(request[w], Memory!Outcomes(before, request[w]), Store, calls[w])
      BY <1>5, <2>2 DEF Promise
    <3> QED
      BY <1>5, <3>1, StepFits
  <2>5. CASE todo = <<>>
    <3>1. Busy' = {} /\ Asking' = Nothing
      BY <1>5, <2>2, <2>3, <2>5, AskingNext
    <3>2. Store' \in Memory!Outcomes(before, request[w])
      BY <2>2, <2>4, <2>5, FitsEnd
    <3>3. Memory!Answer
      BY <1>5, <2>3, <3>1, <3>2, SameMarks DEF Memory!Answer
    <3> QED
      BY <3>3 DEF Memory!Next
  <2>6. CASE todo # <<>>
    <3>1. Busy' = {w} /\ Asking' = request[w] /\ before' = before
      BY <1>5, <2>2, <2>3, <2>6, AskingNext
    <3> QED
      BY <1>5, <2>3, <3>1 DEF Memory!vars
  <2> QED
    BY <2>5, <2>6
<1>6. ASSUME NEW w \in Workers, BreakOff(w) PROVE met'
  BY <1>6 DEF BreakOff
<1>7. ASSUME NEW w \in Workers, Read(w) \/ Write(w) PROVE met' = met
  <2>1. PICK todo : calls[w] # <<>> /\ Left(w, todo)
    BY <1>7, StepLeaves
  <2> QED
    BY <2>1, LeftBusy
<1>8. met \in BOOLEAN /\ met' \in BOOLEAN
  BY DEF Inv, TypeOK
<1>9. CASE Next
  <2>1. \A w \in Workers, q \in Asked : Begin(w, q) /\ ~met' => ~met
    BY BeginBusy DEF Inv, TypeOK
  <2> QED
    BY <1>2, <1>3, <1>4, <1>5, <1>6, <1>7, <1>8, <1>9, <2>1 DEF Next
<1> QED
  BY <1>1, <1>9

\* The catalog begins where the other store does.
LEMMA InitRefines == Init => Memory!Init /\ Promise
<1> SUFFICES ASSUME Init PROVE Memory!Init /\ Promise
  OBVIOUS
<1>1. Busy = {} /\ ~met
  BY DEF Init, Busy
<1>2. Store \in Starts
  <2>1. PICK s \in Starts : item = s.item /\ releases = s.releases
    BY DEF Init
  <2>2. s = [item |-> s.item, releases |-> s.releases]
    BY DEF Starts, Drafted
  <2> QED
    BY <2>1, <2>2 DEF Store
<1>3. Asking = Nothing
  BY <1>1 DEF Asking
<1> QED
  BY <1>1, <1>2, <1>3, SameMarks DEF Memory!Init, Promise

\* While requests come one after another, a request at work still comes to what the store in
\* memory makes of it, whatever statements it has run (mysqlSourceStore).
THEOREM PromiseInvariant == Spec => []Promise
<1>1. Init => Promise
  BY InitRefines
<1>2. Inv /\ Promise /\ [Next]_vars => Promise'
  BY PromiseStep
<1> QED
  BY <1>1, <1>2, InvInvariant, PTL DEF Spec

\* While requests come one after another, the statements of each come to what the store in
\* memory (memorySourceStore) makes of it at once, errors halfway included.
THEOREM CatalogImplementsMemory == Spec => ImplementsMemory
<1>1. Init => Memory!Init
  BY InitRefines
<1>2. Inv /\ Promise /\ Inv' /\ Promise' /\ [Next]_vars => [Memory!Next]_(Memory!vars)
  BY StepRefines
<1> QED
  BY <1>1, <1>2, InvInvariant, PromiseInvariant, PTL DEF Spec, ImplementsMemory, Memory!Spec

--------------------------------------------------------------------------------
(* A public item shows its latest release *)

\* The item shows its latest release, and that one is published.
Shown(s) ==
  \E v \in With(s.releases, {"published"}) :
     s.item.latest = v /\ s.item.version = v /\ s.item.package = s.releases[v].package

\* A store whose item, if public, shows its latest release.
Good(s) == s \in Stores /\ (s.item.status = "published" => Shown(s))

\* An item never released has no published version to show.
LEMMA ShownLatest == ASSUME NEW s, Shown(s) PROVE s.item.latest # NoVersion
BY VersionsAssumption DEF Shown, With

\* The same item with the same versions is as good.
LEMMA SameShown == ASSUME NEW s \in Stores, NEW t \in Stores,
                          s.item.version = t.item.version, s.item.package = t.item.package,
                          s.item.latest = t.item.latest, s.releases = t.releases, Shown(s)
                   PROVE  Shown(t)
BY DEF Shown

\* As long as a version is published, what the item is made to show is the latest one.
LEMMA DenormalizedShown == ASSUME NEW s \in Stores, With(s.releases, {"published"}) # {},
                                  NEW e \in Memory!Denormalized(s)
                           PROVE  Shown(e.store)
<1> DEFINE public == With(s.releases, {"published"})
           d == e.store
<1>1. PICK v \in Memory!Displayed(s) : d = Memory!Show(s, v, s.item.latest)
  BY DenormalizedShows
<1>2. v \in Versions /\ s.item.latest \in Names
  BY DisplayedKnown, Columns
<1>3. v \in public
  <2>1. Memory!Displayed(s) = CASE s.item.latest \in public -> {s.item.latest}
          [] s.item.latest \notin public /\ public # {} -> Preferring(s.item.version, public)
          [] OTHER -> Preferring(s.item.version, With(s.releases, Statuses))
    BY SameRules DEF Memory!Displayed
  <2> HIDE DEF public
  <2>2. public # {}
    BY DEF public
  <2> QED
    BY <1>1, <2>1, <2>2 DEF Preferring
<1>4. s.releases[v].status = "published"
  BY <1>3 DEF With
<1>5. /\ d.item.version = v /\ d.item.package = s.releases[v].package
      /\ d.item.latest = (IF s.releases[v].status = "published" THEN v ELSE s.item.latest)
      /\ d.releases = s.releases
  BY <1>1, <1>2, ShowSet
<1> HIDE DEF d
<1> QED
  BY <1>3, <1>4, <1>5 DEF Shown, d

\* The item is shown in order, whether it is public or has no published version.
LEMMA DenormalizedGood == ASSUME NEW s \in Stores,
                                 s.item.status = "published" => With(s.releases, {"published"}) # {},
                                 NEW e \in Memory!Denormalized(s)
                          PROVE  e.ok /\ Good(e.store) /\ e.store.item.status = s.item.status
BY DenormalizedShows, DenormalizedShown DEF Good

\* A version that was not published may change without taking the latest one away.
LEMMA StillPublic == ASSUME NEW s, Shown(s), NEW v \in Versions, s.releases[v].status # "published",
                            NEW rs, \A u \in Versions : u # v => rs[u] = s.releases[u]
                     PROVE  With(rs, {"published"}) # {}
BY DEF Shown, With

\* A version published is public.
LEMMA PublicNow == ASSUME NEW rs, NEW v \in Versions, rs[v].status = "published"
                   PROVE  With(rs, {"published"}) # {}
BY DEF With

\* What a developer uploads, or an administrator for an item off the shelf.
LEMMA UpsertVersionGood ==
  ASSUME NEW s, Good(s), NEW v \in Versions, NEW package \in Archives, NEW by,
         by = "admin" => s.item.status # "published",
         NEW e \in Memory!UpsertVersion(s, v, package, by)
  PROVE  Good(e.store) /\ e.store.item.status = s.item.status
<1> DEFINE old == s.releases[v]
           status == IF old.status = "pending" THEN "pending" ELSE "draft"
           row == Uploaded(old, package, status)
           t == Memory!SetRelease(s, v, row)
           closed == old.status \in {"published", "deprecated"}
<1>1. s \in Stores
  BY DEF Good
<1>2. Memory!UpsertVersion(s, v, package, by)
        = IF closed /\ by # "admin" THEN {Memory!Failed(s)} ELSE Memory!Denormalized(t)
  BY SameRules DEF Memory!UpsertVersion
<1>3. CASE closed /\ by # "admin"
  BY <1>2, <1>3 DEF Memory!Failed
<1>4. CASE ~(closed /\ by # "admin")
  <2>1. row \in Rows
    BY <1>1, Columns DEF Uploaded, Rows, Statuses
  <2>2. e \in Memory!Denormalized(t)
    BY <1>2, <1>4
  <2>5. t = Memory!SetRelease(s, v, row)
    OBVIOUS
  <2> HIDE DEF t, row
  <2>3. t \in Stores /\ t.item = s.item /\ \A u \in Versions : u # v => t.releases[u] = s.releases[u]
    BY <1>1, <2>1, <2>5, ReleaseSet
  <2>4. s.item.status = "published" => With(t.releases, {"published"}) # {}
    BY <1>4, <2>3, StillPublic DEF Good
  <2> QED
    BY <2>2, <2>3, <2>4, DenormalizedGood
<1> QED
  BY <1>3, <1>4

\* An upload of the item: the administrator's takes it off the shelf.
LEMMA UpsertPluginGood ==
  ASSUME NEW s, Good(s), NEW v \in Versions, NEW package \in Archives, NEW by,
         NEW e \in Memory!UpsertPlugin(s, v, package, by)
  PROVE  Good(e.store) /\ (by = "admin" => e.store.item.status = "draft")
<1> DEFINE frozen == by # "admin" /\ s.item.latest # NoVersion
           to == IF by = "admin" THEN "draft" ELSE s.item.status
           moved == Memory!SetStatus(s, to)
           written == IF frozen THEN moved ELSE Memory!SetShown(moved, v, package)
<1>1. s \in Stores /\ to \in ItemStatuses
  BY Columns DEF Good, ItemStatuses
<1>2. e \in Memory!UpsertVersion(written, v, package, by)
  BY SameRules DEF Memory!UpsertPlugin
<1>3. /\ moved \in Stores /\ moved.item.status = to /\ moved.item.version = s.item.version
      /\ moved.item.package = s.item.package /\ moved.item.latest = s.item.latest
      /\ moved.releases = s.releases
  BY <1>1, StatusSet
<1> HIDE DEF moved
<1>4. Good(moved)
  BY <1>1, <1>3, SameShown DEF Good
<1>5. Memory!SetShown(moved, v, package) \in Stores
      /\ Memory!SetShown(moved, v, package).item.status = to
  BY <1>3, ShownSet
<1>6. CASE by = "admin"
  <2>1. written \in Stores /\ written.item.status = "draft"
    BY <1>5, <1>6
  <2> HIDE DEF written
  <2>2. Good(written)
    BY <2>1 DEF Good
  <2> QED
    BY <1>2, <1>6, <2>1, <2>2, UpsertVersionGood
<1>7. CASE by # "admin"
  <2>1. Good(written)
    <3>1. CASE frozen
      BY <1>4, <3>1
    <3>2. CASE ~frozen
      BY <1>5, <1>7, <3>2, ShownLatest DEF Good
    <3> QED
      BY <3>1, <3>2
  <2> HIDE DEF written
  <2> QED
    BY <1>2, <1>7, <2>1, UpsertVersionGood
<1> QED
  BY <1>6, <1>7

\* What a change of a version's status leaves.
LEMMA SetVersionStatusGood ==
  ASSUME NEW s, Good(s), NEW v \in Versions, NEW to \in Statuses,
         NEW e \in Memory!SetVersionStatus(s, v, to)
  PROVE  Good(e.store)
<1> DEFINE t == Memory!SetReleaseStatus(s, v, to)
           allowed == /\ s.releases[v].status # "absent"
                      /\ VersionTransitionAllowed(s.releases[v].status, to)
                      /\ to = "published" => Ready(s.releases[v].package)
           moved == CASE to = "published" -> Memory!PointLatest(t, v)
                      [] to = "deprecated" -> Memory!RepointOrDeprecate(t)
                      [] OTHER -> {Memory!Done(t)}
<1>1. s \in Stores
  BY DEF Good
<1>2. /\ t \in Stores /\ t.item = s.item /\ t.releases[v].status = to
      /\ \A u \in Versions : u # v => t.releases[u] = s.releases[u]
  BY <1>1, ReleaseStatusSet
<1>3. \/ ~allowed /\ e = Memory!Failed(s)
      \/ /\ allowed
         /\ \E r \in moved : IF r.ok THEN e \in Memory!Denormalized(r.store) ELSE e = r
  BY SameRules DEF Memory!SetVersionStatus, Memory!Guarded, Memory!AndThen
<1>4. CASE e = Memory!Failed(s)
  BY <1>4 DEF Memory!Failed
<1>5. ASSUME allowed, NEW r \in moved, IF r.ok THEN e \in Memory!Denormalized(r.store) ELSE e = r
      PROVE  Good(e.store)
  <2> HIDE DEF t
  <2>1. /\ r.ok /\ r.store \in Stores
        /\ r.store.item.status = "published" => With(r.store.releases, {"published"}) # {}
    <3>1. CASE to = "published"
      <4> DEFINE x == Memory!SetLatest(t, v)
      <4>1. r = Memory!Done(x)
        BY <1>2, <3>1 DEF Memory!PointLatest, Memory!Guarded
      <4>2. x \in Stores /\ x.releases = t.releases
        BY <1>2, LatestSet DEF Names
      <4> HIDE DEF x
      <4>3. r.ok /\ r.store = x
        BY <4>1 DEF Memory!Done
      <4> QED
        BY <1>2, <3>1, <4>2, <4>3, PublicNow
    <3>2. CASE to = "deprecated"
      <4>1. r \in Memory!RepointOrDeprecate(t)
        BY <3>2
      <4>2. CASE With(t.releases, {"published"}) # {}
        <5>1. PICK u \in With(t.releases, {"published"}) : r \in Memory!PointLatest(t, u)
          BY <4>1, <4>2, SameRules DEF Memory!RepointOrDeprecate
        <5> DEFINE x == Memory!SetLatest(t, u)
        <5>2. u \in Versions /\ t.releases[u].status = "published"
          BY DEF With
        <5>3. r = Memory!Done(x)
          BY <5>1, <5>2 DEF Memory!PointLatest, Memory!Guarded
        <5>4. x \in Stores /\ x.releases = t.releases
          BY <1>2, <5>2, LatestSet DEF Names
        <5> HIDE DEF x
        <5> QED
          BY <4>2, <5>3, <5>4 DEF Memory!Done
      <4>3. CASE With(t.releases, {"published"}) = {}
        <5> DEFINE x == Memory!SetStatus(t, "deprecated")
        <5>1. IF TransitionAllowed(t.item.status, "deprecated") THEN r = Memory!Done(x) ELSE r = Memory!Done(t)
          BY <4>1, <4>3, SameRules DEF Memory!RepointOrDeprecate
        <5>2. x \in Stores /\ x.item.status = "deprecated"
          BY <1>2, StatusSet DEF ItemStatuses
        <5> HIDE DEF x
        <5> QED
          BY <1>2, <5>1, <5>2 DEF Memory!Done, TransitionAllowed
      <4> QED
        BY <4>2, <4>3
    <3>3. CASE to \in {"draft", "pending"}
      <4>1. r = Memory!Done(t)
        BY <3>3
      <4>2. s.releases[v].status # "published"
        BY <1>5, <3>3 DEF VersionTransitionAllowed
      <4>3. s.item.status = "published" => With(t.releases, {"published"}) # {}
        BY <1>2, <4>2, StillPublic DEF Good
      <4> QED
        BY <1>2, <4>1, <4>3 DEF Memory!Done
    <3> QED
      BY <3>1, <3>2, <3>3 DEF Statuses
  <2> QED
    BY <1>5, <2>1, DenormalizedGood
<1> QED
  BY <1>3, <1>4, <1>5

\* What a change of the item's status leaves of its versions.
LEMMA StatusTakenGood ==
  ASSUME NEW s \in Stores, NEW v \in Versions, NEW to \in ItemStatuses,
         NEW e \in Memory!StatusTaken(s, v, to)
  PROVE  /\ e.store \in Stores /\ e.store.item.status = s.item.status
         /\ ~e.ok => e.store = s
         /\ to = "published" /\ e.ok => With(e.store.releases, {"published"}) # {}
<1> DEFINE become(x) == Memory!SetReleaseStatus(s, v, x)
<1>1. \A x \in Statuses : /\ become(x) \in Stores /\ become(x).item = s.item
                          /\ become(x).releases[v].status = x
  BY ReleaseStatusSet
<1>2. {"pending", "draft", "published"} \subseteq Statuses
  BY DEF Statuses
<1> DEFINE y == become("published")
<1>3. \/ e = Memory!Failed(s)
      \/ to = "review" /\ e \in {Memory!Done(s), Memory!Done(become("pending"))}
      \/ to = "rejected" /\ e = Memory!Done(become("draft"))
      \/ e \in Memory!PointLatest(y, v)
  BY DEF Memory!StatusTaken, Memory!Guarded
<1>4. CASE e = Memory!Failed(s)
  BY <1>4 DEF Memory!Failed
<1>5. CASE to = "review" /\ e \in {Memory!Done(s), Memory!Done(become("pending"))}
  BY <1>1, <1>2, <1>5 DEF Memory!Done
<1>6. CASE to = "rejected" /\ e = Memory!Done(become("draft"))
  BY <1>1, <1>2, <1>6 DEF Memory!Done
<1>7. CASE e \in Memory!PointLatest(y, v)
  <2>1. y \in Stores /\ y.item = s.item /\ y.releases[v].status = "published"
    BY <1>1, <1>2
  <2> HIDE DEF y
  <2> DEFINE x == Memory!SetLatest(y, v)
  <2>2. e = Memory!Done(x)
    BY <1>7, <2>1 DEF Memory!PointLatest, Memory!Guarded
  <2>3. x \in Stores /\ x.releases = y.releases /\ x.item.status = y.item.status
    BY <2>1, LatestSet DEF Names
  <2> HIDE DEF x
  <2>4. e.ok /\ e.store = x
    BY <2>2 DEF Memory!Done
  <2> QED
    BY <2>1, <2>3, <2>4, PublicNow
<1> QED
  BY <1>3, <1>4, <1>5, <1>6, <1>7

\* An error changes nothing; what goes on to the shelf shows its latest release.
LEMMA ApplyToGood ==
  ASSUME NEW s \in Stores, NEW picked \in SUBSET Versions, NEW to \in ItemStatuses,
         NEW e \in Memory!ApplyTo(s, picked, to)
  PROVE  /\ e.store \in Stores /\ e.store.item.status = s.item.status
         /\ ~e.ok => e.store = s
         /\ to = "published" /\ e.ok => Shown(e.store)
<1>1. \/ e = Memory!Failed(s)
      \/ to = "review" /\ e = Memory!Done(s)
      \/ to # "published" /\ e \in Memory!Denormalized(s)
      \/ \E v \in picked : \E r \in Memory!StatusTaken(s, v, to) :
           IF r.ok THEN e \in Memory!Denormalized(r.store) ELSE e = r
  BY DEF Memory!ApplyTo, Memory!Guarded, Memory!AndThen
<1>2. CASE e = Memory!Failed(s)
  BY <1>2 DEF Memory!Failed
<1>3. CASE to = "review" /\ e = Memory!Done(s)
  BY <1>3 DEF Memory!Done
<1>4. CASE to # "published" /\ e \in Memory!Denormalized(s)
  BY <1>4, DenormalizedShows
<1>5. ASSUME NEW v \in picked, NEW r \in Memory!StatusTaken(s, v, to),
             IF r.ok THEN e \in Memory!Denormalized(r.store) ELSE e = r
      PROVE  /\ e.store \in Stores /\ e.store.item.status = s.item.status
             /\ ~e.ok => e.store = s
             /\ to = "published" /\ e.ok => Shown(e.store)
  <2>1. /\ r.store \in Stores /\ r.store.item.status = s.item.status
        /\ ~r.ok => r.store = s
        /\ to = "published" /\ r.ok => With(r.store.releases, {"published"}) # {}
    BY StatusTakenGood
  <2>2. CASE r.ok
    BY <1>5, <2>1, <2>2, DenormalizedShows, DenormalizedShown
  <2>3. CASE ~r.ok
    BY <1>5, <2>1, <2>3
  <2> QED
    BY <2>2, <2>3
<1> QED
  BY <1>1, <1>2, <1>3, <1>4, <1>5

\* A change of the item's status, which may fail at the end.
LEMMA SetPluginStatusGood ==
  ASSUME NEW s, Good(s), NEW to \in ItemStatuses, NEW e \in Memory!SetPluginStatus(s, to)
  PROVE  Good(e.store)
<1> DEFINE picked == Picked(s.releases, Preferred(s.item), to)
<1>1. s \in Stores /\ picked \in SUBSET Versions
  BY DEF Good, Picked
<1>2. \/ e = Memory!Failed(s)
      \/ \E r \in Memory!ApplyTo(s, picked, to) :
           \/ ~r.ok /\ e = r
           \/ r.ok /\ to = "published" /\ e = Memory!Failed(r.store)
           \/ r.ok /\ e = Memory!Done(Memory!SetStatus(r.store, to))
  BY SameRules DEF Memory!SetPluginStatus, Memory!ApplyItemStatusToVersions, Memory!Guarded, Memory!AndThen
<1> HIDE DEF picked
<1>3. CASE e = Memory!Failed(s)
  BY <1>3 DEF Memory!Failed
<1>4. ASSUME NEW r \in Memory!ApplyTo(s, picked, to),
             \/ ~r.ok /\ e = r
             \/ r.ok /\ to = "published" /\ e = Memory!Failed(r.store)
             \/ r.ok /\ e = Memory!Done(Memory!SetStatus(r.store, to))
      PROVE  Good(e.store)
  <2>1. /\ r.store \in Stores /\ r.store.item.status = s.item.status
        /\ ~r.ok => r.store = s
        /\ to = "published" /\ r.ok => Shown(r.store)
    BY <1>1, ApplyToGood
  <2>2. CASE ~r.ok /\ e = r
    BY <2>1, <2>2
  <2>3. CASE r.ok /\ to = "published" /\ e = Memory!Failed(r.store)
    BY <2>1, <2>3 DEF Memory!Failed, Good
  <2>4. CASE r.ok /\ e = Memory!Done(Memory!SetStatus(r.store, to))
    <3> DEFINE x == Memory!SetStatus(r.store, to)
    <3>1. /\ x \in Stores /\ x.item.status = to /\ x.item.version = r.store.item.version
          /\ x.item.package = r.store.item.package /\ x.item.latest = r.store.item.latest
          /\ x.releases = r.store.releases
      BY <2>1, StatusSet
    <3>2. e.store = x
      BY <2>4 DEF Memory!Done
    <3> HIDE DEF x
    <3> QED
      BY <2>1, <2>4, <3>1, <3>2, SameShown DEF Good
  <2> QED
    BY <1>4, <2>2, <2>3, <2>4
<1> QED
  BY <1>2, <1>3, <1>4

\* Straight on to the shelf.
LEMMA PublishGood == ASSUME NEW s, Good(s), NEW e \in Memory!Publish(s) PROVE Good(e.store)
<1>1. \/ e = Memory!Done(s)
      \/ e \in Memory!SetPluginStatus(s, "published")
      \/ \E r \in Memory!SetPluginStatus(s, "approved") :
           IF r.ok THEN e \in Memory!SetPluginStatus(r.store, "published") ELSE e = r
  BY DEF Memory!Publish, Memory!AndThen
<1>2. {"published", "approved"} \subseteq ItemStatuses
  BY DEF ItemStatuses
<1>3. CASE e = Memory!Done(s)
  BY <1>3 DEF Memory!Done
<1>4. CASE e \in Memory!SetPluginStatus(s, "published")
  BY <1>2, <1>4, SetPluginStatusGood
<1>5. ASSUME NEW r \in Memory!SetPluginStatus(s, "approved"),
             IF r.ok THEN e \in Memory!SetPluginStatus(r.store, "published") ELSE e = r
      PROVE  Good(e.store)
  <2>1. Good(r.store)
    BY <1>2, SetPluginStatusGood
  <2> QED
    BY <1>2, <1>5, <2>1, SetPluginStatusGood
<1> QED
  BY <1>1, <1>3, <1>4, <1>5

\* Another version becomes the latest.
LEMMA SetLatestVersionGood ==
  ASSUME NEW s, Good(s), NEW v \in Versions, NEW e \in Memory!SetLatestVersion(s, v)
  PROVE  Good(e.store)
<1> DEFINE x == Memory!SetLatest(s, v)
<1>1. \/ e = Memory!Failed(s)
      \/ s.releases[v].status = "published" /\ e \in Memory!Denormalized(x)
  BY DEF Memory!SetLatestVersion, Memory!PointLatest, Memory!Guarded, Memory!AndThen, Memory!Done, Memory!Failed
<1>2. x \in Stores /\ x.releases = s.releases
  BY LatestSet DEF Names, Good
<1> HIDE DEF x
<1>3. CASE e = Memory!Failed(s)
  BY <1>3 DEF Memory!Failed
<1>4. CASE s.releases[v].status = "published" /\ e \in Memory!Denormalized(x)
  BY <1>2, <1>4, PublicNow, DenormalizedGood
<1> QED
  BY <1>1, <1>3, <1>4

\* Whatever the store in memory makes of a request that leaves published packages and the
\* row alone is as good as before.
LEMMA OutcomesGood ==
  ASSUME NEW s, Good(s), NEW q \in Requests, ~Touches(q), NEW t \in Memory!Outcomes(s, q)
  PROVE  Good(t)
<1>1. CASE q.op = "item"
  <2> DEFINE further(x) == CASE q.to = "published" -> Memory!Publish(x)
                             [] q.to = "review" -> Memory!SetPluginStatus(x, "review")
                             [] OTHER -> {Memory!Done(x)}
  <2>1. PICK r \in Memory!UpsertPlugin(s, q.version, q.package, q.by) :
                \E e \in IF r.ok THEN further(r.store) ELSE {r} : t = e.store
    BY <1>1 DEF Memory!Outcomes, Memory!AndThen
  <2>2. q.version \in Versions /\ q.package \in Archives
    BY <1>1, Named
  <2>3. Good(r.store)
    BY <2>2, UpsertPluginGood
  <2>4. "review" \in ItemStatuses
    BY DEF ItemStatuses
  <2>5. \A x, f : Good(x) /\ f \in further(x) => Good(f.store)
    BY <2>4, PublishGood, SetPluginStatusGood DEF Memory!Done
  <2> HIDE DEF further
  <2> QED
    BY <2>1, <2>3, <2>5
<1>2. CASE q.op = "version"
  <2>1. PICK e \in Memory!UpsertVersion(s, q.version, q.package, q.by) : t = e.store
    BY <1>2 DEF Memory!Outcomes
  <2>2. q.version \in Versions /\ q.package \in Archives /\ q.by # "admin"
    BY <1>2, Named DEF Touches
  <2> QED
    BY <2>1, <2>2, UpsertVersionGood
<1>3. CASE q.op = "item status"
  <2>1. PICK e : t = e.store /\ (e = Memory!Failed(s) \/ e \in Memory!SetPluginStatus(s, q.to))
    BY <1>3 DEF Memory!Outcomes, Memory!Guarded
  <2>2. q.to \in ItemStatuses
    BY <1>3, Named
  <2> QED
    BY <2>1, <2>2, SetPluginStatusGood DEF Memory!Failed
<1>4. CASE q.op = "version status"
  <2>1. PICK e : t = e.store /\ (e = Memory!Failed(s) \/ e \in Memory!SetVersionStatus(s, q.version, q.to))
    BY <1>4 DEF Memory!Outcomes, Memory!Guarded
  <2>2. q.version \in Versions /\ q.to \in Statuses
    BY <1>4, Named
  <2> QED
    BY <2>1, <2>2, SetVersionStatusGood DEF Memory!Failed
<1>5. CASE q.op = "latest"
  <2>1. PICK e \in Memory!SetLatestVersion(s, q.version) : t = e.store
    BY <1>5 DEF Memory!Outcomes
  <2>2. q.version \in Versions
    BY <1>5, Named
  <2> QED
    BY <2>1, <2>2, SetLatestVersionGood
<1> QED
  BY <1>1, <1>2, <1>3, <1>4, <1>5, Named DEF Touches

\* Between requests the catalog is in order; a request at work began with it in order.
InOrder ==
  ~met /\ ~touched => IF Busy = {} THEN Good(Store)
                      ELSE Good(before) /\ \A w \in Busy : ~Touches(request[w])

\* The catalog begins in order.
LEMMA InitInOrder == Init => InOrder
<1> SUFFICES ASSUME Init PROVE Good(Store)
  BY DEF InOrder, Init, Busy
<1>1. PICK s \in Starts : item = s.item /\ releases = s.releases
  BY DEF Init
<1>2. Inv
  BY InitInv
<1>3. Store \in Stores
  BY <1>2, StoreRows
<1>4. CASE s \in {Drafted(v, p, "draft", NoVersion) : v \in Versions, p \in Archives}
  BY <1>1, <1>3, <1>4 DEF Drafted, Good, Store
<1>5. CASE s \in {Drafted(v, p, "published", v) : v \in Versions, p \in Packages}
  <2>1. PICK v \in Versions, p \in Packages : s = Drafted(v, p, "published", v)
    BY <1>5
  <2>2. /\ Store.item.latest = v /\ Store.item.version = v /\ Store.item.package = p
        /\ Store.releases[v].status = "published" /\ Store.releases[v].package = p
    BY <1>1, <2>1 DEF Drafted, Store
  <2> QED
    BY <1>3, <2>2 DEF Good, Shown, With
<1> QED
  BY <1>4, <1>5 DEF Starts

\* Every step keeps the order.
LEMMA InOrderStep ==
  ASSUME Inv, Promise, InOrder, [Next]_vars
  PROVE  InOrder'
<1> SUFFICES ASSUME ~met', ~touched'
             PROVE  IF Busy' = {} THEN Good(Store')
                    ELSE Good(before') /\ \A w \in Busy' : ~Touches(request'[w])
  BY DEF InOrder
<1>1. CASE UNCHANGED vars
  <2>1. /\ Busy' = Busy /\ Store' = Store /\ before' = before /\ request' = request
        /\ met' = met /\ touched' = touched
    BY <1>1 DEF vars, Busy, Store
  <2> QED
    BY <2>1 DEF InOrder
<1>2. ASSUME NEW w \in Workers, NEW q \in Asked, Begin(w, q)
      PROVE  Busy' = {w} /\ Good(before') /\ ~Touches(request'[w])
  <2>1. Busy' = {w} /\ ~met /\ Busy = {} /\ request'[w] = q
    BY <1>2, BeginBusy DEF Inv, TypeOK
  <2>2. before' = Store /\ ~touched /\ ~Touches(q)
    BY <1>2 DEF Begin, Inv, TypeOK
  <2> QED
    BY <2>1, <2>2 DEF InOrder
<1>3. ASSUME NEW w \in Workers, Read(w) \/ Write(w)
      PROVE  IF Busy' = {} THEN Good(Store')
             ELSE Good(before') /\ \A u \in Busy' : ~Touches(request'[u])
  <2>1. PICK todo : calls[w] # <<>> /\ Left(w, todo)
    BY <1>3, StepLeaves
  <2>2. /\ calls'[w] = todo /\ met' = met /\ w \in Busy
        /\ Busy' = IF todo = <<>> THEN Busy \ {w} ELSE Busy
        /\ todo # <<>> => request' = request /\ before' = before
    BY <2>1, LeftBusy
  <2>3. touched' = touched
    BY <2>1 DEF Left
  <2>4. /\ Busy = {w} /\ Good(before) /\ ~Touches(request[w]) /\ request[w] \in Requests
        /\ Fits(request[w], Memory!Outcomes(before, request[w]), Store, calls[w])
    BY <2>2, <2>3, AskingIs DEF Promise, InOrder
  <2>5. Fits(request[w], Memory!Outcomes(before, request[w]), Store', calls'[w])
    BY <1>3, <2>4, StepFits
  <2>6. CASE todo = <<>>
    <3>1. Store' \in Memory!Outcomes(before, request[w])
      BY <2>2, <2>5, <2>6, FitsEnd
    <3> QED
      BY <2>2, <2>4, <2>6, <3>1, OutcomesGood
  <2>7. CASE todo # <<>>
    BY <2>2, <2>4, <2>7
  <2> QED
    BY <2>6, <2>7
<1>4. ASSUME NEW w \in Workers, BreakOff(w) PROVE FALSE
  BY <1>4 DEF BreakOff
<1> QED
  BY <1>1, <1>2, <1>3, <1>4 DEF Next

\* While requests come one after another, and no published package was uploaded anew nor the
\* row edited, a public item shows its latest release, which is published (denormalizeLatest).
THEOREM LatestIsShown == Spec => []ShownIsLatest
<1>1. Init => InOrder
  BY InitInOrder
<1>2. Inv /\ Promise /\ InOrder /\ [Next]_vars => InOrder'
  BY InOrderStep
<1>3. InOrder => ShownIsLatest
  BY DEF InOrder, ShownIsLatest, Good, Shown, Store
<1> QED
  BY <1>1, <1>2, <1>3, InvInvariant, PromiseInvariant, PTL DEF Spec
================================================================================
