------------------------------ MODULE SourceCatalog ------------------------------
(***************************************************************************)
(* The catalog of the source station in the database (mysqlSourceStore of  *)
(* source_station_store.go and source_station_versions.go), and the        *)
(* requests of the developer and of the administrator that change it       *)
(* (source_developer.go, source_admin.go, source_station_package_admin.go).*)
(* There is no transaction: a request reads a row, decides and writes, one *)
(* statement after another, and another request may come between any two.  *)
(*                                                                         *)
(* What a request still has to do is a sequence of calls; a step takes the *)
(* first, which runs one statement and puts what follows in its place.     *)
(* What is left out is listed in SourceRules.  The public index is read    *)
(* from the rows whenever it is asked for.                                 *)
(***************************************************************************)
EXTENDS SourceRules

CONSTANTS
  Workers,        \* requests at work at one time (a bound)
  Asked,          \* the requests that are made (a bound)
  MaxRequests,    \* requests made in all (a bound)
  MaxMeeting      \* how many of them may meet or be broken off, the first ones (a bound)

VARIABLES
  item,           \* the row of source_catalog_plugins
  releases,       \* version -> its row of source_catalog_plugin_versions
  calls,          \* worker -> what its request still has to do
  request,        \* worker -> the request
  begun,
  before,         \* history: the store when the request at work began
  met,            \* history: requests have met, or one was broken off
  released,       \* history: the versions that have been published
  touched         \* history: published packages were uploaded anew, or the row edited

storeVars == <<item, releases>>
vars == <<item, releases, calls, request, begun, before, met, released, touched>>

ASSUME ConstantsAssumption ==
  /\ Asked \subseteq Requests
  /\ MaxRequests \in Nat /\ MaxMeeting \in Nat

Store == [item |-> item, releases |-> releases]
Admins == {w \in Workers : request[w].by = "admin"}
Busy == {w \in Workers : calls[w] # <<>>}

Init ==
  /\ \E s \in Starts : item = s.item /\ releases = s.releases
  /\ calls = [w \in Workers |-> <<>>]
  /\ request = [w \in Workers |-> Nothing]
  /\ begun = 0
  /\ before = NoStore
  /\ met = FALSE
  /\ released = {v \in Versions : releases[v].status = "published"}
  /\ touched = FALSE

--------------------------------------------------------------------------------
(* The machinery of calls.                                                 *)

Now(w, name) == calls[w] # <<>> /\ Head(calls[w]).do = name
Arg(w) == Head(calls[w])

\* The store of a finished request is not looked at any more.
Left(w, todo) ==
  /\ calls' = [calls EXCEPT ![w] = todo]
  /\ request' = IF todo = <<>> THEN [request EXCEPT ![w] = Nothing] ELSE request
  /\ before' = IF todo = <<>> THEN NoStore ELSE before
  /\ UNCHANGED <<begun, met, touched>>

\* The call is over and these come first now.
Continue(w, todo) == Left(w, todo \o Tail(calls[w]))
Go(w, todo) == Continue(w, todo) /\ UNCHANGED <<item, releases, released>>

\* An error ends the request.
Refuse(w) == Left(w, <<>>) /\ UNCHANGED <<item, releases, released>>

\* A statement writes the item's row, or a version's.
WriteItem(w, row) == item' = row /\ Continue(w, <<>>) /\ UNCHANGED <<releases, released>>
WriteRelease(w, v, row) ==
  /\ releases' = [releases EXCEPT ![v] = row]
  /\ released' = IF row.status = "published" THEN released \cup {v} ELSE released
  /\ Continue(w, <<>>)
  /\ UNCHANGED item

Do(name) == [do |-> name]
DoTo(name, to) == [do |-> name, to |-> to]
DoVersion(name, v) == [do |-> name, version |-> v]
Denormalize == Do("Denormalize")

--------------------------------------------------------------------------------
(* Statements that read.                                                   *)

\* A mutant: the administrator's upload leaves the item on the shelf.
UpsertPluginShelved(w) ==
  /\ Now(w, "UpsertPlugin")
  /\ LET q == request[w]
         frozen == item.latest # NoVersion
         row == [status |-> item.status,
                 version |-> IF frozen THEN item.version ELSE q.version,
                 package |-> IF frozen THEN item.package ELSE q.package]
     IN  Go(w, <<[do |-> "WritePlugin", row |-> row], Do("UpsertVersion")>>)

\* UpsertPlugin, GetPlugin: the row as it will be written, whatever happens to it meanwhile.
UpsertPlugin(w) ==
  /\ Now(w, "UpsertPlugin")
  /\ LET q == request[w]
         frozen == q.by # "admin" /\ item.latest # NoVersion
         row == [status |-> IF q.by = "admin" THEN "draft" ELSE item.status,
                 version |-> IF frozen THEN item.version ELSE q.version,
                 package |-> IF frozen THEN item.package ELSE q.package]
     IN  Go(w, <<[do |-> "WritePlugin", row |-> row], Do("UpsertVersion")>>)

\* A mutant: a version keeps its status whoever writes it.
UpsertVersionKept(w) ==
  /\ Now(w, "UpsertVersion")
  /\ LET q == request[w]
         old == releases[q.version]
         status == IF old.status = "absent" THEN "draft" ELSE old.status
         write == [do |-> "WriteVersion", version |-> q.version,
                   row |-> Uploaded(old, q.package, status)]
     IN  Go(w, <<write, Denormalize>>)

\* UpsertVersion, GetVersion.
UpsertVersion(w) ==
  /\ Now(w, "UpsertVersion")
  /\ LET q == request[w]
         old == releases[q.version]
         closed == old.status \in {"published", "deprecated"}
         status == IF old.status = "pending" THEN "pending" ELSE "draft"
         write == [do |-> "WriteVersion", version |-> q.version,
                   row |-> Uploaded(old, q.package, status)]
     IN  IF closed /\ q.by # "admin" THEN Refuse(w) ELSE Go(w, <<write, Denormalize>>)

\* SetVersionStatus, GetVersion.
SetVersionStatus(w) ==
  /\ Now(w, "SetVersionStatus")
  /\ LET v == Arg(w).version
         to == Arg(w).to
         allowed == /\ releases[v].status # "absent"
                    /\ VersionTransitionAllowed(releases[v].status, to)
                    /\ to = "published" => Ready(releases[v].package)
         moves == CASE to = "published" -> <<DoVersion("PointLatest", v)>>
                    [] to = "deprecated" -> <<Do("Repoint")>>
                    [] OTHER -> <<>>
         write == [do |-> "WriteStatus", version |-> v, to |-> to]
     IN  IF allowed THEN Go(w, <<write>> \o moves \o <<Denormalize>>) ELSE Refuse(w)

\* SetLatestVersion, GetVersion.
SetLatestVersion(w) ==
  /\ Now(w, "SetLatestVersion")
  /\ LET v == Arg(w).version
     IN  IF releases[v].status = "published"
         THEN Go(w, <<DoVersion("PointLatest", v), Denormalize>>)
         ELSE Refuse(w)

\* denormalizeLatest, GetPlugin.
DenormalizeLatest(w) ==
  /\ Now(w, "Denormalize")
  /\ Go(w, <<[do |-> "Display", version |-> item.version, latest |-> item.latest]>>)

\* A mutant: whatever is shown is the latest.
ShowAsLatest(v, latest) ==
  [do |-> "WriteShown", version |-> v, package |-> releases[v].package, latest |-> v]

Show(v, latest) ==
  [do |-> "WriteShown", version |-> v, package |-> releases[v].package,
   latest |-> IF releases[v].status = "published" THEN v ELSE latest]

\* displayVersion, GetVersion of the latest one.
DisplayVersion(w) ==
  /\ Now(w, "Display")
  /\ LET latest == Arg(w).latest
     IN  IF latest \in With(releases, {"published"})
         THEN Go(w, <<Show(latest, latest)>>)
         ELSE Go(w, <<[Arg(w) EXCEPT !.do = "DisplayListed"]>>)

\* displayVersion, ListVersions.
DisplayListed(w) ==
  /\ Now(w, "DisplayListed")
  /\ LET public == With(releases, {"published"})
         among == IF public # {} THEN public ELSE With(releases, Statuses)
     IN  \E v \in Preferring(Arg(w).version, among) : Go(w, <<Show(v, Arg(w).latest)>>)

\* repointOrDeprecateItemAfterVersion, ListVersions.
Repoint(w) ==
  /\ Now(w, "Repoint")
  /\ LET public == With(releases, {"published"})
     IN  IF public = {} THEN Go(w, <<Do("DeprecateItem")>>)
         ELSE \E v \in public : Go(w, <<DoVersion("PointLatest", v)>>)

\* A mutant: the item outlives its last version.
DeprecateNothing(w) == Now(w, "DeprecateItem") /\ Go(w, <<>>)

\* repointOrDeprecateItemAfterVersion, GetPlugin.
DeprecateItem(w) ==
  /\ Now(w, "DeprecateItem")
  /\ IF item.status # "deprecated" /\ TransitionAllowed(item.status, "deprecated")
     THEN Go(w, <<DoTo("SetPluginStatus", "deprecated")>>)
     ELSE Go(w, <<>>)

\* SetPluginStatus, the first GetPlugin.
SetPluginStatus(w) ==
  /\ Now(w, "SetPluginStatus")
  /\ LET to == Arg(w).to
     IN  IF TransitionAllowed(item.status, to)
         THEN Go(w, <<DoTo("ApplyItemStatus", to), DoTo("FinishStatus", to)>>)
         ELSE Refuse(w)

\* applyItemStatusToVersions, GetPlugin.
ApplyItemStatus(w) ==
  /\ Now(w, "ApplyItemStatus")
  /\ Go(w, <<[do |-> "ApplyToVersions", to |-> Arg(w).to, preferred |-> Preferred(item)]>>)

\* applyItemStatusToVersions, ListVersions.
ApplyToVersions(w) ==
  /\ Now(w, "ApplyToVersions")
  /\ LET to == Arg(w).to
         picked == Picked(releases, Arg(w).preferred, to)
         set(v, new) == <<[do |-> "SetVersionStatus", version |-> v, to |-> new]>>
         status(v) == releases[v].status
         taken(v) == CASE to = "review" /\ status(v) \in {"published", "pending"} -> <<>>
                       [] to = "review" /\ status(v) \in {"draft", "deprecated"} -> set(v, "pending")
                       [] to = "rejected" -> set(v, "draft")
                       [] to # "review" /\ status(v) = "published" -> <<DoVersion("PointLatest", v)>>
                       [] OTHER -> set(v, "published")
     IN  IF picked # {} THEN \E v \in picked : Go(w, taken(v) \o <<Denormalize>>)
         ELSE IF to \in {"review", "approved", "published"} THEN Refuse(w)
              ELSE Go(w, <<Denormalize>>)

\* SetPluginStatus, the second GetPlugin.
FinishStatus(w) ==
  /\ Now(w, "FinishStatus")
  /\ IF Arg(w).to = "published" /\ ~Ready(item.package) THEN Refuse(w)
     ELSE Go(w, <<DoTo("WriteItemStatus", Arg(w).to)>>)

\* publishSourcePackageItem, GetPlugin; a registration that shelves does the same.
Publish(w) ==
  /\ Now(w, "Publish")
  /\ CASE item.status = "published" -> Go(w, <<>>)
       [] item.status \in {"approved", "hidden"} -> Go(w, <<DoTo("SetPluginStatus", "published")>>)
       [] OTHER -> Go(w, <<DoTo("SetPluginStatus", "approved"), DoTo("SetPluginStatus", "published")>>)

\* UpdatePluginMetadata, GetPlugin.
UpdatePluginMetadata(w) ==
  /\ Now(w, "UpdatePluginMetadata")
  /\ LET q == request[w]
         package == IF Ready(q.package) THEN q.package ELSE item.package
     IN  IF item.status = "published" /\ ~Ready(package) THEN Refuse(w)
         ELSE Go(w, <<[do |-> "WriteMetadata", version |-> q.version, package |-> package]>>)

\* What the developer submits has a package: his handlers read the row first.
SubmitItem(w) ==
  /\ Now(w, "SubmitItem")
  /\ IF Ready(item.package) THEN Go(w, <<DoTo("SetPluginStatus", "review")>>) ELSE Refuse(w)

SubmitVersion(w) ==
  /\ Now(w, "SubmitVersion")
  /\ LET v == request[w].version
     IN  IF Ready(releases[v].package)
         THEN Go(w, <<[do |-> "SetVersionStatus", version |-> v, to |-> "pending"]>>)
         ELSE Refuse(w)

Read(w) ==
  \/ UpsertPlugin(w) \/ UpsertVersion(w) \/ SetVersionStatus(w) \/ SetLatestVersion(w)
  \/ DenormalizeLatest(w) \/ DisplayVersion(w) \/ DisplayListed(w)
  \/ Repoint(w) \/ DeprecateItem(w)
  \/ SetPluginStatus(w) \/ ApplyItemStatus(w) \/ ApplyToVersions(w) \/ FinishStatus(w)
  \/ Publish(w) \/ UpdatePluginMetadata(w) \/ SubmitItem(w) \/ SubmitVersion(w)

--------------------------------------------------------------------------------
(* Statements that write.                                                  *)

\* INSERT ... ON DUPLICATE KEY UPDATE, which leaves latest_version as it is.
WritePlugin(w) ==
  /\ Now(w, "WritePlugin")
  /\ LET row == Arg(w).row
     IN  WriteItem(w, [item EXCEPT !.status = row.status, !.version = row.version,
                                   !.package = row.package])

WriteVersion(w) ==
  /\ Now(w, "WriteVersion")
  /\ WriteRelease(w, Arg(w).version, Arg(w).row)

WriteStatus(w) ==
  /\ Now(w, "WriteStatus")
  /\ LET v == Arg(w).version IN WriteRelease(w, v, [releases[v] EXCEPT !.status = Arg(w).to])

PointLatest(w) ==
  /\ Now(w, "PointLatest")
  /\ WriteItem(w, [item EXCEPT !.latest = Arg(w).version])

WriteShown(w) ==
  /\ Now(w, "WriteShown")
  /\ WriteItem(w, [item EXCEPT !.version = Arg(w).version, !.package = Arg(w).package,
                               !.latest = Arg(w).latest])

WriteItemStatus(w) ==
  /\ Now(w, "WriteItemStatus")
  /\ WriteItem(w, [item EXCEPT !.status = Arg(w).to])

WriteMetadata(w) ==
  /\ Now(w, "WriteMetadata")
  /\ WriteItem(w, [item EXCEPT !.version = Arg(w).version, !.package = Arg(w).package])

Write(w) ==
  \/ WritePlugin(w) \/ WriteVersion(w) \/ WriteStatus(w) \/ PointLatest(w)
  \/ WriteShown(w) \/ WriteItemStatus(w) \/ WriteMetadata(w)

--------------------------------------------------------------------------------
(* Requests.                                                               *)

\* What the handler of a request calls, one after another.
Handler(q) ==
  CASE q.op = "item" -> <<Do("UpsertPlugin")>> \o
                        (CASE q.to = "published" -> <<Do("Publish")>>
                           [] q.to = "review" -> <<DoTo("SetPluginStatus", "review")>>
                           [] OTHER -> <<>>)
    [] q.op = "version" -> <<Do("UpsertVersion")>>
    [] q.op = "metadata" -> <<Do("UpdatePluginMetadata")>>
    [] q.op = "item status" /\ q.by = "developer" -> <<Do("SubmitItem")>>
    [] q.op = "item status" /\ q.by = "admin" -> <<DoTo("SetPluginStatus", q.to)>>
    [] q.op = "version status" /\ q.by = "developer" -> <<Do("SubmitVersion")>>
    [] q.op = "version status" /\ q.by = "admin" ->
         <<[do |-> "SetVersionStatus", version |-> q.version, to |-> q.to]>>
    [] q.op = "latest" -> <<DoVersion("SetLatestVersion", q.version)>>

\* An upload of the administrator's for a version alone, and an edit of the row,
\* leave a published item with a row that is not the latest release's.
Touches(q) == q.op = "metadata" \/ (q.op = "version" /\ q.by = "admin")

\* A request that comes while another is at work: they have met.
Begin(w, q) ==
  /\ begun < MaxRequests
  /\ calls[w] = <<>>
  /\ met' = (met \/ Busy # {})
  /\ met' => begun < MaxMeeting
  /\ calls' = [calls EXCEPT ![w] = Handler(q)]
  /\ request' = [request EXCEPT ![w] = q]
  /\ begun' = begun + 1
  /\ before' = IF met' THEN NoStore ELSE Store
  /\ touched' = (touched \/ Touches(q))
  /\ UNCHANGED <<item, releases, released>>

\* The process stops, or the database does not answer: the rest is not done.
BreakOff(w) ==
  /\ calls[w] # <<>>
  /\ begun <= MaxMeeting
  /\ calls' = [calls EXCEPT ![w] = <<>>]
  /\ request' = [request EXCEPT ![w] = Nothing]
  /\ met' = TRUE
  /\ before' = NoStore
  /\ UNCHANGED <<item, releases, begun, released, touched>>

Next ==
  \E w \in Workers :
    \/ \E q \in Asked : Begin(w, q)
    \/ Read(w)
    \/ Write(w)
    \/ BreakOff(w)

Spec == Init /\ [][Next]_vars

--------------------------------------------------------------------------------
(* What has to hold.                                                       *)

TypeOK ==
  /\ item \in Items
  /\ releases \in Releases
  /\ \A w \in Workers : request[w] \in Asked \cup {Nothing} /\ (request[w] = Nothing <=> calls[w] = <<>>)
  /\ begun \in 0..MaxRequests
  /\ before \in Stores \cup {NoStore}
  /\ met \in BOOLEAN /\ touched \in BOOLEAN
  /\ released \subseteq Versions

\* Whatever meets, a version becomes published, and a published version gets another
\* package, only by a step of an administrator's request: the developer's writes carry
\* the status they have read, which is never "published".
ReleasesAreReviewed ==
  [][\A v \in Versions :
       (releases'[v].status = "published" /\ releases'[v] # releases[v])
         => \E w \in Admins : calls'[w] # calls[w]]_vars

\* Whatever meets, the item's latest version is one that has been published.
LatestWasReleased == item.latest \in released \cup {NoVersion}

\* While requests come one after another, and no published package was uploaded anew nor
\* the row edited, a public item shows its latest release, and that one is published.
ShownIsLatest ==
  (~met /\ ~touched /\ Busy = {} /\ item.status = "published")
    => \E v \in With(releases, {"published"}) :
         item.latest = v /\ item.version = v /\ item.package = releases[v].package

\* An item comes to the public catalog only by a step of an administrator's request, as
\* docs/design/software-source-enterprise.md:10 decides.  It does not hold: a developer's
\* upload writes the status it has read, which may be "published", over what an
\* administrator has written meanwhile.
DeveloperNeverPublishes ==
  [][(item'.status = "published" /\ item.status # "published")
       => \E w \in Admins : calls'[w] # calls[w]]_vars

\* The request that the store is at, as the other store sees it.
Asking == IF met THEN Several
          ELSE IF Busy = {} THEN Nothing ELSE request[CHOOSE w \in Workers : w \in Busy]

\* While requests come one after another, the statements of each come to what the store
\* in memory, which the tests run on, makes of it at once, errors halfway included.
Memory == INSTANCE SourceStore WITH
  store <- IF met THEN NoStore ELSE IF Busy = {} THEN Store ELSE before,
  asked <- Asking
ImplementsMemory == Memory!Spec
================================================================================
