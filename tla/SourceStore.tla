------------------------------- MODULE SourceStore -------------------------------
(***************************************************************************)
(* The store of the source station as the back end's own substitute for it *)
(* keeps it (memorySourceStore): an item of the catalog and its versions   *)
(* change together, under one lock, a request at a time.  SourceCatalog,   *)
(* whose store is the database, is shown to implement it as long as one    *)
(* request ends before the next begins.                                    *)
(***************************************************************************)
EXTENDS SourceRules

(* A store is changed in parts, each of which may fail and leave what the  *)
(* parts before it have changed.                                           *)

Done(s) == [store |-> s, ok |-> TRUE]
Failed(s) == [store |-> s, ok |-> FALSE]
AndThen(results, Part(_)) == UNION {IF r.ok THEN Part(r.store) ELSE {r} : r \in results}
Guarded(condition, s, results) == IF condition THEN results ELSE {Failed(s)}

\* What a store writes.
SetStatus(s, to) == [s EXCEPT !.item.status = to]
SetLatest(s, v) == [s EXCEPT !.item.latest = v]
SetShown(s, v, package) == [s EXCEPT !.item = [@ EXCEPT !.version = v, !.package = package]]
SetRelease(s, v, row) == [s EXCEPT !.releases[v] = row]
SetReleaseStatus(s, v, to) == SetRelease(s, v, [s.releases[v] EXCEPT !.status = to])

\* The version that the item shows.
Displayed(s) ==
  LET public == With(s.releases, {"published"})
      known == With(s.releases, Statuses)
  IN  CASE s.item.latest \in public -> {s.item.latest}
        [] s.item.latest \notin public /\ public # {} -> Preferring(s.item.version, public)
        [] OTHER -> Preferring(s.item.version, known)

\* It shows version v, which is the latest one if it is published.
Show(s, v, latest) ==
  SetLatest(SetShown(s, v, s.releases[v].package),
            IF s.releases[v].status = "published" THEN v ELSE latest)

Denormalized(s) == {Done(Show(s, v, s.item.latest)) : v \in Displayed(s)}

PointLatest(s, v) == Guarded(s.releases[v].status = "published", s, {Done(SetLatest(s, v))})

\* A version went out of use: another published one takes its place, or the item goes too.
RepointOrDeprecate(s) ==
  LET public == With(s.releases, {"published"})
  IN  IF public # {} THEN UNION {PointLatest(s, v) : v \in public}
      ELSE IF TransitionAllowed(s.item.status, "deprecated")
           THEN {Done(SetStatus(s, "deprecated"))}
           ELSE {Done(s)}

UpsertVersion(s, v, package, by) ==
  LET old == s.releases[v]
      closed == old.status \in {"published", "deprecated"}
      status == IF old.status = "pending" THEN "pending" ELSE "draft"
  IN  IF closed /\ by # "admin" THEN {Failed(s)}
      ELSE Denormalized(SetRelease(s, v, Uploaded(old, package, status)))

\* The developer's upload leaves an item alone that was ever released.
UpsertPlugin(s, v, package, by) ==
  LET frozen == by # "admin" /\ s.item.latest # NoVersion
      moved == SetStatus(s, IF by = "admin" THEN "draft" ELSE s.item.status)
      written == IF frozen THEN moved ELSE SetShown(moved, v, package)
  IN  UpsertVersion(written, v, package, by)

UpdatePluginMetadata(s, v, package) ==
  LET written == SetShown(s, v, IF Ready(package) THEN package ELSE s.item.package)
  IN  Guarded(s.item.status = "published" => Ready(written.item.package), s, {Done(written)})

SetVersionStatus(s, v, to) ==
  LET written == SetReleaseStatus(s, v, to)
      allowed == /\ s.releases[v].status # "absent"
                 /\ VersionTransitionAllowed(s.releases[v].status, to)
                 /\ to = "published" => Ready(s.releases[v].package)
      moved == CASE to = "published" -> PointLatest(written, v)
                 [] to = "deprecated" -> RepointOrDeprecate(written)
                 [] OTHER -> {Done(written)}
  IN  Guarded(allowed, s, AndThen(moved, Denormalized))

SetLatestVersion(s, v) == AndThen(PointLatest(s, v), Denormalized)

\* What a change of the item does to the version it takes along.
StatusTaken(s, v, to) ==
  LET status == s.releases[v].status
      become(t) == SetReleaseStatus(s, v, t)
  IN  CASE to = "review" /\ status = "deprecated" -> {Failed(s)}
        [] to = "review" /\ status = "published" -> {Done(s)}
        [] to = "review" /\ status \in {"draft", "pending"} -> {Done(become("pending"))}
        [] to = "rejected" -> {Done(become("draft"))}
        [] OTHER -> Guarded(status = "published" \/ Ready(s.releases[v].package), s,
                            PointLatest(become("published"), v))

\* The item's status is applied to one of these versions; the item then shows what it
\* has to.  Where there was nothing to submit, one store skips the latter.
ApplyTo(s, picked, to) ==
  LET nothing == to = "review" /\ \E v \in picked : s.releases[v].status = "published"
  IN  IF picked # {}
      THEN AndThen(UNION {StatusTaken(s, v, to) : v \in picked}, Denormalized)
           \cup (IF nothing THEN {Done(s)} ELSE {})
      ELSE Guarded(to \notin {"review", "approved", "published"}, s, Denormalized(s))

ApplyItemStatusToVersions(s, to) == ApplyTo(s, Picked(s.releases, Preferred(s.item), to), to)

SetPluginStatus(s, to) ==
  LET finished(t) == Guarded(to = "published" => Ready(t.item.package), t,
                             {Done(SetStatus(t, to))})
  IN  Guarded(TransitionAllowed(s.item.status, to), s,
              AndThen(ApplyItemStatusToVersions(s, to), finished))

\* An upload of the administrator's goes straight on to the shelf.
Publish(s) ==
  LET shelved(t) == SetPluginStatus(t, "published")
  IN  CASE s.item.status = "published" -> {Done(s)}
        [] s.item.status \in {"approved", "hidden"} -> shelved(s)
        [] OTHER -> AndThen(SetPluginStatus(s, "approved"), shelved)

\* What the handler of a request makes of the store.
Outcomes(s, q) ==
  LET further(t) == CASE q.to = "published" -> Publish(t)
                      [] q.to = "review" -> SetPluginStatus(t, "review")
                      [] OTHER -> {Done(t)}
      results == CASE q.op = "item" -> AndThen(UpsertPlugin(s, q.version, q.package, q.by), further)
                   [] q.op = "version" -> UpsertVersion(s, q.version, q.package, q.by)
                   [] q.op = "metadata" -> UpdatePluginMetadata(s, q.version, q.package)
                   [] q.op = "item status" ->
                        Guarded(q.by = "developer" => Ready(s.item.package), s, SetPluginStatus(s, q.to))
                   [] q.op = "version status" ->
                        Guarded(q.by = "developer" => Ready(s.releases[q.version].package), s,
                                SetVersionStatus(s, q.version, q.to))
                   [] q.op = "latest" -> SetLatestVersion(s, q.version)
  IN  {r.store : r \in results}

--------------------------------------------------------------------------------

VARIABLES
  store,        \* the item and its versions
  asked         \* the request at work, or a mark

vars == <<store, asked>>

TypeOK == /\ store \in Stores \cup {NoStore}
          /\ asked \in Requests \cup {Nothing, Several}

Init == /\ store \in Starts
        /\ asked = Nothing

Ask(q) == /\ asked = Nothing
          /\ asked' = q
          /\ UNCHANGED store

Answer == /\ asked \in Requests
          /\ store' \in Outcomes(store, asked)
          /\ asked' = Nothing

\* A request meets another one, or is broken off: nothing is promised any more.
Meet == /\ asked # Several
        /\ asked' = Several
        /\ store' = NoStore

Next == \/ \E q \in Requests : Ask(q)
        \/ Answer
        \/ Meet

Spec == Init /\ [][Next]_vars
================================================================================
