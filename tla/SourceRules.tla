------------------------------- MODULE SourceRules -------------------------------
(***************************************************************************)
(* What the two stores of the source station share: the shape of an item   *)
(* of the catalog and of its versions, the requests that change them, and  *)
(* the rules by which a status may follow another.                         *)
(*                                                                         *)
(* One item is modelled, a plugin; a template goes the same way with its   *)
(* own functions.  A package stands for the location and the checksum of   *)
(* an archive.  Left out: prices and paid packages, the built-in delivery, *)
(* texts, owners and the audit.  Which of several versions a list begins   *)
(* with, and which is the latest written, is left open.                    *)
(***************************************************************************)
EXTENDS Naturals, Sequences

CONSTANTS Versions, Packages

NoVersion == "no version"
NoPackage == "no package"

\* A version is never empty: normalizeSourceVersion names the one left out.
ASSUME VersionsAssumption == NoVersion \notin Versions

Names == Versions \cup {NoVersion}
Archives == Packages \cup {NoPackage}

ItemStatuses == {"draft", "review", "approved", "rejected", "published", "hidden", "deprecated"}
Statuses == {"draft", "pending", "published", "deprecated"}
Items == [status : ItemStatuses, version : Versions, package : Archives, latest : Names]
Releases == [Versions -> [status : Statuses \cup {"absent"}, package : Archives]]
Stores == [item : Items, releases : Releases]
NoStore == [item |-> "none"]       \* where nothing is known of the store

\* A request: what is asked, by whom, of which version, with which package, and
\* the status it asks for or the one an upload goes on to.
Request(ops, people, versions, archives, tos) ==
  [op : ops, by : people, version : versions, package : archives, to : tos]

Requests ==
  Request({"item"}, {"developer"}, Versions, Archives, {"draft"})
  \cup Request({"item"}, {"admin"}, Versions, Archives, {"draft", "review", "published"})
  \cup Request({"version"}, {"developer", "admin"}, Versions, Archives, {"draft"})
  \cup Request({"metadata"}, {"admin"}, Versions, Archives, {"draft"})
  \cup Request({"item status"}, {"developer"}, {NoVersion}, {NoPackage}, {"review"})
  \cup Request({"item status"}, {"admin"}, {NoVersion}, {NoPackage}, ItemStatuses \ {"review"})
  \cup Request({"version status"}, {"developer"}, Versions, {NoPackage}, {"pending"})
  \cup Request({"version status"}, {"admin"}, Versions, {NoPackage}, Statuses \ {"pending"})
  \cup Request({"latest"}, {"admin"}, Versions, {NoPackage}, {"published"})

Marked(name) == [op |-> name, by |-> "nobody", version |-> NoVersion, package |-> NoPackage, to |-> "none"]
Nothing == Marked("nothing")        \* nobody asks
Several == Marked("several")        \* requests have met, or one was broken off

--------------------------------------------------------------------------------
(* The rules, which both stores call. *)

Ready(package) == package # NoPackage

TransitionAllowed(from, to) ==
  \/ from = to
  \/ to = "review" /\ from \in {"draft", "rejected"}
  \/ to \in {"approved", "rejected"} /\ from \in {"review", "draft"}
  \/ to = "published" /\ from \in {"approved", "hidden"}
  \/ to = "hidden" /\ from = "published"
  \/ to = "deprecated" /\ from \in {"published", "hidden", "approved"}
  \/ to = "draft" /\ from = "deprecated"

VersionTransitionAllowed(from, to) ==
  \/ from = to
  \/ to = "pending" /\ from = "draft"
  \/ to = "draft" /\ from = "pending"
  \/ to = "published" /\ from \in {"pending", "draft"}
  \/ to = "deprecated" /\ from = "published"

\* The versions whose status is one of these.
With(releases, statuses) == {v \in Versions : releases[v].status \in statuses}

\* The statuses a change of the item looks for among the versions, in this order.
Wanted(to) ==
  CASE to = "review" -> <<{"draft"}, Statuses>>
    [] to = "approved" -> <<{"pending"}, {"draft"}, {"published"}>>
    [] to = "rejected" -> <<{"pending"}>>
    [] to = "published" -> <<{"published"}, {"pending"}, {"draft"}>>
    [] OTHER -> <<>>

Preferring(preferred, versions) == IF preferred \in versions THEN {preferred} ELSE versions

\* The version that the change of the item takes along.
Picked(releases, preferred, to) ==
  {v \in Versions : \E k \in DOMAIN Wanted(to) :
     /\ v \in Preferring(preferred, With(releases, Wanted(to)[k]))
     /\ \A j \in 1..(k - 1) : With(releases, Wanted(to)[j]) = {}}

\* The release as an upload leaves it: empty fields keep what was there.
Uploaded(release, package, status) ==
  [status |-> status, package |-> IF Ready(package) THEN package ELSE release.package]

\* The version that a change of the item looks at first.
Preferred(item) == IF item.latest = NoVersion THEN item.version ELSE item.latest

\* The item as its developer has entered it, or as the administrator has then published it.
Drafted(v, package, status, latest) ==
  [item |-> [status |-> status, version |-> v, package |-> package, latest |-> latest],
   releases |-> [w \in Versions |->
                   IF w = v THEN [status |-> status, package |-> package]
                   ELSE [status |-> "absent", package |-> NoPackage]]]

Starts == {Drafted(v, p, "draft", NoVersion) : v \in Versions, p \in Archives}
          \cup {Drafted(v, p, "published", v) : v \in Versions, p \in Packages}
================================================================================
