------------------------------- MODULE Themes -------------------------------
(***************************************************************************)
(* Themes of the public page: an uploaded package is copied over           *)
(* themes/<short>, the setting active_theme names the theme in use, a      *)
(* theme not in use may be deleted, and every request for a page resolves  *)
(* the active theme afresh and falls back to the built-in page.            *)
(*                                                                         *)
(* Each admin request is a goroutine of its own and takes no lock, so its  *)
(* steps are the single reads and changes it makes in the file system and  *)
(* the settings table. Reading the ZIP into a temporary directory touches  *)
(* nothing anyone else sees; a package it refuses changes nothing.         *)
(*                                                                         *)
(* What of a theme matters is which of its files are there and which       *)
(* package each is from. "asset" stands for the files next to index.html;  *)
(* files of the root other than the manifest are served to nobody          *)
(* (server.go:133 and :292 serve dist/ alone) and left out.                *)
(***************************************************************************)
EXTENDS Integers, Sequences

CONSTANTS
  Names,        \* themes' short names
  Builtin,      \* the empty name, which stands for the built-in page
  Admins,       \* admin requests that may be under way at once
  Paths,        \* what browsers request: "index", the front page, or "asset"
  Faults,       \* which of AllFaults the environment may produce
  MaxPackages   \* bound: packages ever installed

AllFaults == {"crash", "diskError", "dbError"}

ASSUME ThemesAssumption ==
  /\ Builtin \notin Names
  /\ Faults \subseteq AllFaults
  /\ Paths \subseteq {"index", "asset"}
  /\ MaxPackages \in Nat

VARIABLES
  active,    \* row active_theme of table settings
  disk,      \* disk[n][e]: the package entry e of themes/n is from
  packages,  \* the entries of each package installed
  op,        \* what each admin request is doing
  page,      \* the request of a browser
  torn,      \* history variable: removed in part, by now or for good
  exposed,   \* history variable: where requests met that the code lets meet
  met        \* history variable: the requests under way that met another

history == <<torn, exposed>>
vars == <<active, disk, packages, op, page, history, met>>

-----------------------------------------------------------------------------
(* A theme's directory *)

Entries == {"root", "dist", "asset", "index", "manifest"}
Folders == {"root", "dist"}
Files   == Entries \ Folders
Inside  == [dist |-> "root", asset |-> "dist", index |-> "dist",
            manifest |-> "root"]
Absent    == 0
Truncated == -1       \* opened with O_TRUNC and not written yet

Nothing == [e \in Entries |-> Absent]
Exists(n, e) == disk[n][e] # Absent

\* Seeded bug: a file is created without its folder.
FolderAssumed(n, e) == n \in Names

\* Can entry e be created? A file needs its folder; MkdirAll needs nothing.
FolderReady(n, e) == e \in Folders \/ Exists(n, Inside[e])

\* Packages readThemeManifest accepts: a manifest and dist/index.html
Packages == {p \in SUBSET Entries : Entries \ {"asset"} \subseteq p}

\* Seeded bug: the manifest is moved into place before the files.
WalkManifestFirst(p) ==
  IF "asset" \in p THEN <<"root", "manifest", "dist", "asset", "index">>
  ELSE <<"root", "manifest", "dist", "index">>

\* The order of filepath.Walk: lexical, "dist" before "komari-theme.json"
Walk(p) ==
  IF "asset" \in p THEN <<"root", "dist", "asset", "index", "manifest">>
  ELSE <<"root", "dist", "index", "manifest">>

\* ListThemes shows n: its manifest can be read and dist/index.html is there.
Listed(n) == disk[n]["manifest"] > Absent /\ Exists(n, "index")

\* Theme n is exactly one package: the files of it, and no others.
Whole(n) ==
  LET v == disk[n]["manifest"] IN
  /\ v > Absent
  /\ \A e \in Folders : Exists(n, e)
  /\ \A e \in Files : disk[n][e] = IF e \in packages[v] THEN v ELSE Absent

-----------------------------------------------------------------------------
(* Requests *)

\* A read of active_theme: GetActiveTheme makes of an error the empty name.
ActiveRead == {active} \cup (IF "dbError" \in Faults THEN {Builtin} ELSE {})

Request(kind, n, step, v) ==
  [kind |-> kind, name |-> n, step |-> step, package |-> v, at |-> 1]
Idle == Request("none", Builtin, "idle", 0)

Kinds == {"install", "set", "delete", "none"}
Steps == {"idle", "remove", "copy", "write", "manifest", "index", "save",
          "stat"}

\* What the code lets meet in the directory of one theme: two installs, or an
\* install and a delete. (Two deletes do each other no harm.)
Meet(k, l) ==
  \/ k = "install" /\ l \in {"install", "delete"}
  \/ k = "delete" /\ l = "install"

Rivals(r) == {a \in Admins : op[a].name = r.name /\ Meet(op[a].kind, r.kind)}

\* Request r of admin a begins.
Begin(a, r) ==
  /\ op[a] = Idle
  /\ op' = [op EXCEPT ![a] = r]
  /\ met' = IF Rivals(r) = {} THEN met ELSE met \cup Rivals(r) \cup {a}

Exposing(r) == IF Rivals(r) = {} THEN exposed ELSE exposed \cup {r.name}

Step(a, step) ==
  /\ op' = [op EXCEPT ![a].step = step]
  /\ UNCHANGED met

Finish(a) ==
  /\ op' = [op EXCEPT ![a] = Idle]
  /\ met' = met \ {a}

-----------------------------------------------------------------------------
(* InstallThemeFromZIP, from the point where the package is accepted *)

\* Seeded bug: the theme's old directory is copied over, not removed.
UploadOver(a, n) ==
  /\ Len(packages) < MaxPackages
  /\ \E p \in Packages : packages' = Append(packages, p)
  /\ LET r == Request("install", n, "copy", Len(packages) + 1) IN
       /\ Begin(a, r)
       /\ exposed' = Exposing(r)
  /\ UNCHANGED <<active, disk, page, torn>>

\* A package that passes every check; os.RemoveAll(themes/<short>) is next.
Upload(a, n) ==
  /\ Len(packages) < MaxPackages
  /\ \E p \in Packages : packages' = Append(packages, p)
  /\ LET r == Request("install", n, "remove", Len(packages) + 1) IN
       /\ Begin(a, r)
       /\ exposed' = Exposing(r)
  /\ UNCHANGED <<active, disk, page, torn>>

\* The browser's request is disturbed by a removal from the theme it reads.
Disturbed(n) ==
  IF page.theme = n THEN [page EXCEPT !.quiet = FALSE] ELSE page

\* os.RemoveAll unlinks one entry, in any order that empties folders first.
RemoveEntry(a) ==
  LET n == op[a].name IN
  /\ op[a].step = "remove"
  /\ \E e \in Entries :
       /\ Exists(n, e)
       /\ \A f \in DOMAIN Inside : Inside[f] = e => ~Exists(n, f)
       /\ disk' = [disk EXCEPT ![n][e] = Absent]
  /\ page' = Disturbed(n)
  /\ torn' = torn \cup {n}
  /\ UNCHANGED <<active, packages, op, exposed, met>>

\* Nothing is left: an install goes on to copy, a delete is done.
Removed(a) ==
  LET n == op[a].name IN
  /\ op[a].step = "remove"
  /\ disk[n] = Nothing
  /\ IF op[a].kind = "install" THEN Step(a, "copy") ELSE Finish(a)
  /\ torn' = torn \ {n}
  /\ UNCHANGED <<active, disk, packages, page, exposed>>

\* os.RemoveAll returns an error: the disk's, or that a folder it emptied has
\* been filled by another request. The request ends with it.
RemoveFails(a) ==
  /\ op[a].step = "remove"
  /\ "diskError" \in Faults \/ a \in met
  /\ Finish(a)
  /\ UNCHANGED <<active, disk, packages, page, history>>

Visiting(a) == Walk(packages[op[a].package])[op[a].at]

\* The walk goes on; after the last entry the install is answered.
Visited(a) ==
  LET n == op[a].name IN
  IF op[a].at < Len(Walk(packages[op[a].package]))
  THEN /\ op' = [op EXCEPT ![a].at = @ + 1, ![a].step = "copy"]
       /\ UNCHANGED <<history, met>>
  ELSE /\ Finish(a)
       /\ exposed' = IF a \in met THEN exposed ELSE exposed \ {n}
       /\ UNCHANGED torn

\* os.MkdirAll, which leaves a folder that is there as it is
CopyFolder(a) ==
  LET n == op[a].name IN
  /\ op[a].step = "copy"
  /\ Visiting(a) \in Folders
  /\ disk' = [disk EXCEPT ![n] =
       [e \in Entries |->
          IF e \in {"root", Visiting(a)} /\ ~Exists(n, e)
          THEN op[a].package ELSE disk[n][e]]]
  /\ Visited(a)
  /\ UNCHANGED <<active, packages, page>>

\* os.OpenFile with O_CREATE and O_TRUNC
CopyOpen(a) ==
  LET n == op[a].name IN
  /\ op[a].step = "copy"
  /\ Visiting(a) \in Files
  /\ FolderReady(n, Visiting(a))
  /\ disk' = [disk EXCEPT ![n][Visiting(a)] = Truncated]
  /\ Step(a, "write")
  /\ UNCHANGED <<active, packages, page, history>>

\* io.Copy into the open file. Where requests met, the file may have been
\* unlinked since it was opened, and another put in its place.
CopyWrite(a) ==
  LET n == op[a].name
      e == Visiting(a)
  IN  /\ op[a].step = "write"
      /\ \/ /\ Exists(n, e)
            /\ disk' = [disk EXCEPT ![n][e] = op[a].package]
         \/ a \in met /\ UNCHANGED disk
      /\ Visited(a)
      /\ UNCHANGED <<active, packages, page>>

\* A step of copyDir fails, for want of space or of the file's folder, and
\* the install is answered with the error; what was copied stays.
CopyFails(a) ==
  /\ \/ op[a].step \in {"copy", "write"} /\ "diskError" \in Faults
     \/ op[a].step = "copy" /\ ~FolderReady(op[a].name, Visiting(a))
  /\ Finish(a)
  /\ UNCHANGED <<active, disk, packages, page, history>>

-----------------------------------------------------------------------------
(* handleAdminThemeSet *)

\* The empty name needs no check.
SetBuiltin(a) ==
  /\ Begin(a, Request("set", Builtin, "save", 0))
  /\ UNCHANGED <<active, disk, packages, page, history>>

SetTheme(a, n) ==
  /\ Begin(a, Request("set", n, "manifest", 0))
  /\ UNCHANGED <<active, disk, packages, page, history>>

\* readThemeManifest: the manifest is read, then dist/index.html is looked for.
ReadManifest(a) ==
  LET n == op[a].name IN
  /\ op[a].step = "manifest"
  /\ IF disk[n]["manifest"] > Absent THEN Step(a, "index") ELSE Finish(a)
  /\ UNCHANGED <<active, disk, packages, page, history>>

StatIndex(a) ==
  LET n == op[a].name IN
  /\ op[a].step = "index"
  /\ IF Exists(n, "index") THEN Step(a, "save") ELSE Finish(a)
  /\ UNCHANGED <<active, disk, packages, page, history>>

\* SetActiveTheme; when the write fails the setting stays as it is.
SaveActive(a) ==
  /\ op[a].step = "save"
  /\ active' \in {op[a].name}
                 \cup (IF "dbError" \in Faults THEN {active} ELSE {})
  /\ Finish(a)
  /\ UNCHANGED <<disk, packages, page, history>>

-----------------------------------------------------------------------------
(* DeleteTheme *)

\* The theme must not be the active one; a setting that cannot be read names
\* none, and then the active theme passes the check as well.
Delete(a, n) ==
  LET r == Request("delete", n, "stat", 0) IN
  /\ \E read \in ActiveRead : read # n
  /\ Begin(a, r)
  /\ exposed' = Exposing(r)
  /\ UNCHANGED <<active, disk, packages, page, torn>>

\* os.Stat: a theme that is not there is refused.
StatTheme(a) ==
  LET n == op[a].name IN
  /\ op[a].step = "stat"
  /\ IF Exists(n, "root") THEN Step(a, "remove") ELSE Finish(a)
  /\ UNCHANGED <<active, disk, packages, page, history>>

-----------------------------------------------------------------------------
(* A browser requests the front page, "index", or a file next to it, "asset" *)

NoPage == [step |-> "idle", theme |-> Builtin, path |-> "index",
           quiet |-> TRUE, answer |-> "none"]

PageStep(step) == page' = [page EXCEPT !.step = step]
Answer(with) == page' = [NoPage EXCEPT !.answer = with]

\* What the built-in page has for a path: "/" alone
BuiltinAnswer(path) == IF path = "index" THEN "builtin" ELSE "notFound"

\* currentThemeRoot, its read of the setting
GetPage(path) ==
  /\ page.step = "idle"
  /\ \E read \in ActiveRead :
       \/ read = Builtin /\ Answer(BuiltinAnswer(path))
       \/ /\ read # Builtin
          /\ page' = [NoPage EXCEPT !.step = "root", !.theme = read,
                                    !.path = path]
  /\ UNCHANGED <<active, disk, packages, op, history, met>>

\* currentThemeRoot, its os.Stat of the dist folder
StatDist ==
  /\ page.step = "root"
  /\ IF Exists(page.theme, "dist") THEN PageStep("open")
     ELSE Answer(BuiltinAnswer(page.path))
  /\ UNCHANGED <<active, disk, packages, op, history, met>>

\* serveThemeStatic opens the file and closes it again,
OpenFile ==
  /\ page.step = "open"
  /\ IF Exists(page.theme, page.path) THEN PageStep("serve")
     ELSE PageStep("fallback")
  /\ UNCHANGED <<active, disk, packages, op, history, met>>

\* then serves it by its name,
ServeFile ==
  /\ page.step = "serve"
  /\ Answer(IF Exists(page.theme, page.path) THEN "theme" ELSE "notFound")
  /\ UNCHANGED <<active, disk, packages, op, history, met>>

\* Seeded bug: a theme without an index page is not given up for the built-in.
FallbackOnlyToTheme ==
  /\ page.step = "fallback"
  /\ IF Exists(page.theme, "index") THEN PageStep("serveIndex")
     ELSE Answer("notFound")
  /\ UNCHANGED <<active, disk, packages, op, history, met>>

\* or else looks for the theme's index page, and then for the built-in one.
Fallback ==
  /\ page.step = "fallback"
  /\ IF Exists(page.theme, "index") THEN PageStep("serveIndex")
     ELSE Answer(BuiltinAnswer(page.path))
  /\ UNCHANGED <<active, disk, packages, op, history, met>>

ServeIndex ==
  /\ page.step = "serveIndex"
  /\ Answer(IF Exists(page.theme, "index") THEN "theme" ELSE "notFound")
  /\ UNCHANGED <<active, disk, packages, op, history, met>>

\* The panel stops and starts again: every request is cut off where it is.
Crash ==
  /\ "crash" \in Faults
  /\ op' = [a \in Admins |-> Idle]
  /\ met' = {}
  /\ page' = NoPage
  /\ UNCHANGED <<active, disk, packages, history>>

-----------------------------------------------------------------------------
(* Specification *)

Init ==
  /\ active = Builtin
  /\ disk = [n \in Names |-> Nothing]
  /\ packages = << >>
  /\ op = [a \in Admins |-> Idle]
  /\ page = NoPage
  /\ torn = {}
  /\ exposed = {}
  /\ met = {}

InstallStep(a) ==
  \/ \E n \in Names : Upload(a, n)
  \/ CopyFolder(a)
  \/ CopyOpen(a)
  \/ CopyWrite(a)
  \/ CopyFails(a)

SetStep(a) ==
  \/ SetBuiltin(a)
  \/ \E n \in Names : SetTheme(a, n)
  \/ ReadManifest(a)
  \/ StatIndex(a)
  \/ SaveActive(a)

DeleteStep(a) ==
  \/ \E n \in Names : Delete(a, n)
  \/ StatTheme(a)

RemoveStep(a) == RemoveEntry(a) \/ Removed(a) \/ RemoveFails(a)

PageRequestStep ==
  \/ \E path \in Paths : GetPage(path)
  \/ StatDist
  \/ OpenFile
  \/ ServeFile
  \/ Fallback
  \/ ServeIndex

Next ==
  \/ \E a \in Admins :
       InstallStep(a) \/ SetStep(a) \/ DeleteStep(a) \/ RemoveStep(a)
  \/ PageRequestStep
  \/ Crash

Spec == Init /\ [][Next]_vars

-----------------------------------------------------------------------------
(* Properties *)

TypeOK ==
  /\ active \in Names \cup {Builtin}
  /\ disk \in [Names -> [Entries -> {Truncated} \cup 0..Len(packages)]]
  /\ \A n \in Names : \A e \in DOMAIN Inside :
       Exists(n, e) => Exists(n, Inside[e])
  /\ packages \in Seq(Packages)
  /\ op \in [Admins -> [kind : Kinds, name : Names \cup {Builtin},
                        step : Steps, package : 0..Len(packages),
                        at : Nat]]
  /\ page \in [step : {"idle", "root", "open", "serve", "fallback",
                       "serveIndex"},
               theme : Names \cup {Builtin}, path : {"index", "asset"},
               quiet : BOOLEAN,
               answer : {"none", "theme", "builtin", "notFound"}]
  /\ torn \cup exposed \subseteq Names
  /\ met \subseteq Admins

\* The install of theme n by request a, which met no other on it, is answered
\* with success: the manifest of its package, the last file, is in place.
Completes(a, n) ==
  /\ op[a].name = n /\ op[a].step = "write"
  /\ a \notin met /\ op'[a] = Idle
  /\ disk'[n]["manifest"] = op[a].package

\* An install that is answered with success and met no other request on its
\* theme leaves that theme exactly its package: whatever was there before, of
\* installs and deletes that failed, were cut off by a crash or met each other,
\* it mends, and of an older version nothing stays (InstallThemeFromZIP).
InstallHeals ==
  [][\A a \in Admins, n \in Names : Completes(a, n) => Whole(n)']_vars

\* A theme the panel offers is complete, even while it is being copied and
\* after a copy that failed or was cut off by a crash: copyDir writes dist/
\* before the manifest, and ListThemes shows no theme without one. Exempt is
\* what is being removed, and where two requests met.
ListedWhole ==
  \A n \in Names : Listed(n) => Whole(n) \/ n \in torn \cup exposed

\* However broken the active theme is, the front page is found: only a removal
\* from that very theme while the request is under way can make it a 404
\* (serveThemeStatic's and currentThemeRoot's fallbacks).
FrontPageFound ==
  [][page.step # "idle" /\ page'.answer = "notFound" =>
       page.path = "asset" \/ ~page.quiet]_vars
=============================================================================
