---------------------------- MODULE Themes_proofs ----------------------------
(***************************************************************************)
(* Theorems about Themes for any names, any number of admin requests and   *)
(* any combination of faults: types, and the three properties that an      *)
(* install mends its theme, that a theme on offer is whole, and that the   *)
(* front page is found.                                                    *)
(***************************************************************************)
EXTENDS Themes, TLAPS

-----------------------------------------------------------------------------
(* Packages and the order in which their entries are copied *)

LEMMA WalkFacts ==
  ASSUME NEW p \in Packages
  PROVE  /\ Len(Walk(p)) \in {4, 5}
         /\ \A i \in 1..Len(Walk(p)) : Walk(p)[i] \in Entries
         /\ Walk(p)[1] = "root" /\ Walk(p)[2] = "dist"
         /\ Walk(p)[Len(Walk(p))] = "manifest"
         /\ \A i \in 1..Len(Walk(p)) : i > 2 => Walk(p)[i] \in Files
  BY DEF Walk, Packages, Entries, Files, Folders

\* What a request that is under way looks like.
RequestOK(r) ==
  \/ r = Idle
  \/ /\ r.kind = "install"
     /\ r.name \in Names
     /\ r.package \in 1..Len(packages)
     /\ r.at \in 1..Len(Walk(packages[r.package]))
     /\ r.step \in {"remove", "copy", "write"}
     /\ r.step = "remove" => r.at = 1
     /\ r.step = "write" => Walk(packages[r.package])[r.at] \in Files
  \/ /\ r.kind = "set"
     /\ \/ r.step \in {"manifest", "index"} /\ r.name \in Names
        \/ r.step = "save" /\ r.name \in Names \cup {Builtin}
  \/ /\ r.kind = "delete"
     /\ r.name \in Names
     /\ r.step \in {"stat", "remove"}

RequestsOK == \A a \in Admins : RequestOK(op[a])

BasicInv == TypeOK /\ RequestsOK

OpType(k) == [kind : Kinds, name : Names \cup {Builtin}, step : Steps,
              package : 0..k, at : Nat]

LEMMA IdleType ==
  ASSUME packages \in Seq(Packages)
  PROVE  /\ Idle \in OpType(Len(packages))
         /\ Idle.kind = "none" /\ Idle.step = "idle" /\ Idle.name = Builtin
  BY DEF Idle, Request, Kinds, Steps, OpType

\* After one more package the requests under way are what they were.
LEMMA MorePackages ==
  ASSUME packages \in Seq(Packages), NEW p \in Packages,
         packages' = Append(packages, p)
  PROVE  /\ packages' \in Seq(Packages)
         /\ Len(packages') = Len(packages) + 1
         /\ \A v \in 1..Len(packages) : packages'[v] = packages[v]
         /\ packages'[Len(packages) + 1] = p
  OBVIOUS

LEMMA TypeInit == Init => BasicInv
<1>1. ASSUME Init PROVE packages \in Seq(Packages)
  BY <1>1 DEF Init
<1>2. ASSUME Init PROVE op \in [Admins -> OpType(Len(packages))]
  BY <1>2, <1>1, IdleType DEF Init
<1>3. ASSUME Init PROVE TypeOK
  BY <1>1, <1>2, <1>3 DEF Init, TypeOK, Nothing, NoPage, Absent, Exists,
    Truncated, Inside, Entries, OpType
<1>4. ASSUME Init PROVE RequestsOK
  BY <1>4 DEF Init, RequestsOK, RequestOK
<1> QED
  BY <1>3, <1>4 DEF BasicInv

-----------------------------------------------------------------------------
(* How requests begin, go on and end *)

LEMMA Beginning ==
  ASSUME BasicInv, UNCHANGED packages, NEW a \in Admins,
         NEW r \in OpType(Len(packages)), Begin(a, r), RequestOK(r)
  PROVE  /\ op' \in [Admins -> OpType(Len(packages))]
         /\ met' \subseteq Admins
         /\ RequestsOK'
  BY DEF BasicInv, TypeOK, OpType, Begin, Rivals, RequestsOK, RequestOK

LEMMA Going ==
  ASSUME BasicInv, UNCHANGED packages, NEW a \in Admins, NEW st \in Steps,
         Step(a, st), RequestOK([op[a] EXCEPT !.step = st])
  PROVE  /\ op' \in [Admins -> OpType(Len(packages))]
         /\ met' \subseteq Admins
         /\ RequestsOK'
<1>1. op \in [Admins -> OpType(Len(packages))]
  BY DEF BasicInv, TypeOK, OpType
<1>2. /\ op'[a] = [op[a] EXCEPT !.step = st]
      /\ \A b \in Admins \ {a} : op'[b] = op[b]
  BY <1>1 DEF Step
<1>3. op' \in [Admins -> OpType(Len(packages))]
  <2>1. [op[a] EXCEPT !.step = st] \in OpType(Len(packages))
    BY <1>1 DEF OpType
  <2> QED
    BY <1>1, <2>1 DEF Step
<1>4. ASSUME NEW b \in Admins PROVE RequestOK(op[b])'
  <2>1. RequestOK(op'[b])
    BY <1>2 DEF BasicInv, RequestsOK
  <2> QED
    BY <2>1 DEF RequestOK
<1> QED
  BY <1>3, <1>4 DEF Step, RequestsOK, BasicInv, TypeOK

LEMMA Finishing ==
  ASSUME BasicInv, UNCHANGED packages, NEW a \in Admins, Finish(a)
  PROVE  /\ op' \in [Admins -> OpType(Len(packages))]
         /\ met' \subseteq Admins
         /\ RequestsOK'
<1>1. packages \in Seq(Packages) /\ op \in [Admins -> OpType(Len(packages))]
  BY DEF BasicInv, TypeOK, OpType
<1>2. Idle \in OpType(Len(packages))
  BY <1>1, IdleType
<1> QED
  BY <1>1, <1>2 DEF Finish, RequestsOK, RequestOK, BasicInv, TypeOK

\* The steps that leave op alone leave its requests well-formed.
LEMMA OpUnchanged ==
  ASSUME BasicInv, UNCHANGED <<op, packages, met>>
  PROVE  /\ op' \in [Admins -> OpType(Len(packages))]
         /\ met' \subseteq Admins
         /\ RequestsOK'
  BY DEF BasicInv, TypeOK, OpType, RequestsOK, RequestOK

\* An install goes on to its next entry, or ends.
LEMMA GoingOn ==
  ASSUME BasicInv, UNCHANGED packages, NEW a \in Admins, Visited(a),
         op[a].step \in {"copy", "write"}
  PROVE  /\ op' \in [Admins -> OpType(Len(packages))]
         /\ met' \subseteq Admins
         /\ RequestsOK'
<1>1. RequestOK(op[a]) /\ op[a] # Idle
  BY DEF BasicInv, RequestsOK, Idle, Request
<1>2. op[a].package \in 1..Len(packages) /\ packages[op[a].package] \in Packages
  BY <1>1 DEF BasicInv, TypeOK, RequestOK
<1> DEFINE n == Len(Walk(packages[op[a].package]))
<1>3. n \in Nat
  BY <1>2, WalkFacts
<1>4. CASE op[a].at < n
  <2> DEFINE r == [op[a] EXCEPT !.at = @ + 1, !.step = "copy"]
  <2>1. op \in [Admins -> OpType(Len(packages))]
    BY DEF BasicInv, TypeOK, OpType
  <2>2. r \in OpType(Len(packages)) /\ RequestOK(r)
    <3>1. op[a].kind = "install" /\ op[a].name \in Names /\ op[a].at \in 1..n
      BY <1>1 DEF RequestOK
    <3>2. /\ r.kind = "install" /\ r.name = op[a].name
          /\ r.package = op[a].package /\ r.at = op[a].at + 1
          /\ r.step = "copy"
      BY <2>1, <3>1 DEF OpType
    <3>3. r \in OpType(Len(packages))
      <4> DEFINE r1 == [op[a] EXCEPT !.at = @ + 1]
      <4>1. r1 \in OpType(Len(packages))
        BY <2>1, <3>1 DEF OpType
      <4>2. r = [r1 EXCEPT !.step = "copy"]
        OBVIOUS
      <4> QED
        BY <4>1, <4>2 DEF OpType, Steps
    <3>4. RequestOK(r)
      <4>1. r.at \in 1..n
        BY <1>3, <1>4, <3>1, <3>2
      <4> QED
        BY <1>2, <3>1, <3>2, <4>1 DEF RequestOK
    <3> QED
      BY <3>3, <3>4
  <2>3. op' = [op EXCEPT ![a] = r] /\ met' = met
    BY <1>4, <2>1 DEF Visited
  <2>4. ASSUME NEW b \in Admins PROVE RequestOK(op[b])'
    <3>1. RequestOK(op'[b])
      BY <2>1, <2>2, <2>3 DEF BasicInv, RequestsOK
    <3> QED
      BY <3>1 DEF RequestOK
  <2> QED
    BY <2>1, <2>2, <2>3, <2>4 DEF RequestsOK, BasicInv, TypeOK
<1>5. CASE ~(op[a].at < n)
  BY <1>5, Finishing DEF Visited
<1> QED
  BY <1>4, <1>5

-----------------------------------------------------------------------------
(* What the steps do to the disk *)

DiskOK ==
  /\ disk \in [Names -> [Entries -> {Truncated} \cup 0..Len(packages)]]
  /\ \A n \in Names : \A e \in DOMAIN Inside :
       Exists(n, e) => Exists(n, Inside[e])

\* A request that is removing or copying has a theme, and its package.
LEMMA AtWork ==
  ASSUME BasicInv, NEW a \in Admins
  PROVE  /\ op[a].step \in {"remove", "copy", "write", "stat", "manifest", "index"}
              => op[a].name \in Names
         /\ op[a].step \in {"copy", "write"} =>
              /\ op[a].kind = "install"
              /\ op[a].package \in 1..Len(packages)
              /\ packages[op[a].package] \in Packages
              /\ op[a].at \in 1..Len(Walk(packages[op[a].package]))
              /\ Visiting(a) \in Entries
         /\ op[a].step = "write" => Visiting(a) \in Files
<1>1. RequestOK(op[a]) /\ packages \in Seq(Packages)
  BY DEF BasicInv, RequestsOK, TypeOK
<1>2. CASE op[a].step \in {"copy", "write"}
  <2>1. /\ op[a].kind = "install" /\ op[a].name \in Names
        /\ op[a].package \in 1..Len(packages)
        /\ op[a].at \in 1..Len(Walk(packages[op[a].package]))
        /\ op[a].step = "write" => Visiting(a) \in Files
    BY <1>1, <1>2 DEF RequestOK, Idle, Request, Visiting
  <2>2. packages[op[a].package] \in Packages
    BY <1>1, <2>1
  <2> QED
    BY <1>2, <2>1, <2>2, WalkFacts DEF Visiting
<1>3. CASE ~(op[a].step \in {"copy", "write"})
  BY <1>1, <1>3 DEF RequestOK, Idle, Request
<1> QED
  BY <1>2, <1>3

LEMMA RemoveEntryDisk ==
  ASSUME BasicInv, NEW a \in Admins, RemoveEntry(a) PROVE DiskOK'
<1>1. op[a].name \in Names
  BY AtWork DEF RemoveEntry
<1>2. PICK e \in Entries :
        /\ \A f \in DOMAIN Inside : Inside[f] = e => ~Exists(op[a].name, f)
        /\ disk' = [disk EXCEPT ![op[a].name][e] = Absent]
  BY DEF RemoveEntry
<1>3. \A n \in Names, f \in Entries :
        disk'[n][f] = IF n = op[a].name /\ f = e THEN Absent ELSE disk[n][f]
  BY <1>1, <1>2 DEF BasicInv, TypeOK
<1>4. disk' \in [Names -> [Entries -> {Truncated} \cup 0..Len(packages)]]
  BY <1>1, <1>2 DEF BasicInv, TypeOK, Absent
<1>5. ASSUME NEW n \in Names, NEW f \in DOMAIN Inside, disk'[n][f] # Absent
      PROVE  disk'[n][Inside[f]] # Absent
  <2>1. f \in Entries /\ Inside[f] \in Entries
    BY DEF Inside, Entries
  <2>2. disk[n][f] # Absent
    BY <1>3, <1>5, <2>1
  <2>3. disk[n][Inside[f]] # Absent
    BY <2>2 DEF BasicInv, TypeOK, Exists
  <2>4. ~(n = op[a].name /\ Inside[f] = e)
    BY <1>2, <2>2 DEF Exists
  <2> QED
    BY <1>3, <2>1, <2>3, <2>4
<1> QED
  BY <1>4, <1>5 DEF DiskOK, Exists, RemoveEntry

LEMMA CopyFolderDisk ==
  ASSUME BasicInv, NEW a \in Admins, CopyFolder(a) PROVE DiskOK'
<1> DEFINE m == op[a].name
           v == op[a].package
<1>1. m \in Names /\ v \in 1..Len(packages) /\ Visiting(a) \in Folders
  BY AtWork DEF CopyFolder
<1>2. Len(packages) \in Nat
  BY DEF BasicInv, TypeOK
<1>3. \A n \in Names, f \in Entries :
        disk'[n][f] = IF n = m /\ f \in {"root", Visiting(a)} /\ ~Exists(m, f)
                      THEN v ELSE disk[n][f]
  BY <1>1 DEF CopyFolder, BasicInv, TypeOK
<1>4. disk' \in [Names -> [Entries -> {Truncated} \cup 0..Len(packages)]]
  <2>1. [e \in Entries |-> IF e \in {"root", Visiting(a)} /\ ~Exists(m, e)
                           THEN v ELSE disk[m][e]]
          \in [Entries -> {Truncated} \cup 0..Len(packages)]
    BY <1>1, <1>2 DEF BasicInv, TypeOK
  <2> QED
    BY <1>1, <2>1 DEF CopyFolder, BasicInv, TypeOK
<1>5. ASSUME NEW n \in Names, NEW f \in DOMAIN Inside, disk'[n][f] # Absent
      PROVE  disk'[n][Inside[f]] # Absent
  <2>1. f \in Entries /\ Inside[f] \in Entries
    BY DEF Inside, Entries
  <2>2. v # Absent
    BY <1>1, <1>2 DEF Absent
  <2>3. \A k \in Names, g \in Entries :
          disk[k][g] # Absent => disk'[k][g] # Absent
    BY <1>3, <2>2
  <2>4. CASE disk[n][f] # Absent
    <3>1. disk[n][Inside[f]] # Absent
      BY <2>4 DEF BasicInv, TypeOK, Exists
    <3> QED
      BY <2>1, <2>3, <3>1
  <2>5. CASE disk[n][f] = Absent
    <3>1. n = m /\ f \in {"root", Visiting(a)}
      BY <1>3, <1>5, <2>1, <2>5
    <3>2. Inside[f] = "root"
      BY <1>1, <3>1 DEF Inside, Folders, Files, Entries
    <3>3. disk'[m]["root"] # Absent
      BY <1>1, <1>3, <2>2 DEF Entries, Exists
    <3> QED
      BY <3>1, <3>2, <3>3
  <2> QED
    BY <2>4, <2>5
<1> QED
  BY <1>4, <1>5 DEF DiskOK, Exists, CopyFolder

LEMMA CopyOpenDisk ==
  ASSUME BasicInv, NEW a \in Admins, CopyOpen(a) PROVE DiskOK'
<1> DEFINE m == op[a].name
           e == Visiting(a)
<1>1. m \in Names /\ e \in Files /\ e \in Entries
  BY AtWork DEF CopyOpen, Files
<1>2. \A n \in Names, f \in Entries :
        disk'[n][f] = IF n = m /\ f = e THEN Truncated ELSE disk[n][f]
  BY <1>1 DEF CopyOpen, BasicInv, TypeOK
<1>3. disk' \in [Names -> [Entries -> {Truncated} \cup 0..Len(packages)]]
  BY <1>1 DEF CopyOpen, BasicInv, TypeOK
<1>4. Exists(m, Inside[e])
  BY <1>1 DEF CopyOpen, FolderReady, Files
<1>5. ASSUME NEW n \in Names, NEW f \in DOMAIN Inside, disk'[n][f] # Absent
      PROVE  disk'[n][Inside[f]] # Absent
  BY <1>1, <1>2, <1>4, <1>5
  DEF BasicInv, TypeOK, Exists, Inside, Entries, Files, Folders, Absent, Truncated
<1> QED
  BY <1>3, <1>5 DEF DiskOK, Exists, CopyOpen

LEMMA CopyWriteDisk ==
  ASSUME BasicInv, NEW a \in Admins, CopyWrite(a) PROVE DiskOK'
<1> DEFINE m == op[a].name
           e == Visiting(a)
           v == op[a].package
<1>1. m \in Names /\ e \in Files /\ e \in Entries /\ v \in 1..Len(packages)
  BY AtWork DEF CopyWrite
<1>2. Len(packages) \in Nat
  BY DEF BasicInv, TypeOK
<1>3. CASE Exists(m, e) /\ disk' = [disk EXCEPT ![m][e] = v]
  <2>1. \A n \in Names, f \in Entries :
          disk'[n][f] = IF n = m /\ f = e THEN v ELSE disk[n][f]
    BY <1>1, <1>3 DEF BasicInv, TypeOK
  <2>2. disk' \in [Names -> [Entries -> {Truncated} \cup 0..Len(packages)]]
    BY <1>1, <1>2, <1>3 DEF BasicInv, TypeOK
  <2>3. ASSUME NEW n \in Names, NEW f \in DOMAIN Inside, disk'[n][f] # Absent
        PROVE  disk'[n][Inside[f]] # Absent
    BY <1>1, <1>2, <1>3, <2>1, <2>3
    DEF BasicInv, TypeOK, Exists, Inside, Entries, Absent
  <2> QED
    BY <2>2, <2>3 DEF DiskOK, Exists, CopyWrite
<1>4. CASE UNCHANGED disk
  BY <1>4 DEF CopyWrite, BasicInv, TypeOK, DiskOK, Exists
<1> QED
  BY <1>3, <1>4 DEF CopyWrite

-----------------------------------------------------------------------------
(* Types *)

OpOK ==
  /\ op \in [Admins -> OpType(Len(packages))]
  /\ met \subseteq Admins
  /\ RequestsOK

PageOK ==
  page \in [step : {"idle", "root", "open", "serve", "fallback", "serveIndex"},
            theme : Names \cup {Builtin}, path : {"index", "asset"},
            quiet : BOOLEAN,
            answer : {"none", "theme", "builtin", "notFound"}]

RestOK ==
  /\ active \in Names \cup {Builtin}
  /\ packages \in Seq(Packages)
  /\ torn \cup exposed \subseteq Names

LEMMA Parts ==
  /\ BasicInv <=> DiskOK /\ OpOK /\ PageOK /\ RestOK
  /\ BasicInv' <=> DiskOK' /\ OpOK' /\ PageOK' /\ RestOK'
<1>1. BasicInv <=> DiskOK /\ OpOK /\ PageOK /\ RestOK
  BY DEF BasicInv, TypeOK, DiskOK, OpOK, PageOK, RestOK, OpType
<1>2. BasicInv' <=> DiskOK' /\ OpOK' /\ PageOK' /\ RestOK'
  BY DEF BasicInv, TypeOK, DiskOK, OpOK, PageOK, RestOK, OpType
<1> QED
  BY <1>1, <1>2

LEMMA DiskUnchanged ==
  ASSUME BasicInv, UNCHANGED <<disk, packages>> PROVE DiskOK'
  BY DEF BasicInv, TypeOK, DiskOK, Exists

LEMMA DisturbedType ==
  ASSUME PageOK, NEW n \in Names PROVE PageOK /\ Disturbed(n) \in
    [step : {"idle", "root", "open", "serve", "fallback", "serveIndex"},
     theme : Names \cup {Builtin}, path : {"index", "asset"},
     quiet : BOOLEAN,
     answer : {"none", "theme", "builtin", "notFound"}]
  BY DEF PageOK, Disturbed

LEMMA UploadType ==
  ASSUME BasicInv, NEW a \in Admins, NEW n \in Names, Upload(a, n)
  PROVE  BasicInv'
<1> DEFINE k == Len(packages)
           r == Request("install", n, "remove", k + 1)
<1>1. PICK p \in Packages : packages' = Append(packages, p)
  BY DEF Upload
<1>2. DiskOK /\ OpOK /\ PageOK /\ RestOK
  BY Parts
<1>3. /\ packages' \in Seq(Packages) /\ k \in Nat /\ Len(packages') = k + 1
      /\ \A v \in 1..k : packages'[v] = packages[v]
      /\ packages'[k + 1] = p
  BY <1>1, <1>2, MorePackages DEF RestOK
<1>4. DiskOK'
  <2>1. disk' \in [Names -> [Entries -> {Truncated} \cup 0..Len(packages')]]
    BY <1>2, <1>3 DEF DiskOK, Upload
  <2> QED
    BY <1>2, <2>1 DEF DiskOK, Upload, Exists
<1>5. op' \in [Admins -> OpType(Len(packages'))]
  <2>1. r \in OpType(k + 1)
    BY <1>3 DEF OpType, Request, Kinds, Steps
  <2>2. op \in [Admins -> OpType(k + 1)]
    BY <1>2, <1>3 DEF OpOK, OpType
  <2> QED
    BY <1>3, <2>1, <2>2 DEF Upload, Begin
<1>6. met' \subseteq Admins
  BY <1>2 DEF Upload, Begin, Rivals, OpOK
<1>7. ASSUME NEW b \in Admins PROVE RequestOK(op[b])'
  <2>1. CASE b = a
    <3>1. op'[b] = r
      BY <1>2, <2>1 DEF Upload, Begin, OpOK
    <3>2. /\ r.kind = "install" /\ r.name = n /\ r.package = k + 1
          /\ r.at = 1 /\ r.step = "remove"
      BY DEF Request
    <3>3. 1 \in 1..Len(Walk(packages'[k + 1]))
      BY <1>3, WalkFacts
    <3> QED
      BY <1>3, <3>1, <3>2, <3>3 DEF RequestOK
  <2>2. CASE b # a
    <3>1. op'[b] = op[b] /\ RequestOK(op[b])
      BY <1>2, <2>2 DEF Upload, Begin, OpOK, RequestsOK
    <3>2. \A v \in 1..k : v \in 1..Len(packages') /\ packages'[v] = packages[v]
      BY <1>3
    <3> QED
      BY <3>1, <3>2 DEF RequestOK
  <2> QED
    BY <2>1, <2>2
<1>8. PageOK' /\ RestOK'
  <2>1. exposed' \subseteq exposed \cup {n}
    <3>1. r.name = n
      BY DEF Request
    <3>2. exposed' = Exposing(r)
      BY DEF Upload
    <3> QED
      BY <3>1, <3>2 DEF Exposing
  <2>2. UNCHANGED <<active, page, torn>>
    BY DEF Upload
  <2> QED
    BY <1>2, <1>3, <2>1, <2>2 DEF PageOK, RestOK
<1> QED
  BY <1>4, <1>5, <1>6, <1>7, <1>8, Parts DEF OpOK, RequestsOK

LEMMA InstallType ==
  ASSUME BasicInv, NEW a \in Admins, InstallStep(a) PROVE BasicInv'
<1> USE Parts
<1>1. ASSUME NEW n \in Names, Upload(a, n) PROVE BasicInv'
  BY <1>1, UploadType
<1>2. ASSUME CopyFolder(a) \/ CopyOpen(a) \/ CopyWrite(a)
      PROVE  PageOK' /\ RestOK'
  <2>1. UNCHANGED <<active, packages, page>>
    BY <1>2 DEF CopyFolder, CopyOpen, CopyWrite
  <2>2. torn' \cup exposed' \subseteq torn \cup exposed
    BY <1>2 DEF CopyFolder, CopyOpen, CopyWrite, Visited, history
  <2> QED
    BY <2>1, <2>2 DEF PageOK, RestOK
<1>3. ASSUME CopyFolder(a) \/ CopyWrite(a) PROVE OpOK'
  BY <1>3, GoingOn DEF CopyFolder, CopyWrite, OpOK
<1>4. ASSUME CopyOpen(a) PROVE OpOK'
  <2>1. RequestOK(op[a]) /\ op[a].step = "copy" /\ Visiting(a) \in Files
    BY <1>4 DEF CopyOpen, BasicInv, RequestsOK
  <2>2. op[a] \in OpType(Len(packages))
    BY DEF OpOK
  <2>3. RequestOK([op[a] EXCEPT !.step = "write"])
    BY <2>1, <2>2 DEF RequestOK, OpType, Idle, Request, Visiting
  <2> QED
    BY <1>4, <2>3, Going DEF CopyOpen, OpOK, Steps
<1>5. CASE CopyFolder(a)
  BY <1>5, <1>2, <1>3, CopyFolderDisk
<1>6. CASE CopyOpen(a)
  BY <1>6, <1>2, <1>4, CopyOpenDisk
<1>7. CASE CopyWrite(a)
  BY <1>7, <1>2, <1>3, CopyWriteDisk
<1>8. CASE CopyFails(a)
  BY <1>8, Finishing, DiskUnchanged
  DEF CopyFails, OpOK, PageOK, RestOK, history
<1> QED
  BY <1>1, <1>5, <1>6, <1>7, <1>8 DEF InstallStep

\* A request of the kinds that carry no package is well-formed.
LEMMA NewRequest ==
  ASSUME BasicInv, NEW n \in Names \cup {Builtin}, NEW st \in {"manifest", "save", "stat"},
         NEW kind \in {"set", "delete"},
         \/ kind = "set" /\ st = "save"
         \/ kind = "set" /\ st = "manifest" /\ n \in Names
         \/ kind = "delete" /\ st = "stat" /\ n \in Names
  PROVE  /\ Request(kind, n, st, 0) \in OpType(Len(packages))
         /\ RequestOK(Request(kind, n, st, 0))
<1>1. Len(packages) \in Nat
  BY DEF BasicInv, TypeOK
<1> QED
  BY <1>1 DEF Request, RequestOK, OpType, Kinds, Steps

LEMMA SetType ==
  ASSUME BasicInv, NEW a \in Admins, SetStep(a) PROVE BasicInv'
<1> USE Parts
<1>1. CASE SetBuiltin(a)
  BY <1>1, NewRequest, Beginning, DiskUnchanged
  DEF SetBuiltin, OpOK, PageOK, RestOK, history
<1>2. ASSUME NEW n \in Names, SetTheme(a, n) PROVE BasicInv'
  BY <1>2, NewRequest, Beginning, DiskUnchanged
  DEF SetTheme, OpOK, PageOK, RestOK, history
<1>3. ASSUME op[a].step \in {"manifest", "index"}
      PROVE  \A st \in {"index", "save"} : RequestOK([op[a] EXCEPT !.step = st])
  <2>1. op[a] \in OpType(Len(packages)) /\ RequestOK(op[a])
    BY DEF OpOK, RequestsOK
  <2> QED
    BY <1>3, <2>1 DEF RequestOK, OpType, Idle, Request
<1>4. CASE ReadManifest(a)
  BY <1>3, <1>4, Going, Finishing, DiskUnchanged
  DEF ReadManifest, OpOK, PageOK, RestOK, history, Steps
<1>5. CASE StatIndex(a)
  BY <1>3, <1>5, Going, Finishing, DiskUnchanged
  DEF StatIndex, OpOK, PageOK, RestOK, history, Steps
<1>6. CASE SaveActive(a)
  <2>1. op[a].name \in Names \cup {Builtin}
    BY DEF OpOK, OpType
  <2> QED
    BY <1>6, <2>1, Finishing, DiskUnchanged
    DEF SaveActive, OpOK, PageOK, RestOK, history
<1> QED
  BY <1>1, <1>2, <1>4, <1>5, <1>6 DEF SetStep

LEMMA DeleteType ==
  ASSUME BasicInv, NEW a \in Admins, DeleteStep(a) PROVE BasicInv'
<1> USE Parts
<1>1. ASSUME NEW n \in Names, Delete(a, n) PROVE BasicInv'
  BY <1>1, NewRequest, Beginning, DiskUnchanged
  DEF Delete, OpOK, PageOK, RestOK, Exposing, Request
<1>2. CASE StatTheme(a)
  <2>1. op[a] \in OpType(Len(packages)) /\ RequestOK(op[a])
    BY DEF OpOK, RequestsOK
  <2>2. RequestOK([op[a] EXCEPT !.step = "remove"])
    BY <1>2, <2>1 DEF StatTheme, RequestOK, OpType, Idle, Request
  <2> QED
    BY <1>2, <2>2, Going, Finishing, DiskUnchanged
    DEF StatTheme, OpOK, PageOK, RestOK, history, Steps
<1> QED
  BY <1>1, <1>2 DEF DeleteStep

LEMMA RemoveType ==
  ASSUME BasicInv, NEW a \in Admins, RemoveStep(a) PROVE BasicInv'
<1> USE Parts
<1>1. ASSUME op[a].step = "remove" PROVE op[a].name \in Names
  BY <1>1, AtWork
<1>2. CASE RemoveEntry(a)
  <2>1. PageOK'
    BY <1>1, <1>2, DisturbedType DEF RemoveEntry, PageOK
  <2> QED
    BY <1>1, <1>2, <2>1, OpUnchanged, RemoveEntryDisk
    DEF RemoveEntry, OpOK, RestOK
<1>3. CASE Removed(a)
  <2>1. PageOK' /\ RestOK' /\ DiskOK'
    BY <1>1, <1>3, DiskUnchanged DEF Removed, PageOK, RestOK
  <2>2. CASE op[a].kind = "install"
    <3>1. op[a] \in OpType(Len(packages)) /\ RequestOK(op[a])
      BY DEF OpOK, RequestsOK
    <3>2. RequestOK([op[a] EXCEPT !.step = "copy"])
      BY <1>3, <2>2, <3>1 DEF Removed, RequestOK, OpType, Idle, Request
    <3> QED
      BY <1>3, <2>1, <2>2, <3>2, Going DEF Removed, OpOK, Steps
  <2>3. CASE op[a].kind # "install"
    BY <1>3, <2>1, <2>3, Finishing DEF Removed, OpOK
  <2> QED
    BY <2>2, <2>3
<1>4. CASE RemoveFails(a)
  BY <1>4, Finishing, DiskUnchanged
  DEF RemoveFails, OpOK, PageOK, RestOK, history
<1> QED
  BY <1>2, <1>3, <1>4 DEF RemoveStep

LEMMA PageType ==
  ASSUME BasicInv, PageRequestStep PROVE BasicInv'
<1> USE Parts
<1>1. UNCHANGED <<active, disk, packages, op, history, met>>
  BY DEF PageRequestStep, GetPage, StatDist, OpenFile, ServeFile, Fallback,
    ServeIndex
<1>2. ActiveRead \subseteq Names \cup {Builtin}
  BY DEF ActiveRead, RestOK
<1>3. \A path \in {"index", "asset"} :
        BuiltinAnswer(path) \in {"none", "theme", "builtin", "notFound"}
  BY DEF BuiltinAnswer
<1>4. NoPage \in [step : {"idle"}, theme : {Builtin}, path : {"index"},
                  quiet : {TRUE}, answer : {"none"}]
  BY DEF NoPage
<1>5. \A answer \in {"none", "theme", "builtin", "notFound"} :
        Answer(answer) => PageOK'
  BY <1>4 DEF Answer, PageOK
<1>6. \A step \in {"open", "serve", "fallback", "serveIndex"} :
        PageStep(step) => PageOK'
  BY DEF PageStep, PageOK
<1>7. ASSUME NEW path \in {"index", "asset"}, GetPage(path) PROVE PageOK'
  <2>1. PICK read \in ActiveRead :
          \/ Answer(BuiltinAnswer(path))
          \/ page' = [NoPage EXCEPT !.step = "root", !.theme = read,
                                    !.path = path]
    BY <1>7 DEF GetPage
  <2>2. CASE Answer(BuiltinAnswer(path))
    BY <2>2, <1>3, <1>5
  <2>3. CASE page' = [NoPage EXCEPT !.step = "root", !.theme = read,
                                   !.path = path]
    BY <2>3, <1>2, <1>4 DEF PageOK
  <2> QED
    BY <2>1, <2>2, <2>3
<1>8. page.path \in {"index", "asset"}
  BY DEF PageOK
<1>9. PageOK'
  <2>1. CASE StatDist
    BY <2>1, <1>3, <1>5, <1>6, <1>8 DEF StatDist
  <2>2. CASE OpenFile
    BY <2>2, <1>6 DEF OpenFile
  <2>3. CASE ServeFile
    BY <2>3, <1>5 DEF ServeFile
  <2>4. CASE Fallback
    BY <2>4, <1>3, <1>5, <1>6, <1>8 DEF Fallback
  <2>5. CASE ServeIndex
    BY <2>5, <1>5 DEF ServeIndex
  <2> QED
    BY <1>7, <2>1, <2>2, <2>3, <2>4, <2>5, ThemesAssumption
    DEF PageRequestStep
<1> QED
  BY <1>1, <1>9, DiskUnchanged, OpUnchanged DEF OpOK, RestOK, history

LEMMA CrashType ==
  ASSUME BasicInv, Crash PROVE BasicInv'
<1> USE Parts
<1>1. OpOK'
  BY IdleType DEF Crash, OpOK, RestOK, RequestsOK, RequestOK
<1> QED
  BY <1>1, DiskUnchanged DEF Crash, PageOK, NoPage, RestOK, history

LEMMA TypeStep == BasicInv /\ [Next]_vars => BasicInv'
<1> SUFFICES ASSUME BasicInv, [Next]_vars PROVE BasicInv'
  OBVIOUS
<1>1. CASE UNCHANGED vars
  BY <1>1, Parts, DiskUnchanged, OpUnchanged
  DEF vars, history, OpOK, PageOK, RestOK
<1>2. ASSUME NEW a \in Admins,
             InstallStep(a) \/ SetStep(a) \/ DeleteStep(a) \/ RemoveStep(a)
      PROVE  BasicInv'
  BY <1>2, InstallType, SetType, DeleteType, RemoveType
<1>3. CASE PageRequestStep
  BY <1>3, PageType
<1>4. CASE Crash
  BY <1>4, CrashType
<1> QED
  BY <1>1, <1>2, <1>3, <1>4 DEF Next

\* Every reachable state has its types; on disk no entry of a theme is ever
\* there without the folder it is in (os.RemoveAll, copyDir's MkdirAll and
\* OpenFile).
THEOREM TypeCorrect == Spec => []TypeOK
<1>1. Spec => []BasicInv
  BY TypeInit, TypeStep, PTL DEF Spec
<1>2. BasicInv => TypeOK
  BY DEF BasicInv
<1> QED
  BY <1>1, <1>2, PTL

-----------------------------------------------------------------------------
(* The inductive invariant *)

\* Of two requests that the code should have kept apart, both are known to
\* have met, and the theme an install or a delete met another on is exposed.
MeetInv ==
  /\ \A a, b \in Admins :
       a # b /\ op[a].name = op[b].name /\ Meet(op[a].kind, op[b].kind)
         => a \in met
  /\ \A a \in met : op[a].kind # "none"
  /\ \A a \in met : op[a].kind \in {"install", "delete"}
                      => op[a].name \in exposed

\* What an install that met nobody has copied so far is what is on disk.
Copied(a) ==
  LET w == Walk(packages[op[a].package]) IN
  \A e \in Entries :
    disk[op[a].name][e] =
      IF \E i \in 1..(op[a].at - 1) : w[i] = e THEN op[a].package
      ELSE IF op[a].step = "write" /\ e = w[op[a].at] THEN Truncated
      ELSE Absent

CopyInv ==
  \A a \in Admins :
    op[a].step \in {"copy", "write"} /\ a \notin met => Copied(a)

\* A theme with a manifest is whole.
ListInv ==
  \A n \in Names :
    n \notin torn \cup exposed /\ disk[n]["manifest"] > Absent => Whole(n)

ThemesInv == BasicInv /\ MeetInv /\ CopyInv /\ ListInv

\* A request for a page that no removal disturbs finds what it saw.
PageInv ==
  /\ page.step # "idle" => page.theme \in Names /\ page.answer = "none"
  /\ page.step = "serve" /\ page.quiet => Exists(page.theme, page.path)
  /\ page.step = "serveIndex" /\ page.quiet => Exists(page.theme, "index")

-----------------------------------------------------------------------------
(* The front page *)

\* Only a removal takes an entry away, and it disturbs a request that reads
\* that theme.
LEMMA EntriesStay ==
  ASSUME BasicInv, NEW a \in Admins, NEW n \in Names, NEW e \in Entries,
         InstallStep(a) \/ SetStep(a) \/ DeleteStep(a) \/ RemoveStep(a),
         Exists(n, e)
  PROVE  disk'[n][e] # Absent \/ (page' = Disturbed(n) /\ RemoveEntry(a))
<1>1. CASE UNCHANGED disk
  BY <1>1 DEF Exists
<1>2. CASE CopyFolder(a)
  <2>1. op[a].name \in Names /\ op[a].package # Absent
    BY <1>2, AtWork DEF CopyFolder, Absent, BasicInv, TypeOK
  <2> QED
    BY <1>2, <2>1 DEF CopyFolder, BasicInv, TypeOK, Exists
<1>3. CASE CopyOpen(a)
  <2>1. op[a].name \in Names /\ Visiting(a) \in Entries
    BY <1>3, AtWork DEF CopyOpen
  <2> QED
    BY <1>3, <2>1 DEF CopyOpen, BasicInv, TypeOK, Exists, Absent, Truncated
<1>4. CASE CopyWrite(a)
  <2>1. op[a].name \in Names /\ Visiting(a) \in Entries /\ op[a].package # Absent
    BY <1>4, AtWork DEF CopyWrite, Absent, BasicInv, TypeOK
  <2> QED
    BY <1>4, <2>1 DEF CopyWrite, BasicInv, TypeOK, Exists
<1>5. CASE RemoveEntry(a)
  <2>1. op[a].name \in Names
    BY <1>5, AtWork DEF RemoveEntry
  <2>2. CASE n = op[a].name
    BY <1>5, <2>2 DEF RemoveEntry
  <2>3. CASE n # op[a].name
    BY <1>5, <2>1, <2>3 DEF RemoveEntry, BasicInv, TypeOK, Exists
  <2> QED
    BY <2>2, <2>3
<1> QED
  BY <1>1, <1>2, <1>3, <1>4, <1>5
  DEF InstallStep, SetStep, DeleteStep, RemoveStep, Upload, CopyFails,
    SetBuiltin, SetTheme, ReadManifest, StatIndex, SaveActive, Delete,
    StatTheme, Removed, RemoveFails

LEMMA AdminPage ==
  ASSUME NEW a \in Admins,
         InstallStep(a) \/ SetStep(a) \/ DeleteStep(a) \/ RemoveStep(a)
  PROVE  page' = page \/ (RemoveEntry(a) /\ page' = Disturbed(op[a].name))
  BY DEF InstallStep, SetStep, DeleteStep, RemoveStep, Upload, CopyFolder,
    CopyOpen, CopyWrite, CopyFails, SetBuiltin, SetTheme, ReadManifest,
    StatIndex, SaveActive, Delete, StatTheme, RemoveEntry, Removed, RemoveFails

LEMMA AdminKeepsPage ==
  ASSUME BasicInv, PageInv, NEW a \in Admins,
         InstallStep(a) \/ SetStep(a) \/ DeleteStep(a) \/ RemoveStep(a)
  PROVE  PageInv'
<1>1. /\ page'.step = page.step /\ page'.theme = page.theme
      /\ page'.path = page.path /\ page'.answer = page.answer
      /\ page'.quiet => page.quiet
  BY AdminPage DEF Disturbed, BasicInv, TypeOK
<1>2. ASSUME NEW e \in Entries, page'.quiet, page.theme \in Names,
             Exists(page.theme, e)
      PROVE  disk'[page.theme][e] # Absent
  <2>1. CASE page' = Disturbed(page.theme)
    BY <1>2, <2>1 DEF Disturbed, BasicInv, TypeOK
  <2> QED
    BY <1>2, <2>1, EntriesStay
<1>3. page.path \in Entries /\ "index" \in Entries
  BY DEF BasicInv, TypeOK, Entries
<1> QED
  BY <1>1, <1>2, <1>3 DEF PageInv, Exists

LEMMA RequestKeepsPage ==
  ASSUME BasicInv, PageInv, PageRequestStep
  PROVE  /\ PageInv'
         /\ page.step # "idle" /\ page'.answer = "notFound"
              => page.path = "asset" \/ ~page.quiet
<1> USE DEF PageInv, Exists
<1>1. UNCHANGED disk
  BY DEF PageRequestStep, GetPage, StatDist, OpenFile, ServeFile, Fallback,
    ServeIndex
<1>2. \A answer : Answer(answer) =>
        page'.step = "idle" /\ page'.answer = answer
  BY DEF Answer, NoPage
<1>3. \A step : PageStep(step) =>
        /\ page'.step = step /\ page'.theme = page.theme
        /\ page'.path = page.path /\ page'.answer = page.answer
  BY DEF PageStep, BasicInv, TypeOK
<1>4. page.path \in {"index", "asset"}
  BY DEF BasicInv, TypeOK
<1>5. ASSUME NEW path \in {"index", "asset"}, GetPage(path)
      PROVE  PageInv' /\ page.step = "idle"
  <2>1. PICK read \in ActiveRead :
          \/ Answer(BuiltinAnswer(path))
          \/ /\ read # Builtin
             /\ page' = [NoPage EXCEPT !.step = "root", !.theme = read,
                                       !.path = path]
    BY <1>5 DEF GetPage
  <2>2. CASE Answer(BuiltinAnswer(path))
    BY <1>2, <1>5, <2>2 DEF GetPage
  <2>3. CASE /\ read # Builtin
             /\ page' = [NoPage EXCEPT !.step = "root", !.theme = read,
                                       !.path = path]
    BY <1>5, <2>3 DEF GetPage, ActiveRead, NoPage, BasicInv, TypeOK
  <2> QED
    BY <2>1, <2>2, <2>3
<1>6. CASE StatDist
  BY <1>1, <1>2, <1>3, <1>4, <1>6 DEF StatDist, BuiltinAnswer
<1>7. CASE OpenFile
  BY <1>1, <1>3, <1>7 DEF OpenFile
<1>8. CASE ServeFile
  BY <1>2, <1>8 DEF ServeFile
<1>9. CASE Fallback
  BY <1>1, <1>2, <1>3, <1>4, <1>9 DEF Fallback, BuiltinAnswer
<1>10. CASE ServeIndex
  BY <1>2, <1>10 DEF ServeIndex
<1> QED
  BY <1>5, <1>6, <1>7, <1>8, <1>9, <1>10, ThemesAssumption
  DEF PageRequestStep

\* However broken the active theme is, the front page is found, whatever
\* admins do meanwhile, unless entries of that theme are removed under the
\* request (serveThemeStatic's and currentThemeRoot's fallbacks).
THEOREM FrontPage == Spec => FrontPageFound
<1>1. Init => BasicInv /\ PageInv
  BY TypeInit DEF Init, PageInv, NoPage
<1>2. ASSUME BasicInv, PageInv, [Next]_vars
      PROVE  PageInv' /\ [page.step # "idle" /\ page'.answer = "notFound" =>
                           page.path = "asset" \/ ~page.quiet]_vars
  <2>1. CASE UNCHANGED vars
    BY <1>2, <2>1 DEF vars, PageInv, Exists
  <2>2. ASSUME NEW a \in Admins,
               InstallStep(a) \/ SetStep(a) \/ DeleteStep(a) \/ RemoveStep(a)
        PROVE  PageInv' /\ (page.step # "idle" => page'.answer = "none")
    <3>1. PageInv'
      BY <1>2, <2>2, AdminKeepsPage
    <3>2. page'.answer = page.answer
      BY <1>2, <2>2, AdminPage DEF Disturbed, BasicInv, TypeOK
    <3> QED
      BY <1>2, <3>1, <3>2 DEF PageInv
  <2>3. CASE PageRequestStep
    BY <1>2, <2>3, RequestKeepsPage
  <2>4. CASE Crash
    BY <2>4 DEF Crash, NoPage, PageInv
  <2> QED
    BY <1>2, <2>1, <2>2, <2>3, <2>4 DEF Next
<1>3. Spec => [](BasicInv /\ PageInv)
  BY <1>1, <1>2, TypeStep, PTL DEF Spec
<1> QED
  BY <1>2, <1>3, PTL DEF Spec, FrontPageFound

-----------------------------------------------------------------------------
(* Requests that meet *)

\* Only request a moves: it goes on under its name, or ends.
Moves(a) ==
  /\ \A b \in Admins \ {a} : op'[b] = op[b]
  /\ \/ /\ op'[a].kind = op[a].kind
        /\ op'[a].name = op[a].name
        /\ met' = met
     \/ /\ op'[a].kind = "none"
        /\ met' = met \ {a}

LEMMA StepMoves ==
  ASSUME BasicInv, NEW a \in Admins, NEW step \in Steps, Step(a, step)
  PROVE  Moves(a) /\ op'[a].step = step /\ op'[a].kind = op[a].kind
  BY DEF BasicInv, TypeOK, Step, Moves

LEMMA FinishMoves ==
  ASSUME BasicInv, NEW a \in Admins, Finish(a)
  PROVE  /\ Moves(a) /\ op'[a] = Idle
         /\ op'[a].kind = "none" /\ op'[a].step = "idle"
  BY DEF BasicInv, TypeOK, Finish, Moves, Idle, Request

LEMMA MeetMoves ==
  ASSUME BasicInv, MeetInv, NEW a \in Admins, Moves(a), exposed \subseteq exposed'
  PROVE  MeetInv'
<1> USE DEF MeetInv, Moves
<1>1. met \subseteq Admins /\ met' \subseteq met
  BY DEF BasicInv, TypeOK
<1>2. ~Meet("none", "none") /\ \A k \in {op[b].kind : b \in Admins} :
        ~Meet("none", k) /\ ~Meet(k, "none")
  BY DEF Meet
<1>3. ASSUME NEW b \in Admins, NEW c \in Admins, b # c,
             op'[b].name = op'[c].name, Meet(op'[b].kind, op'[c].kind)
      PROVE  b \in met'
  BY <1>2, <1>3
<1>4. \A b \in met' : op'[b].kind # "none"
  BY <1>1
<1>5. \A b \in met' : op'[b].kind \in {"install", "delete"}
                      => op'[b].name \in exposed'
  BY <1>1
<1> QED
  BY <1>3, <1>4, <1>5

LEMMA MeetBegins ==
  ASSUME BasicInv, MeetInv, NEW a \in Admins, NEW r, Begin(a, r),
         r.kind # "none", Exposing(r) \subseteq exposed'
  PROVE  MeetInv'
<1> USE DEF MeetInv
<1>1. /\ op'[a] = r /\ op[a].kind = "none"
      /\ \A b \in Admins \ {a} : op'[b] = op[b]
      /\ met \subseteq Admins /\ a \notin met
  BY DEF BasicInv, TypeOK, Begin, Idle, Request
<1>2. \A k, l : Meet(k, l) => Meet(l, k) /\ k # "none"
  BY DEF Meet
<1>3. CASE Rivals(r) = {}
  <2>1. met' = met /\ exposed \subseteq exposed'
    BY <1>3 DEF Begin, Exposing
  <2>2. ASSUME NEW b \in Admins, b # a, op[b].name = r.name
        PROVE  ~Meet(op[b].kind, r.kind)
    BY <1>3, <2>2 DEF Rivals
  <2> QED
    BY <1>1, <1>2, <2>1, <2>2
<1>4. CASE Rivals(r) # {}
  <2>1. /\ met' = met \cup Rivals(r) \cup {a}
        /\ exposed \cup {r.name} \subseteq exposed'
    BY <1>4 DEF Begin, Exposing
  <2>2. \A b \in Rivals(r) : /\ b \in Admins /\ b # a /\ op[b].name = r.name
                             /\ op[b].kind # "none"
    BY <1>1, <1>2 DEF Rivals
  <2>3. \A b \in Admins : op[b].name = r.name /\ Meet(op[b].kind, r.kind)
                          => b \in Rivals(r)
    BY DEF Rivals
  <2>4. ASSUME NEW b \in Admins, NEW c \in Admins, b # c,
               op'[b].name = op'[c].name, Meet(op'[b].kind, op'[c].kind)
        PROVE  b \in met'
    <3>1. CASE b = a
      BY <2>1, <3>1
    <3>2. CASE b # a /\ c = a
      BY <1>1, <2>1, <2>3, <2>4, <3>2
    <3>3. CASE b # a /\ c # a
      BY <1>1, <2>1, <2>4, <3>3
    <3> QED
      BY <3>1, <3>2, <3>3
  <2>5. ASSUME NEW b \in met'
        PROVE  /\ op'[b].kind # "none"
               /\ op'[b].kind \in {"install", "delete"} => op'[b].name \in exposed'
    BY <1>1, <2>1, <2>2
  <2> QED
    BY <2>4, <2>5
<1> QED
  BY <1>3, <1>4

\* An install that met nobody may clear its theme when it ends: nobody who
\* counts on the exposure is left.
LEMMA MeetEnds ==
  ASSUME BasicInv, MeetInv, NEW a \in Admins, Finish(a),
         op[a].kind = "install", a \notin met, exposed' = exposed \ {op[a].name}
  PROVE  MeetInv'
<1>1. Moves(a) /\ op'[a].kind = "none" /\ met \subseteq Admins /\ met' \subseteq met
  BY FinishMoves DEF BasicInv, TypeOK, Finish
<1>2. \A b, c \in Admins :
        b # c /\ op'[b].name = op'[c].name /\ Meet(op'[b].kind, op'[c].kind)
          => b \in met'
  BY <1>1 DEF Moves, MeetInv, Meet
<1>3. ASSUME NEW b \in met', op'[b].kind \in {"install", "delete"}
      PROVE  op'[b].name \in exposed'
  <2>1. b \in Admins /\ b # a /\ op'[b] = op[b] /\ b \in met
    BY <1>1, <1>3 DEF Moves, Finish
  <2>2. op[b].name # op[a].name
    BY <1>3, <2>1 DEF MeetInv, Meet
  <2> QED
    BY <1>3, <2>1, <2>2 DEF MeetInv
<1> QED
  BY <1>1, <1>2, <1>3 DEF MeetInv, Moves

-----------------------------------------------------------------------------
(* What an install that met nobody leaves on disk *)

\* filepath.Walk visits each entry of the package once, the manifest last.
LEMMA WalkOrder ==
  ASSUME NEW p \in Packages
  PROVE  /\ \A i, j \in 1..Len(Walk(p)) : Walk(p)[i] = Walk(p)[j] => i = j
         /\ \A i \in 1..Len(Walk(p)) : Walk(p)[i] \in p
         /\ \A e \in p : \E i \in 1..Len(Walk(p)) : Walk(p)[i] = e
         /\ {"root", "dist", "index", "manifest"} \subseteq p
         /\ p \subseteq Entries
  BY DEF Walk, Packages, Entries

LEMMA WholeKept ==
  ASSUME BasicInv, NEW n \in Names, Whole(n), disk'[n] = disk[n],
         \A v \in 1..Len(packages) : packages'[v] = packages[v]
  PROVE  Whole(n)'
<1>1. disk[n]["manifest"] \in 1..Len(packages)
  BY DEF BasicInv, TypeOK, Entries, Whole, Absent, Truncated
<1> QED
  BY <1>1 DEF Whole, Exists

LEMMA FolderCopied ==
  ASSUME BasicInv, NEW a \in Admins, CopyFolder(a), Copied(a)
  PROVE  /\ Copied(a)'
         /\ disk'[op[a].name]["manifest"] = Absent
<1> DEFINE m == op[a].name
           v == op[a].package
           w == Walk(packages[v])
           k == op[a].at
<1>1. /\ m \in Names /\ v \in 1..Len(packages) /\ packages[v] \in Packages
      /\ k \in 1..Len(w) /\ op[a].step = "copy" /\ w[k] \in Folders
  BY AtWork DEF CopyFolder, Visiting
<1>2. /\ Len(w) \in Nat /\ w[1] = "root" /\ w[Len(w)] = "manifest"
      /\ \A i \in 1..Len(w) : w[i] \in Entries
      /\ \A i, j \in 1..Len(w) : w[i] = w[j] => i = j
  <2>1. /\ Len(w) \in Nat /\ w[1] = "root" /\ w[Len(w)] = "manifest"
        /\ \A i \in 1..Len(w) : w[i] \in Entries
    BY <1>1, WalkFacts
  <2>2. \A i, j \in 1..Len(w) : w[i] = w[j] => i = j
    BY <1>1, WalkOrder
  <2> QED
    BY <2>1, <2>2
<1>3. k < Len(w) /\ v # Absent /\ v \in Nat
  BY <1>1, <1>2 DEF Folders, Absent
<1>4. op'[a] = [op[a] EXCEPT !.at = @ + 1, !.step = "copy"]
  BY <1>3 DEF CopyFolder, Visited, BasicInv, TypeOK
<1>5. op'[a].name = m /\ op'[a].package = v /\ op'[a].at = k + 1
      /\ op'[a].step = "copy" /\ packages' = packages
  BY <1>4 DEF BasicInv, TypeOK, CopyFolder
<1>6. \A e \in Entries : disk'[m][e] =
        IF e \in {"root", w[k]} /\ disk[m][e] = Absent THEN v ELSE disk[m][e]
  BY <1>1 DEF CopyFolder, Visiting, Exists, BasicInv, TypeOK
<1>7. \A e \in Entries : disk[m][e] =
        IF \E i \in 1..(k - 1) : w[i] = e THEN v ELSE Absent
  BY <1>1 DEF Copied
<1>8. \A e \in Entries : disk'[m][e] =
        IF \E i \in 1..k : w[i] = e THEN v ELSE Absent
  <2> TAKE e \in Entries
  <2>1. (\E i \in 1..k : w[i] = e) <=> (\E i \in 1..(k - 1) : w[i] = e) \/ e = w[k]
    BY <1>1, <1>2
  <2>2. e = "root" => e = w[k] \/ \E i \in 1..(k - 1) : w[i] = e
    BY <1>1, <1>2
  <2>3. e = w[k] => ~\E i \in 1..(k - 1) : w[i] = e
    BY <1>1, <1>2
  <2> QED
    BY <1>3, <1>6, <1>7, <2>1, <2>2, <2>3
<1>9. Copied(a)'
  BY <1>5, <1>8, <1>1 DEF Copied
<1>10. disk'[m]["manifest"] = Absent
  <2>1. ~\E i \in 1..k : w[i] = "manifest"
    <3>1. \A i \in 1..k : i \in 1..Len(w) /\ i # Len(w)
      BY <1>1, <1>2, <1>3
    <3>2. Len(w) \in 1..Len(w)
      BY <1>1, <1>2
    <3> QED
      BY <1>2, <3>1, <3>2
  <2> QED
    BY <1>8, <2>1 DEF Entries
<1> QED
  BY <1>9, <1>10

LEMMA OpenCopied ==
  ASSUME BasicInv, NEW a \in Admins, CopyOpen(a), Copied(a)
  PROVE  /\ Copied(a)'
         /\ disk'[op[a].name]["manifest"] \in {Absent, Truncated}
<1> DEFINE m == op[a].name
           v == op[a].package
           w == Walk(packages[v])
           k == op[a].at
<1>1. /\ m \in Names /\ v \in 1..Len(packages) /\ packages[v] \in Packages
      /\ k \in 1..Len(w) /\ op[a].step = "copy" /\ w[k] \in Files
  BY AtWork DEF CopyOpen, Visiting
<1>2. /\ Len(w) \in Nat /\ w[Len(w)] = "manifest"
      /\ \A i, j \in 1..Len(w) : w[i] = w[j] => i = j
  <2>1. Len(w) \in Nat /\ w[Len(w)] = "manifest"
    BY <1>1, WalkFacts
  <2>2. \A i, j \in 1..Len(w) : w[i] = w[j] => i = j
    BY <1>1, WalkOrder
  <2> QED
    BY <2>1, <2>2
<1>3. op'[a] = [op[a] EXCEPT !.step = "write"]
  BY DEF CopyOpen, Step, BasicInv, TypeOK
<1>4. op'[a].name = m /\ op'[a].package = v /\ op'[a].at = k
      /\ op'[a].step = "write" /\ packages' = packages
  BY <1>3 DEF BasicInv, TypeOK, CopyOpen
<1>5. \A e \in Entries : disk'[m][e] =
        IF e = w[k] THEN Truncated ELSE disk[m][e]
  BY <1>1 DEF CopyOpen, Visiting, BasicInv, TypeOK
<1>6. \A e \in Entries : disk[m][e] =
        IF \E i \in 1..(k - 1) : w[i] = e THEN v ELSE Absent
  BY <1>1 DEF Copied
<1>7. ~\E i \in 1..(k - 1) : w[i] = w[k]
  BY <1>1, <1>2
<1>8. Copied(a)'
  <2>1. \A e \in Entries : disk'[m][e] =
          IF \E i \in 1..(k - 1) : w[i] = e THEN v
          ELSE IF e = w[k] THEN Truncated ELSE Absent
    BY <1>5, <1>6, <1>7
  <2> QED
    BY <1>4, <2>1 DEF Copied
<1>9. ~\E i \in 1..(k - 1) : w[i] = "manifest"
  BY <1>1, <1>2
<1> QED
  BY <1>5, <1>6, <1>8, <1>9 DEF Entries

\* The write that completes an entry: it is the last, or the copying goes on.
LEMMA WriteCopied ==
  ASSUME BasicInv, NEW a \in Admins, CopyWrite(a), Copied(a), a \notin met,
         NEW m \in Names, m = op[a].name
  PROVE  \/ /\ Finish(a)
            /\ exposed' = exposed \ {m}
            /\ torn' = torn
            /\ Whole(m)'
         \/ /\ op'[a].step = "copy" /\ Copied(a)'
            /\ UNCHANGED <<history, met>>
            /\ disk'[m]["manifest"] = Absent
<1> DEFINE v == op[a].package
           w == Walk(packages[v])
           k == op[a].at
<1>1. /\ v \in 1..Len(packages) /\ packages[v] \in Packages
      /\ k \in 1..Len(w) /\ op[a].step = "write" /\ w[k] \in Files
  BY AtWork DEF CopyWrite, Visiting
<1>2. /\ Len(w) \in Nat /\ w[Len(w)] = "manifest"
      /\ \A i, j \in 1..Len(w) : w[i] = w[j] => i = j
  <2>1. Len(w) \in Nat /\ w[Len(w)] = "manifest"
    BY <1>1, WalkFacts
  <2>2. \A i, j \in 1..Len(w) : w[i] = w[j] => i = j
    BY <1>1, WalkOrder
  <2> QED
    BY <2>1, <2>2
<1>3. \A e \in Entries : disk'[m][e] = IF e = w[k] THEN v ELSE disk[m][e]
  BY <1>1 DEF CopyWrite, Visiting, BasicInv, TypeOK
<1>4. \A e \in Entries : disk[m][e] =
        IF \E i \in 1..(k - 1) : w[i] = e THEN v
        ELSE IF e = w[k] THEN Truncated ELSE Absent
  BY <1>1 DEF Copied
<1>5. \A e \in Entries : disk'[m][e] =
        IF \E i \in 1..k : w[i] = e THEN v ELSE Absent
  <2> TAKE e \in Entries
  <2>1. (\E i \in 1..k : w[i] = e) <=> (\E i \in 1..(k - 1) : w[i] = e) \/ e = w[k]
    BY <1>1, <1>2
  <2> QED
    BY <1>3, <1>4, <2>1
<1>6. CASE k < Len(w)
  <2>1. op'[a] = [op[a] EXCEPT !.at = @ + 1, !.step = "copy"]
    BY <1>6 DEF CopyWrite, Visited, BasicInv, TypeOK
  <2>2. op'[a].name = m /\ op'[a].package = v /\ op'[a].at = k + 1
        /\ op'[a].step = "copy" /\ packages' = packages
    BY <2>1 DEF BasicInv, TypeOK, CopyWrite
  <2>3. Copied(a)'
    BY <1>1, <1>5, <2>2 DEF Copied
  <2>4. disk'[m]["manifest"] = Absent
    <3>1. ~\E i \in 1..k : w[i] = "manifest"
      <4>1. \A i \in 1..k : i \in 1..Len(w) /\ i # Len(w)
        BY <1>1, <1>2, <1>6
      <4>2. Len(w) \in 1..Len(w)
        BY <1>1, <1>2
      <4> QED
        BY <1>2, <4>1, <4>2
    <3> QED
      BY <1>5, <3>1 DEF Entries
  <2>5. UNCHANGED <<history, met>>
    BY <1>6 DEF CopyWrite, Visited
  <2> QED
    BY <2>2, <2>3, <2>4, <2>5
<1>7. CASE ~(k < Len(w))
  <2>1. k = Len(w)
    BY <1>1, <1>2, <1>7
  <2>2. /\ Finish(a)
        /\ exposed' = exposed \ {m} /\ torn' = torn
    BY <1>7 DEF CopyWrite, Visited
  <2>3. \A e \in Entries : disk'[m][e] = IF e \in packages[v] THEN v ELSE Absent
    <3>1. \A e \in Entries : (\E i \in 1..Len(w) : w[i] = e) <=> e \in packages[v]
      BY <1>1, WalkOrder
    <3> QED
      BY <1>5, <2>1, <3>1
  <2>4. packages' = packages
    BY DEF CopyWrite
  <2>5. /\ {"root", "dist", "manifest"} \subseteq packages[v]
        /\ v \in Nat /\ v > 0
    BY <1>1, WalkOrder
  <2>6. disk'[m]["manifest"] = v
    BY <2>3, <2>5 DEF Entries
  <2>7. \A e \in Folders : disk'[m][e] # Absent
    BY <2>3, <2>5 DEF Entries, Folders, Absent
  <2>8. \A e \in Files :
          disk'[m][e] = IF e \in packages'[v] THEN v ELSE Absent
    BY <2>3, <2>4 DEF Files
  <2>9. v > Absent
    BY <2>5 DEF Absent
  <2>10. Whole(m)'
    BY <2>6, <2>7, <2>8, <2>9 DEF Whole, Exists
  <2> QED
    BY <2>2, <2>10
<1> QED
  BY <1>6, <1>7

-----------------------------------------------------------------------------
(* Steps that leave the disk as it is *)

LEMMA StillInv ==
  ASSUME ThemesInv, UNCHANGED disk,
         \A v \in 1..Len(packages) : packages'[v] = packages[v],
         torn \subseteq torn', exposed \subseteq exposed',
         \A b \in Admins : op'[b].step \in {"copy", "write"} =>
           op'[b] = op[b] /\ (b \in met => b \in met')
  PROVE  CopyInv' /\ ListInv'
<1> USE DEF ThemesInv
<1>1. \A n \in Names : Whole(n) => Whole(n)'
  BY WholeKept
<1>2. CopyInv'
  <2>1. ASSUME NEW b \in Admins, op'[b].step \in {"copy", "write"}, b \notin met'
        PROVE  Copied(b)'
    <3>1. op'[b] = op[b] /\ b \notin met
      BY <2>1
    <3>2. op[b].package \in 1..Len(packages)
      BY <2>1, <3>1, AtWork
    <3>3. Copied(b) => Copied(b)'
      BY <3>1, <3>2 DEF Copied
    <3> QED
      BY <2>1, <3>1, <3>3 DEF CopyInv
  <2> QED
    BY <2>1 DEF CopyInv
<1>3. ListInv'
  BY <1>1 DEF ListInv
<1> QED
  BY <1>2, <1>3

\* Requests that end or go on without a change to the disk
LEMMA MoveInv ==
  ASSUME ThemesInv, NEW a \in Admins, Moves(a),
         UNCHANGED <<disk, packages, history>>,
         op'[a].step \notin {"copy", "write"}
  PROVE  MeetInv' /\ CopyInv' /\ ListInv'
<1> USE DEF ThemesInv, history
<1>1. MeetInv'
  BY MeetMoves
<1>2. \A b \in Admins : op'[b].step \in {"copy", "write"} =>
        op'[b] = op[b] /\ (b \in met => b \in met')
  BY DEF Moves
<1> QED
  BY <1>1, <1>2, StillInv

\* Requests that begin
LEMMA BeginInv ==
  ASSUME ThemesInv, NEW a \in Admins, NEW r, Begin(a, r), r.kind # "none",
         UNCHANGED <<disk, torn>>,
         \A v \in 1..Len(packages) : packages'[v] = packages[v],
         Exposing(r) \subseteq exposed',
         r.step \notin {"copy", "write"}
  PROVE  MeetInv' /\ CopyInv' /\ ListInv'
<1> USE DEF ThemesInv
<1>1. MeetInv'
  BY MeetBegins
<1>2. /\ op'[a] = r /\ \A b \in Admins \ {a} : op'[b] = op[b]
      /\ met \subseteq met' /\ exposed \subseteq exposed'
  BY DEF Begin, Exposing, BasicInv, TypeOK
<1> QED
  BY <1>1, <1>2, StillInv

-----------------------------------------------------------------------------
(* Steps of an install or a delete on its theme's directory *)

\* A step of request a that is confined to its own theme n
Confined(a, n) ==
  /\ n = op[a].name
  /\ op[a].kind \in {"install", "delete"}
  /\ Moves(a)
  /\ UNCHANGED packages
  /\ \A m \in Names \ {n} : disk'[m] = disk[m]
  /\ torn \ {n} \subseteq torn'
  /\ exposed \ {n} \subseteq exposed'
  /\ \/ exposed \subseteq exposed'
     \/ op[a].kind = "install" /\ a \notin met

\* What is left to show of such a step concerns that theme alone.
LEMMA DiskStep ==
  ASSUME ThemesInv, NEW a \in Admins, NEW n \in Names, Confined(a, n),
         op'[a].step \in {"copy", "write"} /\ a \notin met' => Copied(a)',
         n \notin torn' \cup exposed' /\ disk'[n]["manifest"] > Absent => Whole(n)'
  PROVE  CopyInv' /\ ListInv'
<1> USE DEF ThemesInv, Confined
<1>1. \A m \in Names \ {n} : Whole(m) => Whole(m)'
  BY WholeKept
<1>2. /\ \A b \in Admins \ {a} : op'[b] = op[b]
      /\ met \ {a} \subseteq met'
  BY DEF Moves
<1>3. ASSUME NEW b \in Admins, b # a, op[b].step \in {"copy", "write"},
             b \notin met'
      PROVE  Copied(b)'
  <2>1. /\ op'[b] = op[b] /\ b \notin met
        /\ op[b].name \in Names /\ op[b].kind = "install"
        /\ op[b].package \in 1..Len(packages)
        /\ Copied(b)
    BY <1>2, <1>3, AtWork DEF CopyInv
  <2>2. op[b].name # n
    BY <1>3, <2>1 DEF MeetInv, Meet
  <2>3. disk'[op[b].name] = disk[op[b].name]
    BY <2>1, <2>2
  <2> QED
    BY <2>1, <2>3 DEF Copied
<1>4. CopyInv'
  BY <1>2, <1>3 DEF CopyInv
<1>5. ListInv'
  BY <1>1 DEF ListInv
<1> QED
  BY <1>4, <1>5

\* The invariant but for the types
Others == MeetInv /\ CopyInv /\ ListInv

LEMMA RemoveInv ==
  ASSUME ThemesInv, NEW a \in Admins, RemoveEntry(a) \/ Removed(a)
  PROVE  Others'
<1> USE DEF ThemesInv
<1>1. /\ op[a].step = "remove" /\ op[a] \in OpType(Len(packages))
      /\ RequestOK(op[a])
  BY DEF RemoveEntry, Removed, BasicInv, TypeOK, RequestsOK, OpType
<1>2. /\ op[a].name \in Names /\ op[a].kind \in {"install", "delete"}
      /\ op[a].kind = "install" => op[a].at = 1
  BY <1>1 DEF RequestOK, Idle, Request
<1> DEFINE n == op[a].name
<1>3. PICK m \in Names : m = n
  BY <1>2
<1>4. CASE RemoveEntry(a)
  <2>1. /\ Moves(a) /\ op'[a].step = "remove" /\ torn' = torn \cup {m}
        /\ UNCHANGED <<packages, exposed, met>>
        /\ \A k \in Names \ {m} : disk'[k] = disk[k]
    BY <1>1, <1>3, <1>4 DEF RemoveEntry, Moves, BasicInv, TypeOK
  <2>2. MeetInv'
    BY <2>1, MeetMoves
  <2>3. Confined(a, m)
    BY <1>2, <1>3, <2>1, <2>2 DEF Confined
  <2> QED
    BY <1>2, <1>3, <2>1, <2>2, <2>3, DiskStep DEF Others
<1>5. CASE Removed(a)
  <2>1. /\ UNCHANGED <<disk, packages, exposed>>
        /\ torn' = torn \ {m} /\ disk[m] = Nothing
    BY <1>3, <1>5 DEF Removed
  <2>2. disk[m]["manifest"] = Absent /\ \A e \in Entries : disk[m][e] = Absent
    BY <2>1 DEF Nothing, Entries
  <2>3. CASE op[a].kind = "install"
    <3>1. Step(a, "copy")
      BY <1>5, <2>3 DEF Removed
    <3>2. Moves(a)
      BY <3>1, StepMoves DEF Steps
    <3>3. MeetInv'
      BY <2>1, <3>2, MeetMoves
    <3>4. /\ op'[a].name = m /\ op'[a].step = "copy" /\ op'[a].at = 1
          /\ op'[a].package = op[a].package
      BY <1>1, <1>2, <1>3, <2>3, <3>1 DEF Step, BasicInv, TypeOK
    <3>5. Copied(a)'
      BY <1>3, <2>1, <2>2, <3>4 DEF Copied, Absent
    <3>6. Confined(a, m)
      BY <1>2, <1>3, <2>1, <2>2, <3>1, <3>2, <3>3, <3>4, <3>5 DEF Confined
    <3> QED
      BY <1>2, <1>3, <2>1, <2>2, <3>1, <3>2, <3>3, <3>4, <3>5, <3>6, DiskStep
         DEF Absent, Others
  <2>4. CASE op[a].kind # "install"
    <3>1. Finish(a)
      BY <1>5, <2>4 DEF Removed
    <3>2. Moves(a) /\ op'[a].step = "idle"
      BY <3>1, FinishMoves
    <3>3. MeetInv'
      BY <2>1, <3>2, MeetMoves
    <3>4. Confined(a, m)
      BY <1>2, <1>3, <2>1, <2>2, <3>1, <3>2, <3>3 DEF Confined
    <3> QED
      BY <1>2, <1>3, <2>1, <2>2, <3>1, <3>2, <3>3, <3>4, DiskStep DEF Absent, Others
  <2> QED
    BY <2>3, <2>4
<1> QED
  BY <1>4, <1>5

LEMMA CopyStepInv ==
  ASSUME ThemesInv, NEW a \in Admins, CopyFolder(a) \/ CopyOpen(a) \/ CopyWrite(a)
  PROVE  Others'
<1> USE DEF ThemesInv
<1>1. /\ op[a].step \in {"copy", "write"} /\ op[a].kind = "install"
      /\ op[a].name \in Names /\ op[a] \in OpType(Len(packages))
      /\ packages[op[a].package] \in Packages
      /\ op[a].at \in 1..Len(Walk(packages[op[a].package]))
  BY AtWork DEF CopyFolder, CopyOpen, CopyWrite, BasicInv, TypeOK, OpType
<1> DEFINE w == Walk(packages[op[a].package])
<1>2. Len(w) \in Nat /\ w[Len(w)] = "manifest"
  BY <1>1, WalkFacts
<1>3. PICK m \in Names : m = op[a].name
  BY <1>1
<1>4. /\ UNCHANGED packages
      /\ \A k \in Names \ {m} : disk'[k] = disk[k]
  BY <1>3 DEF CopyFolder, CopyOpen, CopyWrite, BasicInv, TypeOK
<1>5. /\ a \notin met => Copied(a)
      /\ a \in met => m \in exposed
  BY <1>1, <1>3 DEF CopyInv, MeetInv
<1>6. ASSUME op[a].at < Len(w), Visited(a)
      PROVE  /\ Moves(a) /\ UNCHANGED <<history, met>>
             /\ op'[a].name = m
  <2>1. op' = [op EXCEPT ![a] = [op[a] EXCEPT !.at = @ + 1, !.step = "copy"]]
    BY <1>6 DEF Visited, BasicInv, TypeOK
  <2>2. op'[a] = [op[a] EXCEPT !.at = @ + 1, !.step = "copy"]
        /\ \A b \in Admins \ {a} : op'[b] = op[b]
    BY <2>1 DEF BasicInv, TypeOK
  <2>3. op'[a].kind = op[a].kind /\ op'[a].name = op[a].name
    BY <1>1, <2>2 DEF OpType
  <2> QED
    BY <1>3, <1>6, <2>2, <2>3 DEF Visited, Moves
<1>7. CASE CopyFolder(a)
  <2>1. op[a].at < Len(w) /\ Visited(a)
    BY <1>1, <1>2, <1>7 DEF CopyFolder, Visiting, Folders
  <2>2. Moves(a) /\ UNCHANGED <<history, met>> /\ op'[a].name = m
    BY <1>6, <2>1
  <2>3. MeetInv'
    BY <2>2, MeetMoves DEF history
  <2>4. a \notin met => Copied(a)' /\ disk'[m]["manifest"] = Absent
    BY <1>3, <1>5, <1>7, FolderCopied
  <2>5. Confined(a, m)
    BY <1>1, <1>3, <1>4, <1>5, <2>2, <2>3, <2>4 DEF Confined, history
  <2> QED
    BY <1>1, <1>3, <1>4, <1>5, <2>2, <2>3, <2>4, <2>5, DiskStep
       DEF history, Absent, Others
<1>8. CASE CopyOpen(a)
  <2>1. Moves(a) /\ UNCHANGED <<history, met>> /\ op'[a].name = m
    <3>1. Step(a, "write") /\ UNCHANGED <<history, met>>
      BY <1>8 DEF CopyOpen, Step
    <3>2. Moves(a)
      BY <3>1, StepMoves DEF Steps
    <3>3. op'[a].name = op[a].name
      BY <1>1, <3>1 DEF Step, BasicInv, TypeOK, OpType
    <3> QED
      BY <1>3, <3>1, <3>2, <3>3
  <2>2. MeetInv'
    BY <2>1, MeetMoves DEF history
  <2>3. a \notin met => Copied(a)' /\ disk'[m]["manifest"] \in {Absent, Truncated}
    BY <1>3, <1>5, <1>8, OpenCopied
  <2>4. Confined(a, m)
    BY <1>1, <1>3, <1>4, <1>5, <2>1, <2>2, <2>3 DEF Confined, history
  <2> QED
    BY <1>1, <1>3, <1>4, <1>5, <2>1, <2>2, <2>3, <2>4, DiskStep
       DEF history, Absent, Truncated, Others
<1>9. CASE CopyWrite(a) /\ a \in met
  <2>1. CASE op[a].at < Len(w)
    <3>1. Moves(a) /\ UNCHANGED <<history, met>> /\ op'[a].name = m
      BY <1>6, <1>9, <2>1 DEF CopyWrite
    <3>2. MeetInv'
      BY <3>1, MeetMoves DEF history
    <3>3. Confined(a, m)
      BY <1>1, <1>3, <1>4, <1>5, <1>9, <3>1, <3>2 DEF Confined, history
    <3> QED
      BY <1>1, <1>3, <1>4, <1>5, <1>9, <3>1, <3>2, <3>3, DiskStep DEF history, Others
  <2>2. CASE ~(op[a].at < Len(w))
    <3>1. Finish(a) /\ exposed' = exposed /\ torn' = torn
      BY <1>3, <1>9, <2>2 DEF CopyWrite, Visited
    <3>2. Moves(a) /\ op'[a].step = "idle"
      BY <3>1, FinishMoves
    <3>3. MeetInv'
      BY <3>1, <3>2, MeetMoves
    <3>4. Confined(a, m)
      BY <1>1, <1>3, <1>4, <1>5, <1>9, <3>1, <3>2, <3>3 DEF Confined
    <3> QED
      BY <1>1, <1>3, <1>4, <1>5, <1>9, <3>1, <3>2, <3>3, <3>4, DiskStep DEF Others
  <2> QED
    BY <2>1, <2>2
<1>10. CASE CopyWrite(a) /\ a \notin met
  <2>1. CASE /\ Finish(a)
             /\ exposed' = exposed \ {m} /\ torn' = torn /\ Whole(m)'
    <3>1. Moves(a) /\ op'[a].step = "idle"
      BY <2>1, FinishMoves
    <3>2. MeetInv'
      BY <1>1, <1>3, <1>10, <2>1, MeetEnds
    <3>3. Confined(a, m)
      BY <1>1, <1>3, <1>4, <1>10, <2>1, <3>1, <3>2 DEF Confined
    <3> QED
      BY <1>1, <1>3, <1>4, <1>10, <2>1, <3>1, <3>2, <3>3, DiskStep DEF Others
  <2>2. CASE /\ op'[a].step = "copy" /\ Copied(a)'
             /\ UNCHANGED <<history, met>>
             /\ disk'[m]["manifest"] = Absent
    <3>1. op[a].at < Len(w)
      <4>1. ~Finish(a)
        BY <2>2, FinishMoves
      <4> QED
        BY <1>10, <4>1 DEF CopyWrite, Visited
    <3>2. Moves(a) /\ op'[a].name = m
      BY <1>6, <1>10, <3>1 DEF CopyWrite
    <3>3. MeetInv'
      BY <2>2, <3>2, MeetMoves DEF history
    <3>4. Confined(a, m)
      BY <1>1, <1>3, <1>4, <1>5, <2>2, <3>2, <3>3 DEF Confined, history
    <3> QED
      BY <1>1, <1>3, <1>4, <1>5, <2>2, <3>2, <3>3, <3>4, DiskStep
         DEF history, Absent, Others
  <2> QED
    BY <1>3, <1>5, <1>10, <2>1, <2>2, WriteCopied
<1> QED
  BY <1>7, <1>8, <1>9, <1>10

-----------------------------------------------------------------------------
(* The invariant holds *)

LEMMA InstallInv ==
  ASSUME ThemesInv, NEW a \in Admins, InstallStep(a) PROVE Others'
<1>1. ASSUME NEW n \in Names, Upload(a, n) PROVE Others'
  <2> DEFINE r == Request("install", n, "remove", Len(packages) + 1)
  <2>1. /\ Begin(a, r) /\ UNCHANGED <<disk, torn>>
        /\ exposed' = Exposing(r)
    BY <1>1 DEF Upload
  <2>2. PICK p \in Packages : packages' = Append(packages, p)
    BY <1>1 DEF Upload
  <2>3. \A v \in 1..Len(packages) : packages'[v] = packages[v]
    BY <2>2, MorePackages DEF ThemesInv, BasicInv, TypeOK
  <2>4. r.kind = "install" /\ r.step = "remove"
    BY DEF Request
  <2> QED
    BY <2>1, <2>3, <2>4, BeginInv DEF Others
<1>2. CASE CopyFails(a)
  <2>1. Finish(a) /\ UNCHANGED <<disk, packages, history>>
    BY <1>2 DEF CopyFails
  <2> QED
    BY <2>1, FinishMoves, MoveInv DEF Others, ThemesInv
<1> QED
  BY <1>1, <1>2, CopyStepInv DEF InstallStep

LEMMA SetInv ==
  ASSUME ThemesInv, NEW a \in Admins, SetStep(a) PROVE Others'
<1> USE DEF Others
<1>0. BasicInv
  BY DEF ThemesInv
<1>1. CASE SetBuiltin(a)
  <2> DEFINE r == Request("set", Builtin, "save", 0)
  <2>1. Begin(a, r) /\ UNCHANGED <<disk, packages, torn, exposed>>
    BY <1>1 DEF SetBuiltin, history
  <2>2. r.kind = "set" /\ r.step = "save"
    BY DEF Request
  <2>3. Rivals(r) = {}
    BY <2>2 DEF Rivals, Meet
  <2> QED
    BY <2>1, <2>2, <2>3, BeginInv DEF Exposing
<1>2. ASSUME NEW n \in Names, SetTheme(a, n) PROVE Others'
  <2> DEFINE r == Request("set", n, "manifest", 0)
  <2>1. Begin(a, r) /\ UNCHANGED <<disk, packages, torn, exposed>>
    BY <1>2 DEF SetTheme, history
  <2>2. r.kind = "set" /\ r.step = "manifest"
    BY DEF Request
  <2>3. Rivals(r) = {}
    BY <2>2 DEF Rivals, Meet
  <2> QED
    BY <2>1, <2>2, <2>3, BeginInv DEF Exposing
<1>3. CASE ReadManifest(a)
  <2>1. UNCHANGED <<disk, packages, history>>
    BY <1>3 DEF ReadManifest
  <2>2. \/ disk[op[a].name]["manifest"] > Absent /\ Step(a, "index")
        \/ Finish(a)
    BY <1>3 DEF ReadManifest
  <2>3. CASE disk[op[a].name]["manifest"] > Absent /\ Step(a, "index")
    BY <1>0, <2>1, <2>3, StepMoves, MoveInv DEF Steps
  <2>4. CASE Finish(a)
    BY <1>0, <2>1, <2>4, FinishMoves, MoveInv
  <2> QED
    BY <2>2, <2>3, <2>4
<1>4. CASE StatIndex(a)
  <2>1. UNCHANGED <<disk, packages, history>> /\ op[a].step = "index"
    BY <1>4 DEF StatIndex
  <2>2. Step(a, "save") \/ Finish(a)
    BY <1>4 DEF StatIndex
  <2>3. CASE Step(a, "save")
    BY <1>0, <2>1, <2>3, StepMoves, MoveInv DEF Steps
  <2>4. CASE Finish(a)
    BY <1>0, <2>1, <2>4, FinishMoves, MoveInv
  <2> QED
    BY <2>2, <2>3, <2>4
<1>5. CASE SaveActive(a)
  <2>1. UNCHANGED <<disk, packages, history>> /\ Finish(a)
    BY <1>5 DEF SaveActive
  <2> QED
    BY <1>0, <2>1, FinishMoves, MoveInv
<1> QED
  BY <1>1, <1>2, <1>3, <1>4, <1>5 DEF SetStep

LEMMA DeleteInv ==
  ASSUME ThemesInv, NEW a \in Admins, DeleteStep(a) PROVE Others'
<1> USE DEF Others
<1>0. BasicInv
  BY DEF ThemesInv
<1>1. ASSUME NEW n \in Names, Delete(a, n) PROVE Others'
  <2> DEFINE r == Request("delete", n, "stat", 0)
  <2>1. /\ Begin(a, r) /\ UNCHANGED <<disk, packages, torn>>
        /\ exposed' = Exposing(r)
    BY <1>1 DEF Delete
  <2>2. r.kind = "delete" /\ r.step = "stat"
    BY DEF Request
  <2> QED
    BY <2>1, <2>2, BeginInv
<1>2. CASE StatTheme(a)
  <2>1. UNCHANGED <<disk, packages, history>> /\ op[a].step = "stat"
    BY <1>2 DEF StatTheme
  <2>2. Step(a, "remove") \/ Finish(a)
    BY <1>2 DEF StatTheme
  <2>3. CASE Step(a, "remove")
    BY <1>0, <2>1, <2>3, StepMoves, MoveInv DEF Steps
  <2>4. CASE Finish(a)
    BY <1>0, <2>1, <2>4, FinishMoves, MoveInv
  <2> QED
    BY <2>2, <2>3, <2>4
<1> QED
  BY <1>1, <1>2 DEF DeleteStep

LEMMA InvInit == Init => ThemesInv
<1>1. ASSUME Init PROVE MeetInv /\ CopyInv /\ ListInv
  BY <1>1, ThemesAssumption
  DEF Init, MeetInv, CopyInv, ListInv, Nothing, Entries,
    Absent, Idle, Request, Meet
<1> QED
  BY <1>1, TypeInit DEF ThemesInv

LEMMA InvStep == ThemesInv /\ [Next]_vars => ThemesInv'
<1> SUFFICES ASSUME ThemesInv, [Next]_vars PROVE ThemesInv'
  OBVIOUS
<1>1. BasicInv'
  BY TypeStep DEF ThemesInv
<1>2. ASSUME UNCHANGED <<disk, packages, op, history, met>>
      PROVE  Others'
  BY <1>2 DEF ThemesInv, Others, history, MeetInv, CopyInv, Copied, ListInv,
    Whole, Exists
<1>3. CASE UNCHANGED vars
  BY <1>1, <1>2, <1>3 DEF vars, ThemesInv, Others
<1>4. ASSUME NEW a \in Admins, RemoveStep(a) PROVE Others'
  <2>1. CASE RemoveFails(a)
    <3>1. Finish(a) /\ UNCHANGED <<disk, packages, history>>
      BY <2>1 DEF RemoveFails
    <3> QED
      BY <3>1, FinishMoves, MoveInv DEF Others, ThemesInv
  <2> QED
    BY <1>4, <2>1, RemoveInv DEF RemoveStep
<1>5. ASSUME NEW a \in Admins,
             InstallStep(a) \/ SetStep(a) \/ DeleteStep(a) \/ RemoveStep(a)
      PROVE  Others'
  BY <1>4, <1>5, InstallInv, SetInv, DeleteInv
<1>6. CASE PageRequestStep
  <2>1. UNCHANGED <<disk, packages, op, history, met>>
    BY <1>6 DEF PageRequestStep, GetPage, StatDist, OpenFile, ServeFile,
      Fallback, ServeIndex
  <2> QED
    BY <1>1, <1>2, <2>1 DEF ThemesInv, Others
<1>7. CASE Crash
  <2>1. /\ UNCHANGED <<disk, packages, history>> /\ met' = {}
        /\ \A b \in Admins : op'[b].kind = "none" /\ op'[b].step = "idle"
    BY <1>7 DEF Crash, Idle, Request
  <2>2. MeetInv'
    BY <2>1 DEF MeetInv, Meet
  <2> QED
    BY <1>1, <2>1, <2>2, StillInv DEF ThemesInv, history
<1> QED
  BY <1>1, <1>3, <1>5, <1>6, <1>7 DEF Next, ThemesInv, Others

LEMMA Invariant == Spec => []ThemesInv
  BY InvInit, InvStep, PTL DEF Spec

\* While an install that met nobody has a file open, the manifest of its
\* package is not yet in place: it is the last file.
LEMMA ManifestLast ==
  ASSUME ThemesInv, NEW a \in Admins, op[a].step = "write", a \notin met
  PROVE  disk[op[a].name]["manifest"] # op[a].package
<1> DEFINE m == op[a].name
           v == op[a].package
           w == Walk(packages[v])
           k == op[a].at
<1>1. /\ m \in Names /\ v \in 1..Len(packages) /\ packages[v] \in Packages
      /\ k \in 1..Len(w) /\ Copied(a)
  BY AtWork DEF ThemesInv, CopyInv
<1>2. /\ Len(w) \in Nat /\ w[Len(w)] = "manifest"
      /\ \A i, j \in 1..Len(w) : w[i] = w[j] => i = j
  <2>1. Len(w) \in Nat /\ w[Len(w)] = "manifest"
    BY <1>1, WalkFacts
  <2>2. \A i, j \in 1..Len(w) : w[i] = w[j] => i = j
    BY <1>1, WalkOrder
  <2> QED
    BY <2>1, <2>2
<1>3. ~\E i \in 1..(k - 1) : w[i] = "manifest"
  <2>1. \A i \in 1..(k - 1) : i \in 1..Len(w) /\ i # Len(w)
    BY <1>1, <1>2
  <2>2. Len(w) \in 1..Len(w)
    BY <1>1, <1>2
  <2> QED
    BY <1>2, <2>1, <2>2
<1>4. disk[m]["manifest"] \in {Truncated, Absent}
  BY <1>1, <1>3 DEF Copied, Entries
<1> QED
  BY <1>1, <1>4 DEF Truncated, Absent

\* An install that is answered with success and met no other request leaves
\* its theme exactly its package, whatever failures, crashes and requests that
\* met had left there: for any number of themes and requests.
THEOREM InstallMends == Spec => InstallHeals
<1>1. ASSUME ThemesInv, [Next]_vars, NEW a \in Admins, NEW n \in Names,
             Completes(a, n)
      PROVE  Whole(n)'
  <2>1. /\ op[a].name = n /\ op[a].step = "write" /\ a \notin met
        /\ op'[a] = Idle /\ disk'[n]["manifest"] = op[a].package
        /\ BasicInv
    BY <1>1 DEF Completes, ThemesInv
  <2>2. disk' # disk
    BY <1>1, <2>1, ManifestLast
  <2>3. op'[a] # op[a]
    BY <2>1 DEF Idle, Request
  <2>4. ASSUME NEW b \in Admins,
               \/ RemoveEntry(b) \/ CopyFolder(b) \/ CopyOpen(b) \/ CopyWrite(b)
        PROVE  b = a /\ CopyWrite(a)
    <3>1. \A c \in Admins \ {b} : op'[c] = op[c]
      BY <2>1, <2>4, FinishMoves
         DEF RemoveEntry, CopyFolder, CopyOpen, CopyWrite, Visited, Step, Moves,
             BasicInv, TypeOK
    <3>2. b = a
      BY <2>3, <3>1
    <3> QED
      BY <2>1, <2>4, <3>2 DEF RemoveEntry, CopyFolder, CopyOpen
  <2>5. CopyWrite(a)
    BY <1>1, <2>2, <2>4
       DEF Next, vars, InstallStep, SetStep, DeleteStep, RemoveStep, Upload,
           CopyFails, SetBuiltin, SetTheme, ReadManifest, StatIndex, SaveActive,
           Delete, StatTheme, Removed, RemoveFails, PageRequestStep, GetPage,
           StatDist, OpenFile, ServeFile, Fallback, ServeIndex, Crash
  <2>6. Copied(a)
    BY <1>1, <2>1 DEF ThemesInv, CopyInv
  <2> QED
    BY <2>1, <2>5, <2>6, WriteCopied DEF Idle, Request
<1>2. ThemesInv /\ [Next]_vars =>
        [\A a \in Admins, n \in Names : Completes(a, n) => Whole(n)']_vars
  BY <1>1
<1> QED
  BY <1>2, Invariant, PTL DEF Spec, InstallHeals

\* A theme on offer is complete even when its install failed or was cut off
\* by a crash, since copyDir writes dist/ before the manifest; only a removal
\* cut short, and requests that met, leave another one.
THEOREM ListedThemesWhole == Spec => []ListedWhole
<1>1. ThemesInv => ListedWhole
  BY DEF ThemesInv, ListInv, Listed, ListedWhole
<1> QED
  BY <1>1, Invariant, PTL
=============================================================================
