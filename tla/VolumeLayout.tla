--------------------------- MODULE VolumeLayout ---------------------------
(***************************************************************************)
(* The data directory of one volume across write modes                     *)
(* (internal/csi/driver/storage_inplace.go): the layout that the atomic    *)
(* writer of csi-lib builds (user-visible symlinks through `..data` into a *)
(* timestamped directory), the flat files of the in-place writer, what     *)
(* each of the two stores does to what the other one left, and where a     *)
(* crash or an error can stop them.                                        *)
(*                                                                         *)
(* One action is one change of the directory, or the checks before the     *)
(* first one.  The writers of one volume run one at a time here;           *)
(* InplaceWriter models two at a time, inside the files.                   *)
(***************************************************************************)
EXTENDS Naturals

CONSTANTS
  Absent,   \* no entry, no directory
  Link,     \* a user-visible symlink to ..data/<name>
  Dirs,     \* names of timestamped directories
  Names,    \* names of user-visible files
  CAFile,   \* CAFile[p]: the CA file of a driver that writes the files p,
            \* or Absent if it has no root CAs
  MaxGen,   \* bound: different payloads in one behaviour
  MaxStops  \* bound: crashes, errors and torn layouts in one behaviour

(* The files that some configuration of the driver writes.  The operator   *)
(* names them all; a key pair alone is two (driver.go:572-578).            *)
Payloads == DOMAIN CAFile
Modes == {"in-place", "atomic-dir"}

ASSUME VolumeLayoutAssumption ==
  /\ Absent \notin Nat \cup Dirs \cup Names /\ Link \notin Nat \cup {Absent}
  /\ \A p \in Payloads : p \subseteq Names /\ CAFile[p] \in p \cup {Absent}
  /\ \A n \in Names : {n} \notin Payloads
  /\ MaxGen \in Nat /\ MaxStops \in Nat
  /\ Absent \notin [Names -> (1..MaxGen) \cup {Absent}]

VARIABLES
  root,     \* root[n]: the entry n: Absent, Link, or a file's contents
  dirs,     \* dirs[d][n]: the file n of d; dirs[d] is Absent without d
  data,     \* the directory that ..data points to, or Absent
  mode,     \* --volume-write-mode of the driver that is running
  listed,   \* the names that its configuration writes
  gen,      \* contents of the latest payload
  pc,       \* where the write is
  payload,  \* the names it writes
  todo,     \* the names the current loop has still to visit
  new,      \* the directory the atomic writer has made
  stale,    \* the user-visible paths it has still to remove
  old,      \* what ..data pointed to before
  result,   \* how the latest write ended
  stops     \* crashes, errors and torn layouts so far

volume == <<root, dirs, data>>
atomic == <<new, stale, old>>
config == <<mode, listed>>
vars == <<volume, config, gen, pc, payload, todo, atomic, result, stops>>

Gens == 1..MaxGen
Files == [Names -> Gens \cup {Absent}]

TypeOK ==
  /\ root \in [Names -> Gens \cup {Absent, Link}]
  /\ dirs \in [Dirs -> Files \cup {Absent}]
  /\ data \in Dirs \cup {Absent}
  /\ mode \in Modes /\ listed \in Payloads /\ gen \in 0..MaxGen
  /\ pc \in {"idle", "clear", "atomic", "links", "remove", "prune", "write"}
  /\ payload \subseteq Names /\ todo \subseteq Names /\ stale \subseteq Names
  /\ new \in Dirs \cup {Absent} /\ old \in Dirs \cup {Absent}
  /\ pc = "links" => new # Absent /\ dirs[new] # Absent
  /\ pc = "remove" => data = new
  /\ result \in {"none", "ok", "refused", "failed"}
  /\ stops \in 0..MaxStops

Init ==
  /\ root = [n \in Names |-> Absent]
  /\ dirs = [d \in Dirs |-> Absent]
  /\ data = Absent
  /\ mode \in Modes /\ listed \in Payloads
  /\ gen = 0
  /\ pc = "idle" /\ payload = {} /\ todo = {}
  /\ new = Absent /\ stale = {} /\ old = Absent
  /\ result = "none" /\ stops = 0

-----------------------------------------------------------------------------
(* What the path of a name leads to.                                       *)

Resolves == data # Absent /\ dirs[data] # Absent

Read(n) ==
  CASE root[n] # Link           -> root[n]
    [] root[n] = Link /\ Resolves  -> dirs[data][n]
    [] root[n] = Link /\ ~Resolves -> Absent

(* The inode behind the path, identified by the place it was made in.      *)
Where(n) == IF root[n] = Link THEN data ELSE Link

-----------------------------------------------------------------------------
(* The checks of the stores.                                               *)

(* Mutant: a symlink that leads to no file makes the layout broken, though *)
(* the directory is there.                                                 *)
BrokenByAnyLink(files) == \E n \in files : root[n] = Link /\ Read(n) = Absent

(* ..data leads nowhere, or is missing and some file of the payload is a   *)
(* symlink.                                                                *)
brokenAtomicLayout(files) ==
  IF data # Absent THEN dirs[data] = Absent
  ELSE \E n \in files : root[n] = Link

(* Mutant: nothing is cleared before an atomic write.                      *)
ClearNothing == {}

(* What the in-place writer left in the root: regular files.               *)
inplaceArtifacts == {n \in Names : root[n] \in Gens}

(* Mutant: only the link is pruned, not the file behind it.                *)
BehindNothing(n) == FALSE

(* The file behind a symlink that is going to be pruned is still there.    *)
behindLink(n) == root[n] = Link /\ Resolves /\ dirs[data][n] # Absent

-----------------------------------------------------------------------------
Done(r) ==
  /\ pc' = "idle" /\ todo' = {} /\ result' = r
  /\ new' = Absent /\ stale' = {} /\ old' = Absent
  /\ UNCHANGED <<config, gen, payload, stops>>

Goto(label, names) ==
  /\ pc' = label /\ todo' = names
  /\ UNCHANGED <<config, gen, payload, result, stops>>

(* A write of the given names starts, with new contents or the latest.     *)
Begin(names, label, first) ==
  /\ pc = "idle"
  /\ gen' \in {gen, gen + 1} \cap Gens
  /\ payload' = names /\ result' = "none"
  /\ pc' = label /\ todo' = first
  /\ UNCHANGED <<volume, config, atomic, stops>>

(* inplaceWriteStorage.WriteFiles: a broken layout is rebuilt with the     *)
(* atomic writer, any other one is pruned and written to in place.         *)
WriteFiles ==
  /\ mode = "in-place"
  /\ IF brokenAtomicLayout(listed)
       THEN Begin(listed, "clear", inplaceArtifacts)
       ELSE Begin(listed, "prune", {n \in Names \ listed : root[n] # Absent})

(* Mutant: a broken layout is rebuilt with the one file.                   *)
WriteFileRebuilds ==
  /\ mode = "in-place" /\ CAFile[listed] # Absent
  /\ LET ca == CAFile[listed]
     IN IF brokenAtomicLayout({ca})
          THEN Begin({ca}, "clear", inplaceArtifacts)
          ELSE Begin({ca}, "write", {ca})

(* WriteFile, for the CA file: a broken layout is refused.                 *)
WriteFile ==
  /\ mode = "in-place" /\ CAFile[listed] # Absent
  /\ ~brokenAtomicLayout({CAFile[listed]})
  /\ Begin({CAFile[listed]}, "write", {CAFile[listed]})

RefuseFile ==
  /\ pc = "idle" /\ mode = "in-place" /\ CAFile[listed] # Absent
  /\ brokenAtomicLayout({CAFile[listed]})
  /\ result' = "refused" /\ payload' = {CAFile[listed]}
  /\ UNCHANGED <<volume, config, gen, pc, todo, atomic, stops>>

(* The CA manager writes the pair and the CA file and leaves the keystores *)
(* out, as a driver without keystores does.                                *)
WithoutKeystores(p) ==
  p \subseteq listed /\ CAFile[p] = CAFile[listed] /\ CAFile[p] # Absent

(* atomicDirStorage.WriteFiles.                                            *)
WriteFilesAtomic ==
  /\ mode = "atomic-dir"
  /\ \E p \in Payloads :
       /\ p = listed \/ WithoutKeystores(p)
       /\ Begin(p, "clear", inplaceArtifacts)

-----------------------------------------------------------------------------
(* In place.                                                               *)

(* removeUnlistedFiles: the file behind the link first, then the entry.    *)
PruneBehind(n) ==
  /\ pc = "prune" /\ n \in todo /\ behindLink(n)
  /\ dirs' = [dirs EXCEPT ![data][n] = Absent]
  /\ UNCHANGED <<root, data, config, gen, pc, payload, todo, atomic, result, stops>>

PruneEntry(n) ==
  /\ pc = "prune" /\ n \in todo /\ ~behindLink(n)
  /\ root' = [root EXCEPT ![n] = Absent]
  /\ Goto("prune", todo \ {n})
  /\ UNCHANGED <<dirs, data, atomic>>

EndPrune ==
  /\ pc = "prune" /\ todo = {}
  /\ Goto("write", payload)
  /\ UNCHANGED <<volume, atomic>>

(* writeFileInPlace follows the links and creates what is missing; opening *)
(* a file behind links that lead nowhere fails.                            *)
WriteInPlace(n) ==
  /\ pc = "write" /\ n \in todo
  /\ IF root[n] # Link THEN root' = [root EXCEPT ![n] = gen] /\ UNCHANGED dirs
     ELSE IF Resolves THEN dirs' = [dirs EXCEPT ![data][n] = gen] /\ UNCHANGED root
     ELSE UNCHANGED <<root, dirs>>
  /\ IF root[n] = Link /\ ~Resolves
       THEN Done("failed")
       ELSE Goto("write", todo \ {n}) /\ UNCHANGED atomic
  /\ UNCHANGED data

EndInPlace ==
  /\ pc = "write" /\ todo = {}
  /\ Done("ok")
  /\ UNCHANGED volume

-----------------------------------------------------------------------------
(* The atomic writer, which is csi-lib's.                                  *)

Clear(n) ==
  /\ pc = "clear" /\ n \in todo
  /\ root' = [root EXCEPT ![n] = Absent]
  /\ Goto("clear", todo \ {n})
  /\ UNCHANGED <<dirs, data, atomic>>

EndClear ==
  /\ pc = "clear" /\ todo = {}
  /\ Goto("atomic", {})
  /\ UNCHANGED <<volume, atomic>>

Superseded == IF Resolves THEN {n \in Names : dirs[data][n] # Absent} \ payload ELSE {}
UpToDate == Resolves /\ Superseded = {} /\ \A n \in payload : dirs[data][n] = gen

WriteNotRequired ==
  /\ pc = "atomic" /\ UpToDate
  /\ Done("ok")
  /\ UNCHANGED volume

(* Mutant: the new directory is named and not made.                        *)
NameDirectory(d) ==
  /\ pc = "atomic" /\ ~UpToDate /\ dirs[d] = Absent
  /\ new' = d /\ old' = data /\ stale' = Superseded
  /\ Goto("links", payload)
  /\ UNCHANGED volume

(* A new timestamped directory with the payload.                           *)
MakeDirectory(d) ==
  /\ pc = "atomic" /\ ~UpToDate /\ dirs[d] = Absent /\ d # data
  /\ dirs' = [dirs EXCEPT ![d] = [n \in Names |-> IF n \in payload THEN gen ELSE Absent]]
  /\ new' = d /\ old' = data /\ stale' = Superseded
  /\ Goto("links", payload)
  /\ UNCHANGED <<root, data>>

(* createUserVisibleFiles: only where there is no entry of any kind.       *)
MakeLink(n) ==
  /\ pc = "links" /\ n \in todo
  /\ root' = [root EXCEPT ![n] = IF @ = Absent THEN Link ELSE @]
  /\ Goto("links", todo \ {n})
  /\ UNCHANGED <<dirs, data, atomic>>

Rename ==
  /\ pc = "links" /\ todo = {}
  /\ data' = new
  /\ Goto("remove", stale)
  /\ UNCHANGED <<root, dirs, atomic>>

(* removeUserVisiblePaths fails on a path that is not there.               *)
RemovePath(n) ==
  /\ pc = "remove" /\ n \in todo
  /\ root' = [root EXCEPT ![n] = Absent]
  /\ IF root[n] = Absent
       THEN Done("failed")
       ELSE Goto("remove", todo \ {n}) /\ UNCHANGED atomic
  /\ UNCHANGED <<dirs, data>>

RemoveOld ==
  /\ pc = "remove" /\ todo = {}
  /\ dirs' = IF old = Absent THEN dirs ELSE [dirs EXCEPT ![old] = Absent]
  /\ Done("ok")
  /\ UNCHANGED <<root, data>>

-----------------------------------------------------------------------------
(* The write is cut short by an error or by a crash; the driver that goes  *)
(* on may be configured differently.                                       *)
Stop ==
  /\ stops < MaxStops /\ stops' = stops + 1
  /\ mode' \in Modes /\ listed' \in Payloads
  /\ pc' = "idle" /\ todo' = {} /\ result' = "none"
  /\ new' = Absent /\ stale' = {} /\ old' = Absent
  /\ UNCHANGED <<volume, gen, payload>>

(* Somebody tears the symlink layout half down.                            *)
Tear ==
  /\ stops < MaxStops /\ stops' = stops + 1
  /\ pc = "idle" /\ Resolves
  /\ \/ data' = Absent /\ UNCHANGED dirs
     \/ dirs' = [dirs EXCEPT ![data] = Absent] /\ UNCHANGED data
  /\ result' = "none"
  /\ UNCHANGED <<root, config, gen, pc, payload, todo, atomic>>

-----------------------------------------------------------------------------
InPlace ==
  \/ WriteFiles \/ WriteFile \/ RefuseFile
  \/ \E n \in Names : PruneBehind(n) \/ PruneEntry(n) \/ WriteInPlace(n)
  \/ EndPrune \/ EndInPlace

Atomic ==
  \/ WriteFilesAtomic
  \/ \E n \in Names : Clear(n) \/ MakeLink(n) \/ RemovePath(n)
  \/ \E d \in Dirs : MakeDirectory(d)
  \/ EndClear \/ WriteNotRequired \/ Rename \/ RemoveOld

Next == InPlace \/ Atomic \/ Stop \/ Tear

Spec == Init /\ [][Next]_vars

-----------------------------------------------------------------------------
(* A write that reports success has delivered its payload to the paths the *)
(* pod reads, and a full one nothing else, whatever modes, crashes and     *)
(* configurations came before (storage_inplace.go:270-278, 390-394).       *)
Delivered ==
  result = "ok" =>
    /\ \A n \in payload : Read(n) = gen
    /\ payload \in Payloads => \A n \in Names \ payload : Read(n) = Absent

(* No layout that crashes, errors and changes of the mode can leave makes  *)
(* a later write fail (storage_inplace.go:402-406).                        *)
NoLayoutFails == result # "failed"

(* As long as the links of a volume lead somewhere, a write in place keeps *)
(* the inode behind every path that it writes or leaves alone              *)
(* (storage_inplace.go:155-161, 568-572).                                  *)
InodesSurvive ==
  [][mode = "in-place" /\ pc # "idle"
       /\ (Resolves \/ (data = Absent /\ \A n \in payload : root[n] # Link))
     => \A n \in payload :
          Read(n) # Absent => Read(n)' # Absent /\ Where(n)' = Where(n)]_vars

(* Updating the CA file changes no other file of the volume                *)
(* (storage_inplace.go:217-227, 249-253).                                  *)
CAWriteTouchesNothingElse ==
  [][payload = {CAFile[listed]} /\ pc # "idle"
     => \A n \in Names \ payload : Read(n)' = Read(n)]_vars

=============================================================================
