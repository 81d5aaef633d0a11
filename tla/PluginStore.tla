------------------------------- MODULE PluginStore -------------------------------
(***************************************************************************)
(* Plugins from the registry to a running service (platform/plugins and    *)
(* platform/http/factory.py).  A publisher signs an archive and lists it;  *)
(* an install checks the archive, unpacks it aside with a receipt, loads it*)
(* and renames it into place; a starting service reads the manifests, then *)
(* the directories again for the code, then the receipts for the screens.  *)
(* Nothing locks the registry or the plugins directory: publishers,        *)
(* installs and a starting service interleave step by step.                *)
(*                                                                         *)
(* An archive is its bytes: its manifest and its screen are functions of   *)
(* it, and its checksum is the archive itself.  Staging and retired        *)
(* directories begin with a dot and are passed over by every reader, so    *)
(* they are not in the state.                                              *)
(***************************************************************************)
CONSTANTS
  Installer,
  Publisher,
  Archive,
  Name,
  Version,
  Key,
  Declares,         \* what the manifest in each archive says: its name and its version
  Faults,           \* what is wrong with each archive
  Trusted,          \* the keys in the trusted keys directory
  Overlapping,      \* pairs of names whose table prefixes overlap
  Meddled,          \* bound: what anybody but a publisher may touch in the registry
  ByHand,           \* the names whose directories are changed by hand, too
  Absent

PluginStoreAssumption ==
  /\ Declares \in [Archive -> Name \X Version]
  /\ Trusted \subseteq Key /\ ByHand \subseteq Name
  /\ Meddled \subseteq Name \X Version

VARIABLES
  file,       \* the archive in the registry under each name and version, or Absent
  index,      \* index.json: the entry of each name and version, or Absent
  signed,     \* auxiliary: the statements that exist, <<key, name, version, archive>>
  shop,       \* where each publisher is
  at,         \* where each install is
  disk,       \* the plugins directory: what is under each name, or Absent
  service     \* the running service: what it read when it started

vars == <<file, index, signed, shop, at, disk, service>>

Address == Name \X Version
Idle == [pc |-> "idle"]
Nothing == [n \in Name |-> Absent]
Down == [pc |-> "down", apps |-> Nothing, code |-> Nothing, screens |-> Nothing]

Init ==
  /\ file = [d \in Address |-> Absent] /\ index = [d \in Address |-> Absent]
  /\ signed = {}
  /\ shop = [p \in Publisher |-> Idle] /\ at = [i \in Installer |-> Idle]
  /\ disk = Nothing
  /\ service = Down
-----------------------------------------------------------------------------
(* package.read: an archive is refused for its size, its form, any of its  *)
(* entries' names or types, or for a manifest or code it does not carry.   *)
(* What is only found when it is inflated is found by unpack.              *)
read(a) ==
  Faults[a] \cap {"too_large", "not_a_zip", "too_many", "bad_name", "link", "twice",
                  "declares_too_much", "no_manifest", "bad_manifest", "no_code"} = {}
refuse_inconsistent_ui(a) == "no_entry" \notin Faults[a]
unpack(a) == Faults[a] \cap {"inflates", "corrupt"} = {}

(* index.publish: the archive is copied under its name, and the index is   *)
(* read, then replaced by one that has the new entry.  Bound: nothing is   *)
(* signed twice.                                                           *)
Publish(p, a, k) ==
  /\ shop[p] = Idle /\ read(a) /\ <<k, Declares[a], a>> \notin signed
  /\ file' = [file EXCEPT ![Declares[a]] = a]
  /\ signed' = signed \cup {<<k, Declares[a], a>>}
  /\ shop' = [shop EXCEPT ![p] =
       [pc |-> "listing", entry |-> [sha256 |-> a, key |-> k, signature |-> <<k, Declares[a], a>>]]]
  /\ UNCHANGED <<index, at, disk, service>>

ReadIndex(p) ==
  /\ shop[p].pc = "listing"
  /\ shop' = [shop EXCEPT ![p] = [pc |-> "writing", entry |-> @.entry, kept |-> index]]
  /\ UNCHANGED <<file, index, signed, at, disk, service>>

_write_index(p) ==
  /\ shop[p].pc = "writing"
  /\ index' = [shop[p].kept EXCEPT ![Declares[shop[p].entry.sha256]] = shop[p].entry]
  /\ shop' = [shop EXCEPT ![p] = Idle]
  /\ UNCHANGED <<file, signed, at, disk, service>>

(* Whoever keeps the registry may put any file under any name, and any     *)
(* entry in the index; a statement nobody signed they cannot make.         *)
Misplace(d, a) ==
  /\ d \in Meddled /\ a # file[d] /\ file[d] # Absent
  /\ file' = [file EXCEPT ![d] = a]
  /\ UNCHANGED <<index, signed, shop, at, disk, service>>

EditIndex(d, a) ==
  /\ d \in Meddled /\ index[d] # Absent /\ a # index[d].sha256
  /\ index' = [index EXCEPT ![d].sha256 = a]
  /\ UNCHANGED <<file, signed, shop, at, disk, service>>
-----------------------------------------------------------------------------
Go(i, step) == at' = [at EXCEPT ![i] = step]

find(i, d) ==
  /\ at[i] = Idle /\ index[d] # Absent
  /\ Go(i, [pc |-> "found", want |-> d, entry |-> index[d]])
  /\ UNCHANGED <<file, index, signed, shop, disk, service>>

verify(entry, d) ==
  /\ entry.key \in Trusted
  /\ entry.signature = <<entry.key, d, entry.sha256>> /\ entry.signature \in signed

(* The archive is read once: from here on the bytes are in memory.         *)
Verify(i) ==
  LET want == at[i].want
      data == file[want]
  IN /\ at[i].pc = "found"
     /\ data = at[i].entry.sha256 /\ verify(at[i].entry, want)
     /\ read(data) /\ Declares[data] = want /\ refuse_inconsistent_ui(data)
     /\ Go(i, [pc |-> "verified", data |-> data, key |-> at[i].entry.key])
     /\ UNCHANGED <<file, index, signed, shop, disk, service>>

NameOf(a) == Declares[a][1]
VersionOf(a) == Declares[a][2]

(* Every refusal a start would make, made now: against what is there.      *)
_refuse_conflicts(a) ==
  \A n \in Name \ {NameOf(a)} : disk[n] # Absent => {n, NameOf(a)} \notin Overlapping
_refuse_reinstall(a) ==
  disk[NameOf(a)] # Absent => VersionOf(disk[NameOf(a)].tree) # VersionOf(a)

Fit(i) ==
  /\ at[i].pc = "verified"
  /\ _refuse_conflicts(at[i].data) /\ _refuse_reinstall(at[i].data)
  /\ Go(i, [at[i] EXCEPT !.pc = "fits"])
  /\ UNCHANGED <<file, index, signed, shop, disk, service>>

write_receipt(a, key) == [of |-> Declares[a], sha256 |-> a, key |-> key]

(* A bug: what is unpacked is read from the registry again. *)
Stage_Again(i) ==
  /\ at[i].pc = "fits" /\ file[Declares[at[i].data]] # Absent
  /\ Go(i, [pc |-> "staged", tree |-> file[Declares[at[i].data]],
            receipt |-> write_receipt(at[i].data, at[i].key)])
  /\ UNCHANGED <<file, index, signed, shop, disk, service>>

(* Unpacked from memory into a directory of its own, with the receipt; its *)
(* code is loaded and its migrations are run.                              *)
Stage(i) ==
  /\ at[i].pc = "fits" /\ unpack(at[i].data)
  /\ Go(i, [pc |-> "staged", tree |-> at[i].data,
            receipt |-> write_receipt(at[i].data, at[i].key)])
  /\ UNCHANGED <<file, index, signed, shop, disk, service>>

(* _move_into_place: one rename when nothing is there, otherwise two.      *)
Aside(i) ==
  /\ at[i].pc = "staged" /\ disk[NameOf(at[i].tree)] # Absent
  /\ disk' = [disk EXCEPT ![NameOf(at[i].tree)] = Absent]
  /\ Go(i, [at[i] EXCEPT !.pc = "aside"])
  /\ UNCHANGED <<file, index, signed, shop, service>>

Place(i) ==
  /\ at[i].pc \in {"staged", "aside"} /\ disk[NameOf(at[i].receipt.sha256)] = Absent
  /\ disk' = [disk EXCEPT ![NameOf(at[i].receipt.sha256)] =
       [tree |-> at[i].tree, receipt |-> at[i].receipt]]
  /\ Go(i, Idle)
  /\ UNCHANGED <<file, index, signed, shop, service>>

(* Any step may be refused or fail, and the process may go: what was staged*)
(* is removed or stays hidden, and nothing is put back.                    *)
Abandon(i) ==
  /\ at[i] # Idle
  /\ Go(i, Idle)
  /\ UNCHANGED <<file, index, signed, shop, disk, service>>

(* By hand: a directory is taken away, or one is copied in without a       *)
(* receipt. *)
Remove(n) ==
  /\ n \in ByHand /\ disk[n] # Absent
  /\ disk' = [disk EXCEPT ![n] = Absent]
  /\ UNCHANGED <<file, index, signed, shop, at, service>>

CopyIn(a) ==
  /\ NameOf(a) \in ByHand /\ disk[NameOf(a)] = Absent
  /\ disk' = [disk EXCEPT ![NameOf(a)] = [tree |-> a, receipt |-> Absent]]
  /\ UNCHANGED <<file, index, signed, shop, at, service>>
-----------------------------------------------------------------------------
(* create_app, step by step.  The registry of apps: refused when two of    *)
(* them overlap, and then the service does not start.                      *)
build_registry ==
  /\ service.pc = "down"
  /\ \A m, n \in Name : Absent \notin {disk[m], disk[n]} => {m, n} \notin Overlapping
  /\ service' = [service EXCEPT !.pc = "registered",
       !.apps = [n \in Name |-> IF disk[n] = Absent THEN Absent ELSE VersionOf(disk[n].tree)]]
  /\ UNCHANGED <<file, index, signed, shop, at, disk>>

(* The code of every app registered, from where its directory is now.      *)
mount ==
  /\ service.pc = "registered"
  /\ \A n \in Name : service.apps[n] # Absent => disk[n] # Absent
  /\ service' = [service EXCEPT !.pc = "mounted",
       !.code = [n \in Name |-> IF service.apps[n] = Absent THEN Absent ELSE disk[n].tree]]
  /\ UNCHANGED <<file, index, signed, shop, at, disk>>

(* A bug: any receipt there is vouches for the screen. *)
served_ui_Any(n) ==
  IF service.apps[n] = Absent \/ disk[n] = Absent THEN Absent
  ELSE IF disk[n].receipt = Absent THEN Absent
  ELSE disk[n].receipt.sha256

(* The screen a receipt vouches for: of this name and version.             *)
served_ui(n) ==
  IF service.apps[n] = Absent \/ disk[n] = Absent THEN Absent
  ELSE IF disk[n].receipt = Absent THEN Absent
  ELSE IF disk[n].receipt.of # <<n, service.apps[n]>> THEN Absent
  ELSE disk[n].receipt.sha256

served_screens ==
  /\ service.pc = "mounted"
  /\ service' = [service EXCEPT !.pc = "up", !.screens = [n \in Name |-> served_ui(n)]]
  /\ UNCHANGED <<file, index, signed, shop, at, disk>>

Stop ==
  /\ service.pc # "down"
  /\ service' = Down
  /\ UNCHANGED <<file, index, signed, shop, at, disk>>
-----------------------------------------------------------------------------
Next ==
  \/ \E p \in Publisher :
       \/ \E a \in Archive, k \in Key : Publish(p, a, k)
       \/ ReadIndex(p) \/ _write_index(p)
  \/ \E d \in Address, a \in Archive : Misplace(d, a) \/ EditIndex(d, a)
  \/ \E i \in Installer :
       \/ \E d \in Address : find(i, d)
       \/ Verify(i) \/ Fit(i) \/ Stage(i) \/ Aside(i) \/ Place(i) \/ Abandon(i)
  \/ \E n \in Name : Remove(n)
  \/ \E a \in Archive : CopyIn(a)
  \/ build_registry \/ mount \/ served_screens \/ Stop

Spec == Init /\ [][Next]_vars
-----------------------------------------------------------------------------
(* A directory with a receipt holds the bytes somebody with a trusted key  *)
(* signed as that name and version, under that name (install.py:3-20):     *)
(* whatever was done to the registry between the check and the unpacking,  *)
(* and however installs of one plugin overlapped.                          *)
RunsWhatWasSigned ==
  \A n \in Name :
    (disk[n] # Absent /\ disk[n].receipt # Absent) =>
      LET there == disk[n]
      IN /\ there.tree = there.receipt.sha256 /\ NameOf(there.tree) = n
         /\ there.receipt.key \in Trusted
         /\ <<there.receipt.key, Declares[there.tree], there.tree>> \in signed

(* The hash the service reports for a screen is that of bytes signed as the*)
(* very name and version it reports (ui.py:151-172), although it reads the *)
(* manifests, the code and the receipts one after another while installs   *)
(* replace what is there.                                                  *)
ScreenIsVouched ==
  \A n \in Name :
    (service.pc = "up" /\ service.screens[n] # Absent) =>
      \E k \in Trusted :
        <<k, <<n, service.apps[n]>>, service.screens[n]>> \in signed
=============================================================================
