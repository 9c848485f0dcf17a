--------------------------- MODULE Snapshots_proofs ---------------------------
(***************************************************************************)
(* Proofs about Snapshots, for any sources, versions and number of faults:  *)
(* no damaged file reaches the data, an import that ends undisturbed is     *)
(* whole, and a bundle made beside no sync has no companion newer than its  *)
(* data.                                                                    *)
(***************************************************************************)
EXTENDS Snapshots, TLAPS

Data == {None} \cup Written
Origin == [data: Data, meta: Data]
BundlerType == [pc: {"pack"}, left: SUBSET Sources, lists: [Sources -> Data],
                holds: [Sources -> Origin], overlapped: BOOLEAN]
TarType == [lists: [Sources -> Data], holds: [Sources -> Origin], overlapped: BOOLEAN]
ImportType == [pc: {"unpack", "install", "rename", "done"}, lists: [Sources -> Data],
               copy: [Sources -> Files], name: Sources \cup {"manifest", ""},
               left: SUBSET (Sources \cup {"manifest"}), quiet: BOOLEAN]

\* At the origin a companion never tells of newer data than there is.
OriginOK ==
    /\ origin \in [Sources -> Origin] /\ syncing \subseteq Sources
    /\ written \in 0 .. MaxVersions
    /\ \A s \in Sources : origin[s].meta <= origin[s].data /\ origin[s].data <= written

\* Beside no sync, what is packed is what the origin has.
Carried(s) ==
    \/ bundler.holds[s].data = None /\ bundler.holds[s].meta = None
    \/ bundler.holds[s].data = origin[s].data /\ bundler.holds[s].meta \in {None, origin[s].meta}
BundlerOK ==
    bundler.pc # "idle" =>
      /\ bundler \in BundlerType /\ Sources # {}
      /\ ~bundler.overlapped => syncing = {} /\ \A s \in Sources : Carried(s)
TarOK ==
    tar # NoTar =>
      /\ tar \in TarType /\ Sources # {}
      /\ CompanionsNotNewer

\* The import: what is still staged is what the manifest lists; what was renamed is in place,
\* unless another writer came by; the manifest is still to come, or in place.
Installing == import.pc \in {"install", "rename", "done"}
Renaming(name) == import.pc = "rename" /\ import.name = name
ImportOK ==
    import.pc # "idle" =>
      /\ import \in ImportType /\ Sources # {}
      /\ import.pc = "rename" => import.name \in (Sources \cup {"manifest"}) \ import.left
      /\ Installing =>
           /\ \A s \in Sources : s \in import.left \/ Renaming(s) =>
                staging[s].data = import.lists[s]
           /\ import.quiet =>
                \A s \in Sources : import.lists[s] # None =>
                  s \in import.left \/ Renaming(s) \/ dest[s].data = import.lists[s]
           /\ "manifest" \in import.left \/ Renaming("manifest") \/ manifest = import.lists
           /\ import.pc = "done" => import.left = {}

DestOK ==
    /\ dest \in [Sources -> Files] /\ staging \in [Sources -> Files]
    /\ \A s \in Sources : dest[s].data # Bad

\* The inductive invariant: what each of the four holds.
IInv == OriginOK /\ BundlerOK /\ TarOK /\ ImportOK /\ DestOK

-----------------------------------------------------------------------------
LEMMA Numbers ==
    /\ MaxVersions \in Nat /\ None \in Data /\ Bad \notin Data /\ Local \notin Data
    /\ \A d \in Data : d \in Int /\ 0 <= d
    /\ Data \subseteq {None, Local} \cup Written /\ Bad # None /\ Bad # Local
BY SnapshotsAssumption DEF Data, None, Bad, Local, Written

LEMMA Apart ==
    /\ Nothing \in [Sources -> Files] /\ NoFiles \in Files
    /\ NoFiles.data = None /\ NoFiles.meta = None /\ Idle.pc = "idle"
BY DEF Nothing, NoFiles, Files, Idle

LEMMA InitInv == ASSUME Init PROVE IInv
<1>1. OriginOK
  <2>1. origin \in [Sources -> Origin]
    BY Numbers DEF Init, Nothing, NoFiles, Origin
  <2> QED
    BY <2>1, Numbers DEF Init, OriginOK, Nothing, NoFiles, None
<1>2. DestOK
  BY Apart, Numbers DEF Init, DestOK, Nothing
<1> QED
  BY <1>1, <1>2, Apart DEF IInv, Init, BundlerOK, TarOK, ImportOK

-----------------------------------------------------------------------------
\* What the origin and the bundler do is not seen by the destination.
LEMMA DestinationUnseen ==
    ASSUME IInv, UNCHANGED destVars PROVE ImportOK' /\ DestOK'
BY DEF IInv, ImportOK, DestOK, destVars, Installing, Renaming

\* And what the destination does is not seen by the origin.
LEMMA OriginUnseen ==
    ASSUME IInv, UNCHANGED originVars PROVE OriginOK' /\ BundlerOK' /\ TarOK'
BY DEF IInv, OriginOK, BundlerOK, TarOK, originVars, Carried, CompanionsNotNewer

LEMMA SyncInv ==
    ASSUME IInv,
           \/ \E s \in Sources : SyncData(s) \/ SyncMeta(s)
           \/ SyncKilled
    PROVE  IInv'
<1>1. UNCHANGED destVars /\ tar' = tar
  BY DEF SyncData, SyncMeta, SyncKilled
<1>2. TarOK'
  BY <1>1 DEF IInv, TarOK, CompanionsNotNewer
<1>3. ASSUME NEW s \in Sources, SyncData(s) PROVE OriginOK' /\ BundlerOK'
  <2>1. written' \in Data /\ written' \in 0 .. MaxVersions /\ written' = written + 1
    BY <1>3, SnapshotsAssumption DEF IInv, OriginOK, SyncData, Data, Written
  <2>2. origin' = [origin EXCEPT ![s] = [origin[s] EXCEPT !.data = written']]
    BY <1>3 DEF SyncData
  <2>3. /\ [origin[s] EXCEPT !.data = written'] \in Origin
        /\ [origin[s] EXCEPT !.data = written'].data = written'
        /\ [origin[s] EXCEPT !.data = written'].meta = origin[s].meta
    BY <2>1 DEF IInv, OriginOK, Origin
  <2>4. \A t \in Sources : /\ origin[t].meta \in Int /\ origin[t].data \in Int
                          /\ origin[t].meta <= origin[t].data /\ origin[t].data <= written
    BY Numbers DEF IInv, OriginOK, Origin
  <2>5. OriginOK'
    <3>1. origin' \in [Sources -> Origin]
      BY <2>2, <2>3 DEF IInv, OriginOK
    <3>2. \A t \in Sources : origin'[t].meta <= origin'[t].data /\ origin'[t].data <= written'
      <4> SUFFICES ASSUME NEW t \in Sources
                   PROVE  origin'[t].meta <= origin'[t].data /\ origin'[t].data <= written'
        OBVIOUS
      <4>1. CASE t = s
        <5>1. origin'[t].data = written' /\ origin'[t].meta = origin[s].meta
          BY <2>2, <2>3, <4>1 DEF IInv, OriginOK
        <5>2. written \in Int
          BY DEF IInv, OriginOK
        <5> QED
          BY <2>1, <2>4, <4>1, <5>1, <5>2
      <4>2. CASE t # s
        <5>1. origin'[t] = origin[t] /\ written \in Int
          BY <2>2, <4>2 DEF IInv, OriginOK
        <5> QED
          BY <2>1, <2>4, <5>1
      <4> QED
        BY <4>1, <4>2
    <3> QED
      BY <1>3, <2>1, <3>1, <3>2 DEF OriginOK, SyncData
  <2>6. BundlerOK'
    <3>1. CASE bundler.pc = "idle"
      BY <1>3, <3>1 DEF SyncData, BundlerOK
    <3>2. CASE bundler.pc # "idle"
      <4>1. bundler' = [bundler EXCEPT !.overlapped = TRUE] /\ bundler \in BundlerType
        BY <1>3, <3>2 DEF SyncData, IInv, BundlerOK
      <4>2. bundler' \in BundlerType /\ bundler'.overlapped
        BY <4>1 DEF BundlerType
      <4> QED
        BY <3>2, <4>2 DEF IInv, BundlerOK
    <3> QED
      BY <3>1, <3>2
  <2> QED
    BY <2>5, <2>6
<1>4. ASSUME NEW s \in Sources, SyncMeta(s) PROVE OriginOK' /\ BundlerOK'
  <2>1. origin' = [origin EXCEPT ![s] = [origin[s] EXCEPT !.meta = origin[s].data]]
    BY <1>4 DEF SyncMeta
  <2>2. /\ [origin[s] EXCEPT !.meta = origin[s].data] \in Origin
        /\ [origin[s] EXCEPT !.meta = origin[s].data].data = origin[s].data
        /\ [origin[s] EXCEPT !.meta = origin[s].data].meta = origin[s].data
        /\ origin[s].data \in Int
    BY Numbers DEF IInv, OriginOK, Origin
  <2>3. OriginOK'
    <3>1. origin' \in [Sources -> Origin]
      BY <2>1, <2>2 DEF IInv, OriginOK
    <3>2. \A t \in Sources : origin'[t] = IF t = s THEN [origin[s] EXCEPT !.meta = origin[s].data]
                                         ELSE origin[t]
      BY <2>1 DEF IInv, OriginOK
    <3>3. \A t \in Sources : origin'[t].meta <= origin'[t].data /\ origin'[t].data <= written
      <4> SUFFICES ASSUME NEW t \in Sources
                   PROVE  origin'[t].meta <= origin'[t].data /\ origin'[t].data <= written
        OBVIOUS
      <4>1. origin[t].meta <= origin[t].data /\ origin[t].data <= written
        BY DEF IInv, OriginOK
      <4>2. CASE t = s
        <5>1. origin'[t].data = origin[s].data /\ origin'[t].meta = origin[s].data
          BY <2>2, <3>2, <4>2
        <5> QED
          BY <2>2, <4>1, <4>2, <5>1
      <4>3. CASE t # s
        BY <3>2, <4>1, <4>3
      <4> QED
        BY <4>2, <4>3
    <3> QED
      BY <1>4, <3>1, <3>3 DEF IInv, OriginOK, SyncMeta
  <2>4. BundlerOK'
    <3>1. bundler' = bundler /\ syncing # {}
      BY <1>4 DEF SyncMeta
    <3> QED
      BY <3>1 DEF IInv, BundlerOK
  <2> QED
    BY <2>3, <2>4
<1>5. CASE SyncKilled
  <2>1. syncing # {} /\ syncing' = {} /\ UNCHANGED <<origin, written, bundler>>
    BY <1>5 DEF SyncKilled
  <2> QED
    BY <1>1, <1>2, <2>1, DestinationUnseen DEF IInv, OriginOK, BundlerOK
<1> QED
  BY <1>1, <1>2, <1>3, <1>4, <1>5, DestinationUnseen DEF IInv

LEMMA BundleInv ==
    ASSUME IInv,
           \/ BundleStart \/ BundleDone \/ BundleKilled
           \/ \E s \in Sources : BundleData(s) \/ BundleMeta(s)
    PROVE  IInv'
<1>1. UNCHANGED destVars /\ UNCHANGED <<origin, syncing, written>>
  BY DEF BundleStart, BundleDone, BundleKilled, BundleData, BundleMeta
<1>2. OriginOK'
  BY <1>1 DEF IInv, OriginOK
<1>a. \A s \in Sources : origin[s] \in Origin
  BY DEF IInv, OriginOK
<1>3. CASE BundleStart
  <2>1. bundler' = [pc |-> "pack", left |-> Sources, lists |-> Listing(origin), holds |-> Nothing,
                    overlapped |-> syncing # {}]
    BY <1>3 DEF BundleStart
  <2>2. Listing(origin) \in [Sources -> Data] /\ Nothing \in [Sources -> Origin]
    BY <1>a, Numbers DEF Listing, Origin, Nothing, NoFiles
  <2>3. bundler' \in BundlerType
    BY <2>1, <2>2 DEF BundlerType
  <2>4. \A s \in Sources : bundler'.holds[s].data = None /\ bundler'.holds[s].meta = None
    BY <2>1 DEF Nothing, NoFiles
  <2>5. Sources # {} /\ tar' = tar
    BY <1>3 DEF BundleStart
  <2>6. BundlerOK'
    BY <1>1, <2>1, <2>3, <2>4, <2>5 DEF BundlerOK, Carried
  <2> QED
    BY <1>1, <1>2, <2>5, <2>6, DestinationUnseen DEF IInv, TarOK, CompanionsNotNewer
<1>4. ASSUME NEW s \in Sources, BundleData(s) PROVE IInv'
  <2>1. bundler \in BundlerType /\ Sources # {} /\ bundler.pc = "pack"
    BY <1>4 DEF BundleData, IInv, BundlerOK
  <2> DEFINE left == IF origin[s].data = None THEN bundler.left \ {s} ELSE bundler.left
             held == [bundler.holds[s] EXCEPT !.data = origin[s].data]
             holds == [bundler.holds EXCEPT ![s] = held]
  <2>2. bundler' = [bundler EXCEPT !.holds = holds, !.left = left]
    BY <1>4, <2>1 DEF BundleData, BundlerType
  <2>3. /\ held \in Origin /\ held.data = origin[s].data /\ held.meta = bundler.holds[s].meta
    BY <1>a, <2>1 DEF BundlerType, Origin
  <2>4. /\ holds \in [Sources -> Origin] /\ left \in SUBSET Sources
        /\ \A t \in Sources : holds[t] = IF t = s THEN held ELSE bundler.holds[t]
    BY <2>1, <2>3 DEF BundlerType
  <2> HIDE DEF holds, left, held
  <2>5. /\ bundler' \in BundlerType /\ bundler'.holds = holds
        /\ bundler'.overlapped = bundler.overlapped
    BY <2>1, <2>2, <2>4 DEF BundlerType
  <2>6. ~bundler.overlapped => \A t \in Sources : Carried(t)'
    <3> SUFFICES ASSUME ~bundler.overlapped, NEW t \in Sources PROVE Carried(t)'
      OBVIOUS
    <3>1. Carried(t)
      BY <2>1 DEF IInv, BundlerOK
    <3>2. CASE t # s
      BY <1>1, <2>4, <2>5, <3>1, <3>2 DEF Carried
    <3>3. CASE t = s
      BY <1>1, <2>3, <2>4, <2>5, <3>1, <3>3 DEF Carried
    <3> QED
      BY <3>2, <3>3
  <2>7. BundlerOK'
    BY <1>1, <2>1, <2>5, <2>6 DEF IInv, BundlerOK
  <2>8. tar' = tar
    BY <1>4 DEF BundleData
  <2> QED
    BY <1>1, <1>2, <2>7, <2>8, DestinationUnseen DEF IInv, TarOK, CompanionsNotNewer
<1>5. ASSUME NEW s \in Sources, BundleMeta(s) PROVE IInv'
  <2>1. bundler \in BundlerType /\ Sources # {} /\ bundler.pc = "pack"
    BY <1>5 DEF BundleMeta, IInv, BundlerOK
  <2> DEFINE left == bundler.left \ {s}
             held == [bundler.holds[s] EXCEPT !.meta = origin[s].meta]
             holds == [bundler.holds EXCEPT ![s] = held]
  <2>2. bundler' = [bundler EXCEPT !.holds = holds, !.left = left]
    BY <1>5, <2>1 DEF BundleMeta, BundlerType
  <2>3. /\ held \in Origin /\ held.meta = origin[s].meta /\ held.data = bundler.holds[s].data
        /\ bundler.holds[s].data # None
    <3>1. bundler.holds[s] \in Origin /\ origin[s] \in Origin
      BY <1>a, <2>1 DEF BundlerType
    <3>2. bundler.holds[s].data # None
      BY <1>5 DEF BundleMeta
    <3> QED
      BY <3>1, <3>2 DEF Origin
  <2>4. /\ holds \in [Sources -> Origin] /\ left \in SUBSET Sources
        /\ \A t \in Sources : holds[t] = IF t = s THEN held ELSE bundler.holds[t]
    BY <2>1, <2>3 DEF BundlerType
  <2> HIDE DEF holds, left, held
  <2>5. /\ bundler' \in BundlerType /\ bundler'.holds = holds
        /\ bundler'.overlapped = bundler.overlapped
    BY <2>1, <2>2, <2>4 DEF BundlerType
  <2>6. ~bundler.overlapped => \A t \in Sources : Carried(t)'
    <3> SUFFICES ASSUME ~bundler.overlapped, NEW t \in Sources PROVE Carried(t)'
      OBVIOUS
    <3>1. Carried(t)
      BY <2>1 DEF IInv, BundlerOK
    <3>2. CASE t # s
      BY <1>1, <2>4, <2>5, <3>1, <3>2 DEF Carried
    <3>3. CASE t = s
      BY <1>1, <2>3, <2>4, <2>5, <3>1, <3>3 DEF Carried
    <3> QED
      BY <3>2, <3>3
  <2>7. BundlerOK'
    BY <1>1, <2>1, <2>5, <2>6 DEF IInv, BundlerOK
  <2>8. tar' = tar
    BY <1>5 DEF BundleMeta
  <2> QED
    BY <1>1, <1>2, <2>7, <2>8, DestinationUnseen DEF IInv, TarOK, CompanionsNotNewer
<1>6. CASE BundleDone
  <2>1. bundler \in BundlerType /\ Sources # {}
    BY <1>6 DEF BundleDone, IInv, BundlerOK
  <2>2. tar' = [lists |-> bundler.lists, holds |-> bundler.holds,
                overlapped |-> bundler.overlapped]
    BY <1>6 DEF BundleDone
  <2>3. tar' \in TarType
    BY <2>1, <2>2 DEF BundlerType, TarType
  <2>4. ~bundler.overlapped => \A s \in Sources : bundler.holds[s].meta <= bundler.holds[s].data
    <3> SUFFICES ASSUME ~bundler.overlapped, NEW s \in Sources
                 PROVE  bundler.holds[s].meta <= bundler.holds[s].data
      OBVIOUS
    <3>1. Carried(s)
      BY <2>1, <1>6 DEF IInv, BundlerOK, BundleDone
    <3>2. origin[s].meta <= origin[s].data /\ 0 <= origin[s].data
      BY <1>a, Numbers DEF IInv, OriginOK, Origin
    <3> QED
      BY <3>1, <3>2 DEF Carried, None
  <2>5. TarOK'
    BY <2>1, <2>2, <2>3, <2>4 DEF TarOK, CompanionsNotNewer
  <2>6. BundlerOK'
    BY <1>6, Apart DEF BundleDone, BundlerOK
  <2> QED
    BY <1>1, <1>2, <2>5, <2>6, DestinationUnseen DEF IInv
<1>7. CASE BundleKilled
  <2>1. bundler' = Idle /\ tar' = tar
    BY <1>7 DEF BundleKilled
  <2> QED
    BY <1>1, <1>2, <2>1, Apart, DestinationUnseen DEF IInv, BundlerOK, TarOK, CompanionsNotNewer
<1> QED
  BY <1>3, <1>4, <1>5, <1>6, <1>7

-----------------------------------------------------------------------------
LEMMA ImportStartInv ==
    ASSUME IInv, NEW copy, NEW sameId \in BOOLEAN, copy \in Copies, ImportStart(copy, sameId)
    PROVE  IInv'
<1>1. tar # NoTar /\ tar \in TarType /\ Sources # {}
  BY DEF ImportStart, IInv, TarOK
<1>2. copy \in [Sources -> Files]
  <2>1. tar.holds \in [Sources -> Files]
    BY <1>1, Numbers DEF TarType, Origin, Files
  <2>2. CASE copy = tar.holds
    BY <2>1, <2>2
  <2>3. ASSUME NEW s \in Sources, NEW d \in {None, Bad}, copy = [tar.holds EXCEPT ![s].data = d]
        PROVE  copy \in [Sources -> Files]
    <3>1. [tar.holds[s] EXCEPT !.data = d] \in Files
      BY <2>1 DEF Files
    <3> QED
      BY <2>1, <2>3, <3>1
  <2> QED
    BY <2>2, <2>3 DEF Copies
<1>3. import' = [pc |-> "unpack", lists |-> tar.lists, copy |-> copy, name |-> "",
                 left |-> {s \in Sources : copy[s] # NoFiles}, quiet |-> TRUE]
  BY DEF ImportStart
<1>4. import' \in ImportType /\ import'.pc = "unpack"
  BY <1>1, <1>2, <1>3 DEF ImportType, TarType
<1>5. ImportOK'
  BY <1>1, <1>4 DEF ImportOK, Installing
<1>6. DestOK'
  BY Apart DEF ImportStart, IInv, DestOK
<1>7. UNCHANGED originVars
  BY DEF ImportStart
<1> QED
  BY <1>5, <1>6, <1>7, OriginUnseen DEF IInv

LEMMA UnpackInv == ASSUME IInv, NEW s \in Sources, Unpack(s) PROVE IInv'
<1>1. import \in ImportType /\ import.pc = "unpack" /\ Sources # {}
  BY DEF Unpack, IInv, ImportOK
<1>2. import' = [import EXCEPT !.left = import.left \ {s}]
  BY DEF Unpack
<1>3. import' \in ImportType /\ import'.pc = "unpack"
  BY <1>1, <1>2 DEF ImportType
<1>4. ImportOK'
  BY <1>1, <1>3 DEF ImportOK, Installing
<1>5. DestOK'
  <2>1. import.copy[s] \in Files /\ staging[s] \in Files
    BY <1>1 DEF ImportType, IInv, DestOK
  <2>2. [data |-> IF import.copy[s].data = None THEN staging[s].data ELSE import.copy[s].data,
         meta |-> IF import.copy[s].meta = None THEN staging[s].meta ELSE import.copy[s].meta]
          \in Files
    BY <2>1 DEF Files
  <2> QED
    BY <2>2 DEF Unpack, IInv, DestOK
<1>6. UNCHANGED originVars
  BY DEF Unpack
<1> QED
  BY <1>4, <1>5, <1>6, OriginUnseen DEF IInv

LEMMA AcceptInv == ASSUME IInv, Accept PROVE IInv'
<1>1. import \in ImportType /\ import.pc = "unpack" /\ Sources # {}
  BY DEF Accept, IInv, ImportOK
<1> DEFINE left == {s \in Sources : staging[s] # NoFiles} \cup {"manifest"}
<1>2. import' = [import EXCEPT !.pc = "install", !.left = left]
  BY DEF Accept
<1>3. /\ import' \in ImportType /\ import'.pc = "install" /\ import'.left = left
      /\ import'.lists = import.lists
  BY <1>1, <1>2 DEF ImportType
<1>4. UNCHANGED <<dest, staging, manifest>>
  BY DEF Accept
<1>5. \A s \in Sources : staging[s].data = import.lists[s]
  BY DEF Accept, Agrees
<1>6. \A s \in Sources : import.lists[s] # None => s \in left
  BY <1>5, Apart
<1>7. ImportOK'
  BY <1>1, <1>3, <1>4, <1>5, <1>6 DEF ImportOK, Installing, Renaming
<1>8. UNCHANGED originVars
  BY DEF Accept
<1> QED
  BY <1>4, <1>7, <1>8, OriginUnseen DEF IInv, DestOK

LEMMA RemoveInv == ASSUME IInv, NEW name \in Sources \cup {"manifest"}, Remove(name) PROVE IInv'
<1>1. /\ import \in ImportType /\ import.pc = "install" /\ Sources # {} /\ Installing
      /\ name \in import.left
  BY DEF Remove, IInv, ImportOK, Installing
<1>2. import' = [import EXCEPT !.pc = "rename", !.name = name, !.left = import.left \ {name}]
  BY DEF Remove
<1>3. /\ import' \in ImportType /\ import'.pc = "rename" /\ import'.left = import.left \ {name}
      /\ import'.lists = import.lists /\ import'.name = name /\ import'.quiet = import.quiet
  BY <1>1, <1>2 DEF ImportType
<1>4. /\ staging' = staging /\ UNCHANGED originVars
      /\ \/ name = "manifest" /\ dest' = dest
         \/ name \in Sources /\ dest' = [dest EXCEPT ![name] = NoFiles] /\ manifest' = manifest
  BY SnapshotsAssumption DEF Remove
<1>5. DestOK'
  <2>1. NoFiles.data # Bad
    BY Apart, Numbers
  <2> QED
    BY <1>4, <2>1, Apart DEF IInv, DestOK
<1>6. \A s \in Sources : s # name => dest'[s] = dest[s]
  BY <1>4 DEF IInv, DestOK
<1>7. /\ \A s \in Sources : s \in import'.left \/ Renaming(s)' => staging'[s].data = import'.lists[s]
      /\ import'.quiet =>
           \A s \in Sources : import'.lists[s] # None =>
             s \in import'.left \/ Renaming(s)' \/ dest'[s].data = import'.lists[s]
      /\ "manifest" \in import'.left \/ Renaming("manifest")' \/ manifest' = import'.lists
  <2>1. \A s : Renaming(s)' <=> s = name
    BY <1>3 DEF Renaming
  <2>2. \A s : ~Renaming(s)
    BY <1>1 DEF Renaming
  <2>3. \A s \in Sources : s \in import'.left \/ Renaming(s)' => staging'[s].data = import'.lists[s]
    BY <1>1, <1>3, <1>4, <2>1 DEF IInv, ImportOK
  <2>4. ASSUME import'.quiet, NEW s \in Sources, import'.lists[s] # None
        PROVE  s \in import'.left \/ Renaming(s)' \/ dest'[s].data = import'.lists[s]
    <3>1. s \in import.left \/ dest[s].data = import.lists[s]
      BY <1>1, <1>3, <2>2, <2>4 DEF IInv, ImportOK
    <3> QED
      BY <1>3, <1>6, <2>1, <3>1
  <2>5. "manifest" \in import.left \/ manifest = import.lists
    BY <1>1, <2>2 DEF IInv, ImportOK
  <2> QED
    BY <1>3, <1>4, <2>1, <2>3, <2>4, <2>5
<1>8. ImportOK'
  BY <1>1, <1>3, <1>7 DEF ImportOK
<1> QED
  BY <1>4, <1>5, <1>8, OriginUnseen DEF IInv

LEMMA RenameInv == ASSUME IInv, Rename PROVE IInv'
<1>1. /\ import \in ImportType /\ import.pc = "rename" /\ Sources # {} /\ Installing
      /\ import.name \in Sources \cup {"manifest"}
  BY DEF Rename, IInv, ImportOK, Installing, ImportType
<1> DEFINE next == IF import.left = {} THEN "done" ELSE "install"
<1>2. import' = [import EXCEPT !.pc = next]
  BY DEF Rename
<1>3. /\ import' \in ImportType /\ import'.pc = next /\ import'.left = import.left
      /\ import'.lists = import.lists /\ import'.name = import.name
      /\ import'.quiet = import.quiet
  BY <1>1, <1>2 DEF ImportType
<1>4. /\ UNCHANGED originVars
      /\ \/ /\ import.name = "manifest" /\ manifest' = import.lists
            /\ UNCHANGED <<dest, staging>>
         \/ /\ import.name \in Sources /\ manifest' = manifest
            /\ dest' = [dest EXCEPT ![import.name] = staging[import.name]]
            /\ staging' = [staging EXCEPT ![import.name] = NoFiles]
  BY <1>1 DEF Rename
<1>5. \A s : (Renaming(s) <=> s = import.name) /\ ~Renaming(s)'
  BY <1>1, <1>3 DEF Renaming
<1>6. /\ import.name \in Sources => staging[import.name].data = import.lists[import.name]
      /\ \A s \in Sources : s \in import.left => staging[s].data = import.lists[s]
  BY <1>1, <1>5 DEF IInv, ImportOK
<1>a. import.lists \in [Sources -> Data]
  BY <1>1 DEF ImportType
<1>7. DestOK'
  <2>1. CASE import.name = "manifest"
    BY <1>4, <2>1, SnapshotsAssumption DEF IInv, DestOK
  <2>2. CASE import.name \in Sources
    <3>1. import.lists[import.name] # Bad
      BY <1>a, <2>2, Numbers
    <3>2. /\ dest' = [dest EXCEPT ![import.name] = staging[import.name]]
          /\ staging' = [staging EXCEPT ![import.name] = NoFiles]
      BY <1>4, <2>2, SnapshotsAssumption
    <3> QED
      BY <1>6, <2>2, <3>1, <3>2, Apart DEF IInv, DestOK
  <2> QED
    BY <1>1, <2>1, <2>2
<1>8. \A s \in Sources \ {import.name} : staging'[s] = staging[s] /\ dest'[s] = dest[s]
  BY <1>4 DEF IInv, DestOK
<1>9. import.name \in Sources => dest'[import.name].data = import.lists[import.name]
  BY <1>4, <1>6, SnapshotsAssumption DEF IInv, DestOK
<1>10. import.name \notin import.left
  BY <1>1 DEF IInv, ImportOK
<1>11. \A s \in Sources : s \in import'.left \/ Renaming(s)' => staging'[s].data = import'.lists[s]
  BY <1>3, <1>5, <1>6, <1>8, <1>10
<1>12. ASSUME import'.quiet, NEW s \in Sources, import'.lists[s] # None
       PROVE  s \in import'.left \/ Renaming(s)' \/ dest'[s].data = import'.lists[s]
  <2>1. s \in import.left \/ s = import.name \/ dest[s].data = import.lists[s]
    BY <1>1, <1>3, <1>5, <1>12 DEF IInv, ImportOK
  <2> QED
    BY <1>3, <1>8, <1>9, <2>1
<1>13. "manifest" \in import'.left \/ Renaming("manifest")' \/ manifest' = import'.lists
  <2>1. "manifest" \in import.left \/ import.name = "manifest" \/ manifest = import.lists
    BY <1>1, <1>5 DEF IInv, ImportOK
  <2> QED
    BY <1>1, <1>3, <1>4, <2>1, SnapshotsAssumption
<1>14. /\ import'.pc # "rename"
       /\ import'.pc = "done" => import'.left = {}
  BY <1>3
<1>15. ImportOK'
  BY <1>1, <1>3, <1>11, <1>12, <1>13, <1>14 DEF ImportOK
<1> QED
  BY <1>4, <1>7, <1>15, OriginUnseen DEF IInv

LEMMA LeaveInv ==
    ASSUME IInv, Refuse \/ ImportExit \/ \E cleans \in BOOLEAN : ImportStops(cleans)
    PROVE  IInv'
<1>1. /\ UNCHANGED originVars /\ import' = Idle /\ dest' = dest
      /\ staging' = Nothing \/ staging' = staging
  BY DEF Refuse, ImportExit, ImportStops
<1>2. ImportOK'
  BY <1>1, Apart DEF ImportOK
<1>3. DestOK'
  BY <1>1, Apart DEF IInv, DestOK
<1> QED
  BY <1>1, <1>2, <1>3, OriginUnseen DEF IInv

LEMMA LocalWriteInv == ASSUME IInv, NEW s \in Sources, LocalWrite(s) PROVE IInv'
<1>1. UNCHANGED originVars /\ UNCHANGED <<manifest, staging>> /\ import' = Disturbed(import)
  BY DEF LocalWrite
<1>2. PICK meta \in {dest[s].meta, Local} :
        dest' = [dest EXCEPT ![s] = [data |-> Local, meta |-> meta]]
  BY DEF LocalWrite
<1>3. [data |-> Local, meta |-> meta] \in Files
  BY <1>2 DEF IInv, DestOK, Files
<1>4. DestOK'
  <2>1. dest' \in [Sources -> Files]
    BY <1>2, <1>3 DEF IInv, DestOK
  <2>2. \A t \in Sources : dest'[t].data = Local \/ dest'[t] = dest[t]
    BY <1>2 DEF IInv, DestOK
  <2> QED
    BY <1>1, <2>1, <2>2, Numbers DEF IInv, DestOK
<1>5. ImportOK'
  <2>1. CASE import.pc = "idle"
    BY <1>1, <2>1 DEF Disturbed, ImportOK
  <2>2. CASE import.pc # "idle"
    <3>1. import' = [import EXCEPT !.quiet = FALSE] /\ import \in ImportType
      BY <1>1, <2>2 DEF Disturbed, IInv, ImportOK
    <3>2. /\ import' \in ImportType /\ ~import'.quiet
          /\ import'.pc = import.pc /\ import'.left = import.left
          /\ import'.lists = import.lists /\ import'.name = import.name
      BY <3>1 DEF ImportType
    <3> QED
      BY <1>1, <2>2, <3>2 DEF IInv, ImportOK, Installing, Renaming
  <2> QED
    BY <2>1, <2>2
<1> QED
  BY <1>1, <1>4, <1>5, OriginUnseen DEF IInv

LEMMA StepInv == IInv /\ [Next]_vars => IInv'
<1> SUFFICES ASSUME IInv, [Next]_vars PROVE IInv'
  OBVIOUS
<1>1. CASE \/ \E s \in Sources : SyncData(s) \/ SyncMeta(s)
           \/ SyncKilled
  BY <1>1, SyncInv
<1>2. CASE \/ BundleStart \/ BundleDone \/ BundleKilled
           \/ \E s \in Sources : BundleData(s) \/ BundleMeta(s)
  BY <1>2, BundleInv
<1>3. ASSUME NEW copy \in Copies, NEW sameId \in BOOLEAN, ImportStart(copy, sameId) PROVE IInv'
  BY <1>3, ImportStartInv
<1>4. CASE Import
  <2>1. tar.holds \in Copies
    BY DEF Copies
  <2> QED
    BY <1>3, <1>4, <2>1, UnpackInv, AcceptInv, LeaveInv, RemoveInv, RenameInv DEF Import
<1>5. CASE \E cleans \in BOOLEAN : ImportStops(cleans)
  BY <1>5, LeaveInv
<1>6. CASE \E s \in Sources : LocalWrite(s)
  BY <1>6, LocalWriteInv
<1>7. CASE UNCHANGED vars
  <2>1. UNCHANGED originVars /\ UNCHANGED destVars
    BY <1>7 DEF vars, originVars, destVars
  <2> QED
    BY <2>1, OriginUnseen, DestinationUnseen DEF IInv
<1> QED
  BY <1>1, <1>2, <1>3, <1>4, <1>5, <1>6, <1>7 DEF Next

\* The inductive invariant holds of every behaviour.
LEMMA Inductive == Spec => []IInv
<1>1. Init => IInv
  BY InitInv
<1> QED
  BY <1>1, StepInv, PTL DEF Spec

-----------------------------------------------------------------------------
\* install of snapshot.rs, for any bundle, copy and left-over staging directory: no damaged
\* file reaches the data, and what is still to be installed is what the manifest lists.
THEOREM DamagedNeverInstalled == Spec => []DamagedReplacesNothing
<1>1. IInv => DamagedReplacesNothing
  <2> SUFFICES ASSUME IInv PROVE DamagedReplacesNothing
    OBVIOUS
  <2>1. ASSUME import.pc \in {"install", "rename"}, NEW s \in import.left \ {"manifest"}
        PROVE  staging[s].data = import.lists[s]
    <3>1. s \in Sources /\ Installing /\ import.pc # "idle"
      BY <2>1 DEF IInv, ImportOK, ImportType, Installing
    <3> QED
      BY <2>1, <3>1 DEF IInv, ImportOK
  <2> QED
    BY <2>1 DEF DamagedReplacesNothing, IInv, DestOK
<1> QED
  BY <1>1, Inductive, PTL

\* run_db_import: an import that ends with nobody else writing leaves every source its
\* manifest lists in place and the manifest beside it, and a pinned scan accepts that.
THEOREM ImportsWhole == Spec => []ImportedWhole
<1>1. IInv => ImportedWhole
  <2> SUFFICES ASSUME IInv, import.pc = "done", import.quiet PROVE
        /\ manifest = import.lists
        /\ \A s \in Sources : import.lists[s] # None => dest[s].data = import.lists[s]
        /\ PinAccepts \/ \E s \in Sources : import.lists[s] = None /\ dest[s].data # None
    BY DEF ImportedWhole
  <2>1. /\ import \in ImportType /\ Sources # {} /\ Installing /\ import.left = {}
    BY DEF IInv, ImportOK, Installing
  <2>2. \A s : ~Renaming(s)
    BY DEF Renaming
  <2>3. manifest = import.lists
    BY <2>1, <2>2 DEF IInv, ImportOK
  <2>4. \A s \in Sources : import.lists[s] # None => dest[s].data = import.lists[s]
    BY <2>1, <2>2 DEF IInv, ImportOK
  <2>5. manifest # NoManifest
    <3>1. PICK s \in Sources : TRUE
      BY <2>1
    <3>2. import.lists[s] \in Data
      BY <2>1 DEF ImportType
    <3>3. NoManifest[s] = Bad
      BY DEF NoManifest
    <3> QED
      BY <2>3, <3>2, <3>3, Numbers
  <2> QED
    BY <2>3, <2>4, <2>5 DEF PinAccepts, Agrees
<1> QED
  BY <1>1, Inductive, PTL

\* build of snapshot.rs beside install_file: in a bundle made while nothing synced, no
\* companion tells of newer data than it travels with, killed syncs before it included.
THEOREM CompanionsHonest == Spec => []CompanionsNotNewer
<1>1. IInv => CompanionsNotNewer
  <2>1. ASSUME tar = NoTar PROVE CompanionsNotNewer
    BY <2>1, Apart DEF CompanionsNotNewer, NoTar, Nothing, NoFiles, None
  <2> QED
    BY <2>1 DEF IInv, TarOK
<1> QED
  BY <1>1, Inductive, PTL

\* The shapes of the directories, for any sources and versions.
THEOREM TypeCorrect == Spec => []TypeOK
<1>1. IInv => TypeOK
  <2> SUFFICES ASSUME IInv PROVE TypeOK
    OBVIOUS
  <2>1. origin \in [Sources -> Files]
    <3>1. Origin \subseteq Files
      BY Numbers DEF Origin, Files
    <3> QED
      BY <3>1 DEF IInv, OriginOK
  <2>2. tar.holds \in [Sources -> Files]
    <3>1. CASE tar = NoTar
      BY <3>1, Apart DEF NoTar
    <3>2. CASE tar # NoTar
      BY <3>2, Numbers DEF IInv, TarOK, TarType, Origin, Files
    <3> QED
      BY <3>1, <3>2
  <2> QED
    BY <2>1, <2>2 DEF TypeOK, IInv, OriginOK, DestOK
<1> QED
  BY <1>1, Inductive, PTL
=============================================================================
