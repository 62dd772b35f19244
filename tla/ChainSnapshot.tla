--------------------------- MODULE ChainSnapshot ---------------------------
(***************************************************************************)
(* A day's snapshot of a node (chain-snapshot.mjs): stop, hash, tar, start *)
(* again, restore it offline to read its tips, seal; and its way through a *)
(* release (chain-snapshot-release.mjs): split, upload, mirror, join,      *)
(* verify.                                                                 *)
(*                                                                         *)
(* A data file holds the height it was written at; a hash is the content   *)
(* itself.  The root of a bundle is what its SHA256SUMS.txt lists.         *)
(* Docker, the node, GitHub and the mirrors are external.                  *)
(***************************************************************************)
EXTENDS Naturals, SequencesExt

CONSTANTS Tracked,      \* the L1 the node tracks: one data directory each
          MaxHeight,    \* bound: blocks accepted
          MaxCreates    \* bound: runs of create

ASSUME SnapshotConstants == {MaxHeight, MaxCreates} \subseteq Nat /\ "db" \notin Tracked

VARIABLES node,       \* [up, height, data: file -> height written, held: directories it has]
          create,     \* the run of create: [step, ...], step "none" between runs
          bundle,     \* the directory being filled, or sealed
          creates,
          assets,     \* the release: the local directory, then what a stranger downloads
          joined      \* what a join and verify accepted

snapVars == <<node, create, bundle, creates, assets, joined>>

Files == Tracked \cup {"db"}
Unset == [f \in Files |-> 0]
NoCreate == [step |-> "none"]
Empty == [sealed |-> FALSE, manifest |-> {}, hashes |-> Unset, taken |-> {}, tar |-> Unset,
          tips |-> Unset, uncovered |-> {}, allowed |-> FALSE]
NoAssets == [at |-> "none"]
NoJoin == [root |-> "none"]

SnapInit ==
  /\ node = [up |-> TRUE, height |-> 1, data |-> [f \in Files |-> 1], held |-> Files]
  /\ create = NoCreate /\ bundle = Empty /\ creates = 0 /\ assets = NoAssets /\ joined = NoJoin

-----------------------------------------------------------------------------
\* The source node: it accepts blocks, writes its files one by one, and is started by others too.
Accept ==
  /\ node.up /\ node.height < MaxHeight
  /\ \E f \in node.held : node' = [node EXCEPT !.height = @ + 1, !.data[f] = node.height + 1]
  /\ UNCHANGED <<create, bundle, creates, assets, joined>>

Flush(f) ==
  /\ node.up /\ node.data[f] < node.height
  /\ node' = [node EXCEPT !.data[f] = node.height]
  /\ UNCHANGED <<create, bundle, creates, assets, joined>>

OperatorStarts ==
  /\ ~node.up /\ node' = [node EXCEPT !.up = TRUE]
  /\ UNCHANGED <<create, bundle, creates, assets, joined>>

\* A subnet is put on the track list after the node last synced: no directory for it.
TracksLate(f) ==
  /\ creates = 0 /\ f \in Tracked \cap node.held
  /\ node' = [node EXCEPT !.held = @ \ {f}]
  /\ UNCHANGED <<create, bundle, creates, assets, joined>>

-----------------------------------------------------------------------------
\* create: the target must be empty, a running node is stopped only when asked to.
BeginCreate(stopStart, allow) ==
  /\ create = NoCreate /\ creates < MaxCreates /\ bundle = Empty /\ (node.up => stopStart)
  /\ creates' = creates + 1
  /\ create' = [step |-> "pack", wasStopped |-> node.up, allow |-> allow, source |-> node.height]
  /\ \/ node' = [node EXCEPT !.up = FALSE, !.data = [f \in Files |-> IF f \in node.held THEN node.height ELSE @[f]]]
     \/ node' = [node EXCEPT !.up = FALSE]                   \* killed at the time-out
  /\ UNCHANGED <<bundle, assets, joined>>

\* docker stop fails or times out before the try: what it did to the node stays.
StopFails ==
  /\ create = NoCreate /\ node.up /\ bundle = Empty /\ node' = [node EXCEPT !.up = FALSE]
  /\ UNCHANGED <<create, bundle, creates, assets, joined>>

\* The pack container: every file is hashed, then every file is copied.
HashData(f) ==
  /\ create.step = "pack" /\ f \in node.held \ bundle.manifest /\ bundle.taken = {}
  /\ bundle' = [bundle EXCEPT !.manifest = @ \cup {f}, !.hashes[f] = node.data[f]]
  /\ UNCHANGED <<node, create, creates, assets, joined>>

TarData(f) ==
  /\ create.step = "pack" /\ bundle.manifest = node.held /\ f \in node.held \ bundle.taken
  /\ bundle' = [bundle EXCEPT !.taken = @ \cup {f}, !.tar[f] = node.data[f]]
  /\ UNCHANGED <<node, create, creates, assets, joined>>

\* However pack ends (an identity-shaped file, a key in a text, a docker error), its finally
\* starts the node it stopped.
StartAgain == node' = [node EXCEPT !.up = @ \/ create.wasStopped]

PackEnds ==
  /\ create.step = "pack" /\ bundle.taken = node.held /\ StartAgain
  /\ create' = [create EXCEPT !.step = "drill"]
  /\ UNCHANGED <<bundle, creates, assets, joined>>

PackFails ==
  /\ create.step = "pack" /\ StartAgain /\ create' = NoCreate
  /\ UNCHANGED <<bundle, creates, assets, joined>>

\* drill: the tips are those a node restored from the bundle serves.
\* Mutant: the tips are those of the source node before it stopped.
TipsOf_Source(b) == [f \in Files |-> IF f \in b.taken THEN create.source ELSE 0]
TipsOf(b) == b.tar

\* Mutant: the restored files are not compared with the manifest.
Restores_Untested(b) == TRUE
Restores(b) == b.tar = b.hashes

Drill ==
  /\ create.step = "drill"
  /\ \/ /\ Restores(bundle)
        /\ bundle' = [bundle EXCEPT !.tips = TipsOf(bundle), !.uncovered = Tracked \ bundle.manifest]
        /\ create' = [create EXCEPT !.step = "seal"]
     \/ bundle' = bundle /\ create' = NoCreate        \* another binary, no boot, tips that move
  /\ UNCHANGED <<node, creates, assets, joined>>

\* A reference node serves blocks up to a height, of this chain or of another one.
Reference == [height : 0..MaxHeight, same : BOOLEAN]
Row(b, r, f) == IF r.height < b.tips[f] THEN "behind" ELSE IF r.same THEN "match" ELSE "MISMATCH"

\* One that disagrees stops it, and so do references that confirm no chain at all.
Agrees(b, refs) ==
  LET rows == {Row(b, r, f) : r \in refs, f \in Files} IN "MISMATCH" \notin rows /\ (refs # {} => "match" \in rows)

\* A tracked chain without data stops it too, unless the operator allows it.
MaySeal(b, refs) == (b.uncovered = {} \/ create.allow) /\ Agrees(b, refs)

Seal(refs) ==
  /\ create.step = "seal" /\ create' = NoCreate
  /\ bundle' = IF MaySeal(bundle, refs) THEN [bundle EXCEPT !.sealed = TRUE, !.allowed = create.allow] ELSE bundle
  /\ UNCHANGED <<node, creates, assets, joined>>

\* The tool is killed: no finally.  The operator clears a directory that is not sealed.
Killed ==
  /\ create.step # "none" /\ create' = NoCreate
  /\ UNCHANGED <<node, bundle, creates, assets, joined>>

ClearOut ==
  /\ create = NoCreate /\ ~bundle.sealed /\ bundle' = Empty /\ bundle # Empty
  /\ UNCHANGED <<node, create, creates, assets, joined>>

-----------------------------------------------------------------------------
\* The release.  "good" stands for the sealed bytes; a mirror may put "other" ones anywhere.
Contents == {"good", "other"}

\* pack: the small files in meta.tar, the data tar in parts, RELEASE.json and the sums of all.
PackRelease ==
  /\ bundle.sealed /\ assets = NoAssets
  /\ assets' = [at |-> "local", small |-> "good", sums |-> <<"good", "good">>,
                parts |-> <<"good", "good">>, release |-> <<"good", "good">>, listed |-> TRUE]
  /\ UNCHANGED <<node, create, bundle, creates, joined>>

\* upload reads the release back: what differs is refused, and a tag that exists is not touched.
Upload ==
  /\ assets.at = "local" /\ assets' = [assets EXCEPT !.at = "release"]
  /\ UNCHANGED <<node, create, bundle, creates, joined>>

\* Whoever serves the assets may replace any of them, and their checksums with them.
Mirror ==
  /\ assets.at = "release"
  /\ \E small \in Contents, sums, parts, release \in Contents \X Contents, listed \in BOOLEAN :
       assets' = [at |-> "mirror", small |-> small, sums |-> sums, parts |-> parts,
                  release |-> release, listed |-> listed]
  /\ UNCHANGED <<node, create, bundle, creates, joined>>

\* join: every asset is the listed one, the parts rebuild what RELEASE.json and the bundle's own
\* sums say; then verifyFiles, with the root the stranger holds or without.  `sums` lists the
\* small files and the tar: it is the root.
Rebuilt(a) == a.listed /\ a.parts = a.release /\ a.sums[2] = IF a.parts = <<"good", "good">> THEN "good" ELSE "other"
SelfConsistent(a) == a.sums[1] = a.small

\* Mutant: the root inside the release is taken.
RootAgrees_Own(a, root) == TRUE
RootAgrees(a, root) == root = "published" => a.sums = <<"good", "good">>

Join(root) ==
  /\ assets.at \in {"release", "mirror"} /\ joined = NoJoin
  /\ Rebuilt(assets) /\ SelfConsistent(assets) /\ RootAgrees(assets, root)
  /\ joined' = [root |-> root, small |-> assets.small, tar |-> assets.parts]
  /\ UNCHANGED <<node, create, bundle, creates, assets>>

SnapNext ==
  \/ Accept \/ OperatorStarts \/ PackEnds \/ PackFails \/ Drill \/ Killed \/ ClearOut
  \/ StopFails \/ \E refs \in {{}} \cup {{r} : r \in Reference} : Seal(refs)
  \/ PackRelease \/ Upload \/ Mirror
  \/ \E f \in Files : Flush(f) \/ TracksLate(f) \/ HashData(f) \/ TarData(f)
  \/ \E stopStart, allow \in BOOLEAN : BeginCreate(stopStart, allow)
  \/ \E root \in {"none given", "published"} : Join(root)

SnapSpec == SnapInit /\ [][SnapNext]_snapVars

-----------------------------------------------------------------------------
\* A sealed bundle records, chain by chain, the heights a stranger gets by restoring it, although
\* the node stopped late, was killed, or was started by somebody else while the files were taken;
\* and every tracked chain is in it unless the operator allowed one to be missing.
SealedIsWhatRestores ==
  bundle.sealed =>
    /\ bundle.tips = bundle.tar /\ bundle.tar = bundle.hashes
    /\ Tracked \subseteq bundle.taken \/ bundle.allowed

\* Whatever a mirror did to the assets and to the checksums that travel with them, what is joined
\* and verified against the root published elsewhere is the sealed bundle.
JoinedIsSealed == joined.root = "published" => joined.small = "good" /\ joined.tar = <<"good", "good">>
=============================================================================
