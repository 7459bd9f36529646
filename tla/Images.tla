------------------------------- MODULE Images -------------------------------
(***************************************************************************)
(* The disks behind every VM: the golden image of the workstation, built   *)
(* locally or pulled from the hub, and the generations of golden templates *)
(* built over it.  Each job may fail or be killed between any two steps.   *)
(*                                                                         *)
(* An image is the number of the build that made it, 0 is a missing file;  *)
(* equal numbers stand for equal digests.  The checkout is the version of  *)
(* the sources that golden_build_input_sha256 hashes; made[i].from are the *)
(* versions that were there while image i was built.                       *)
(***************************************************************************)
EXTENDS Integers

CONSTANTS
    MaxVersion,        \* versions of the checkout
    MaxImages,         \* golden images ever built
    MaxGenerations     \* template generations ever built

ASSUME ImagesAssumption ==
    /\ MaxVersion \in Nat \ {0}
    /\ MaxImages \in Nat
    /\ MaxGenerations \in Nat

VARIABLES
    checkout,          \* version of the sources
    made,              \* what went into each image, and what its provenance says
    disk,              \* the installed image, its provenance, its manifests
    hub,               \* the image under the tag of each version
    job,               \* the run of image/build.py
    maker,             \* the run of build_swe_gym_lite_templates.py
    generations,       \* directories under generations/
    registry           \* the generation in registry.json

imagesVars == <<checkout, made, disk, hub, job, maker, generations, registry>>

Versions == 1..MaxVersion
Images == 1..MaxImages

Modes == {"install", "local", "publish"}
JobStages == {"idle", "check", "discard", "provenance", "fetch", "image",
              "record", "manifests", "verify", "push"}
MakerStages == {"idle", "common", "replay", "manifest", "rename", "validate",
                "register", "back"}

NoGeneration == [id |-> 0, overlay |-> 0, base |-> 0, replayed |-> FALSE]
Generation == [id : 0..MaxGenerations, overlay : 0..MaxImages,
               base : 0..MaxImages, replayed : BOOLEAN]

ImagesTypeOK ==
    /\ checkout \in Versions
    /\ made \in [Images -> [from : SUBSET Versions, stamp : 0..MaxVersion]]
    /\ disk \in [image : 0..MaxImages, provenance : 0..MaxImages, manifests : 0..MaxImages]
    /\ hub \in [Versions -> 0..MaxImages]
    /\ job \in [at : JobStages, mode : Modes, image : 0..MaxImages]
    /\ maker \in [at : MakerStages, gen : Generation]
    /\ generations \subseteq Generation
    /\ registry \in 0..MaxGenerations

ImagesInit ==
    /\ checkout = 1
    /\ made = [i \in Images |-> [from |-> {}, stamp |-> 0]]
    /\ disk = [image |-> 0, provenance |-> 0, manifests |-> 0]
    /\ hub = [v \in Versions |-> 0]
    /\ job = [at |-> "idle", mode |-> "install", image |-> 0]
    /\ maker = [at |-> "idle", gen |-> NoGeneration]
    /\ generations = {}
    /\ registry = 0

----------------------------------------------------------------------------
(* The golden image. *)

\* The digests of provenance, manifests and image agree, and the stamp is
\* that of the checkout.
Verifies(d) ==
    /\ d.provenance # 0
    /\ made[d.provenance].stamp = checkout
    /\ d.manifests = d.provenance
    /\ d.image = d.provenance

JobTo(stage) == job' = [job EXCEPT !.at = stage]

JobStart(mode) ==
    /\ job.at = "idle"
    /\ job' = [at |-> "check", mode |-> mode, image |-> 0]
    /\ UNCHANGED <<checkout, made, disk, hub, maker, generations, registry>>

\* mutant: a build always starts over
JobCheck_StartsOver ==
    /\ job.at = "check"
    /\ JobTo(IF disk.image = 0 THEN "fetch" ELSE "discard")
    /\ UNCHANGED <<checkout, made, disk, hub, maker, generations, registry>>

\* A verified image is kept, any other is discarded.
JobCheck ==
    /\ job.at = "check"
    /\ JobTo(IF disk.image = 0 THEN "fetch"
             ELSE IF ~Verifies(disk) THEN "discard"
             ELSE IF job.mode = "publish" THEN "verify" ELSE "idle")
    /\ UNCHANGED <<checkout, made, disk, hub, maker, generations, registry>>

DiscardImage ==
    /\ job.at = "discard"
    /\ disk' = [disk EXCEPT !.image = 0]
    /\ JobTo("provenance")
    /\ UNCHANGED <<checkout, made, hub, maker, generations, registry>>

DiscardProvenance ==
    /\ job.at = "provenance"
    /\ disk' = [disk EXCEPT !.provenance = 0, !.manifests = 0]
    /\ JobTo("fetch")
    /\ UNCHANGED <<checkout, made, hub, maker, generations, registry>>

\* docker pull by the tag of the checkout; the staged copy must verify.
Pull ==
    /\ job.at = "fetch" /\ job.mode = "install"
    /\ hub[checkout] # 0
    /\ made[hub[checkout]].stamp = checkout
    /\ job' = [job EXCEPT !.at = "image", !.image = hub[checkout]]
    /\ UNCHANGED <<checkout, made, disk, hub, maker, generations, registry>>

\* Customise and boot a guest.  The package manifests go to their places
\* before the image does.
Provision ==
    /\ job.at = "fetch" /\ job.mode # "install"
    /\ \E i \in Images :
        /\ made[i].from = {}
        /\ \A j \in 1..(i - 1) : made[j].from # {}
        /\ made' = [made EXCEPT ![i].from = {checkout}]
        /\ disk' = [disk EXCEPT !.manifests = i]
        /\ job' = [job EXCEPT !.at = "image", !.image = i]
    /\ UNCHANGED <<checkout, hub, maker, generations, registry>>

PlaceImage ==
    /\ job.at = "image"
    /\ disk' = [disk EXCEPT !.image = job.image]
    /\ JobTo("record")
    /\ UNCHANGED <<checkout, made, hub, maker, generations, registry>>

\* A local build hashes the inputs again, and writes what it finds.
PlaceProvenance ==
    /\ job.at = "record"
    /\ disk' = [disk EXCEPT !.provenance = job.image]
    /\ made' = IF job.mode = "install" THEN made
               ELSE [made EXCEPT ![job.image].stamp = checkout]
    /\ JobTo(IF job.mode = "install" THEN "manifests" ELSE "verify")
    /\ UNCHANGED <<checkout, hub, maker, generations, registry>>

PlaceManifests ==
    /\ job.at = "manifests"
    /\ disk' = [disk EXCEPT !.manifests = job.image]
    /\ JobTo("verify")
    /\ UNCHANGED <<checkout, made, hub, maker, generations, registry>>

JobVerify ==
    /\ job.at = "verify"
    /\ JobTo(IF job.mode = "publish" /\ Verifies(disk) THEN "push" ELSE "idle")
    /\ UNCHANGED <<checkout, made, disk, hub, maker, generations, registry>>

\* publish_image hashes the sources once more for the tag, after it has
\* verified, and never replaces a tag.
Push ==
    /\ job.at = "push"
    /\ hub' = IF hub[checkout] = 0
              THEN [hub EXCEPT ![checkout] = disk.image] ELSE hub
    /\ JobTo("idle")
    /\ UNCHANGED <<checkout, made, disk, maker, generations, registry>>

\* The network, a full disk, the guest, or a signal.
JobFails ==
    /\ job.at # "idle"
    /\ JobTo("idle")
    /\ UNCHANGED <<checkout, made, disk, hub, maker, generations, registry>>

\* The sources change, maybe under a build that has not hashed them yet; the
\* operator lets a template build end before.
Unstamped == IF job.at \in {"image", "record"} /\ job.mode # "install"
             THEN {job.image} ELSE {}

Edit ==
    /\ maker.at = "idle"
    /\ checkout < MaxVersion
    /\ checkout' = checkout + 1
    /\ made' = [i \in Images |-> IF i \in Unstamped
                                 THEN [made[i] EXCEPT !.from = @ \union {checkout'}]
                                 ELSE made[i]]
    /\ UNCHANGED <<disk, hub, job, maker, generations, registry>>

----------------------------------------------------------------------------
(* Template generations. *)

MakerTo(stage) == maker' = [maker EXCEPT !.at = stage]

\* select reads every disk of the chain: the base must be the recorded one.
Selectable(g) ==
    /\ g \in generations
    /\ g.base # 0
    /\ g.base = disk.image

\* One build at a time (build.lock), over a verified golden image.
MakerStart ==
    /\ maker.at = "idle"
    /\ Verifies(disk)
    /\ maker' = [at |-> "common", gen |-> NoGeneration]
    /\ UNCHANGED <<checkout, made, disk, hub, job, generations, registry>>

BuildCommon ==
    /\ maker.at = "common"
    /\ disk.image # 0
    /\ maker' = [at |-> "replay", gen |-> [maker.gen EXCEPT !.overlay = disk.image]]
    /\ UNCHANGED <<checkout, made, disk, hub, job, generations, registry>>

\* Every task is set up once with network, and replayed from its cache in a
\* fresh guest without.
ReplayTasks ==
    /\ maker.at = "replay"
    /\ disk.image # 0
    /\ maker' = [at |-> "manifest", gen |-> [maker.gen EXCEPT !.replayed = TRUE]]
    /\ UNCHANGED <<checkout, made, disk, hub, job, generations, registry>>

\* The digest of the base is taken here, long after the overlay was made.
\* The identity of a generation is the digest of its content: a new one.
WriteManifest ==
    /\ maker.at = "manifest"
    /\ disk.image # 0 /\ disk.provenance # 0
    /\ \E id \in 1..MaxGenerations :
        /\ \A g \in generations : g.id # id
        /\ maker' = [at |-> "rename",
                     gen |-> [maker.gen EXCEPT !.id = id, !.base = disk.image]]
    /\ UNCHANGED <<checkout, made, disk, hub, job, generations, registry>>

RenameGeneration ==
    /\ maker.at = "rename"
    /\ generations' = generations \union {maker.gen}
    /\ MakerTo("validate")
    /\ UNCHANGED <<checkout, made, disk, hub, job, registry>>

ValidateGeneration ==
    /\ maker.at = "validate"
    /\ MakerTo(IF Selectable(maker.gen) THEN "register" ELSE "back")
    /\ UNCHANGED <<checkout, made, disk, hub, job, generations, registry>>

\* The directory goes back to its staging name.
TakeBack ==
    /\ maker.at \in {"validate", "back"}
    /\ generations' = generations \ {maker.gen}
    /\ MakerTo("idle")
    /\ UNCHANGED <<checkout, made, disk, hub, job, registry>>

\* registry.json is replaced by a rename.
Register ==
    /\ maker.at = "register"
    /\ registry' = maker.gen.id
    /\ MakerTo("idle")
    /\ UNCHANGED <<checkout, made, disk, hub, job, generations>>

\* Failed stages are kept.
MakerFails ==
    /\ maker.at # "idle"
    /\ MakerTo("idle")
    /\ UNCHANGED <<checkout, made, disk, hub, job, generations, registry>>

ImagesNext ==
    \/ \E mode \in Modes : JobStart(mode)
    \/ JobCheck \/ DiscardImage \/ DiscardProvenance \/ Pull \/ Provision
    \/ PlaceImage \/ PlaceProvenance \/ PlaceManifests \/ JobVerify \/ Push
    \/ JobFails \/ Edit
    \/ MakerStart \/ BuildCommon \/ ReplayTasks \/ WriteManifest
    \/ RenameGeneration \/ ValidateGeneration \/ TakeBack \/ Register \/ MakerFails

ImagesSpec == ImagesInit /\ [][ImagesNext]_imagesVars

----------------------------------------------------------------------------
(* Properties. *)

\* Whatever was interrupted, the registry names a generation that exists,
\* whose tasks were all replayed, whose disks sit on the very base that its
\* manifest names, and the stamp of that base is a version of the sources
\* that its build has seen.
PublishedIsComplete ==
    registry # 0 =>
        \E g \in generations :
            /\ g.id = registry
            /\ g.replayed
            /\ g.overlay = g.base
            /\ made[g.base].stamp \in made[g.base].from

\* An image that verifies, built here or pulled from the hub, was built
\* while the sources were those of the checkout, also when they were edited
\* during a build or between the last look and the tag of the hub.
InstalledMatchesSources ==
    Verifies(disk) => checkout \in made[disk.image].from

ImagesSafe == ImagesTypeOK /\ PublishedIsComplete /\ InstalledMatchesSources

=============================================================================
