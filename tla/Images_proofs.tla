---------------------------- MODULE Images_proofs ----------------------------
(***************************************************************************)
(* Theorems about golden images and template generations, for any number   *)
(* of versions, images and generations.                                    *)
(***************************************************************************)
EXTENDS Images, TLAPS

\* What a provenance says was seen by its build, and nothing is from later.
StampsSeen ==
    \A i \in Images :
        /\ made[i].from \subseteq 1..checkout
        /\ made[i].stamp # 0 => made[i].stamp \in made[i].from

Placing == {"image", "record"}

\* What a run of image/build.py may rely on.  It discards only what does not
\* verify, and places an image only where there is none.
JobInv ==
    /\ job.at \in Placing =>
           /\ job.image # 0
           /\ job.mode = "install" => made[job.image].stamp # 0
           /\ job.mode # "install" =>
                  checkout \in made[job.image].from /\ disk.provenance # job.image
    /\ job.at = "discard" => ~Verifies(disk)
    /\ job.at \in {"provenance", "fetch", "image"} => disk.image = 0
    /\ job.at = "record" => disk.image = job.image
    /\ job.at = "manifests" => disk.image = job.image /\ disk.provenance = job.image
    /\ disk.provenance # 0 => made[disk.provenance].from # {}

\* A template build sits on a verified image until it ends.
MakerInv ==
    /\ maker.at # "idle" => Verifies(disk)
    /\ maker.at \notin {"idle", "common"} => maker.gen.overlay = disk.image
    /\ maker.at \notin {"idle", "common", "replay"} => maker.gen.replayed
    /\ maker.at \in {"rename", "validate", "register", "back"} =>
           /\ maker.gen.base = disk.image
           /\ registry # maker.gen.id
    /\ maker.at = "register" => maker.gen \in generations

Published ==
    registry # 0 =>
        \E g \in generations :
            /\ g.id = registry
            /\ g.replayed
            /\ g.overlay = g.base
            /\ g.base # 0 /\ made[g.base].stamp # 0

IInv == ImagesTypeOK /\ StampsSeen /\ JobInv /\ MakerInv /\ Published

----------------------------------------------------------------------------

\* A step of a job or of a template build keeps its type and the rest of it.
LEMMA JobTyped ==
    ASSUME IInv, NEW stage \in JobStages, JobTo(stage)
    PROVE  /\ job' \in [at : JobStages, mode : Modes, image : 0..MaxImages]
           /\ job'.at = stage /\ job'.mode = job.mode /\ job'.image = job.image
<1>1. job \in [at : JobStages, mode : Modes, image : 0..MaxImages]
    BY DEF IInv, ImagesTypeOK
<1> QED BY <1>1 DEF JobTo

LEMMA MakerTyped ==
    ASSUME IInv, NEW stage \in MakerStages, MakerTo(stage)
    PROVE  /\ maker' \in [at : MakerStages, gen : Generation]
           /\ maker'.at = stage /\ maker'.gen = maker.gen
<1>1. maker \in [at : MakerStages, gen : Generation]
    BY DEF IInv, ImagesTypeOK
<1> QED BY <1>1 DEF MakerTo

\* The steps that change neither the images nor what is installed.
LEMMA JobMoves ==
    ASSUME IInv, JobCheck \/ JobVerify \/ JobFails \/ \E mode \in Modes : JobStart(mode)
    PROVE  IInv'
<1>1. UNCHANGED <<checkout, made, disk, hub, maker, generations, registry>>
    BY DEF JobCheck, JobVerify, JobFails, JobStart
<1>2. /\ job' \in [at : JobStages, mode : Modes, image : 0..MaxImages]
      /\ job'.at \in {"idle", "check", "discard", "verify", "push"} \/ (job'.at = "fetch" /\ disk.image = 0)
      /\ job'.at = "discard" => ~Verifies(disk)
    <2>1. CASE \E mode \in Modes : JobStart(mode)
        <3>1. 0 \in 0..MaxImages
            BY ImagesAssumption
        <3> QED BY <2>1, <3>1 DEF JobStart, JobStages
    <2>2. CASE JobCheck
        <3>1. PICK stage \in {"idle", "discard", "fetch", "verify"} :
                  /\ JobTo(stage)
                  /\ stage = "fetch" => disk.image = 0
                  /\ stage = "discard" => ~Verifies(disk)
            BY <2>2 DEF JobCheck
        <3>2. stage \in JobStages
            BY DEF JobStages
        <3> QED BY <3>1, <3>2, JobTyped
    <2>3. CASE JobVerify \/ JobFails
        <3>1. PICK stage \in {"push", "idle"} : JobTo(stage)
            BY <2>3 DEF JobVerify, JobFails
        <3>2. stage \in JobStages
            BY DEF JobStages
        <3> QED BY <3>1, <3>2, JobTyped
    <2> QED BY <2>1, <2>2, <2>3
<1>3. ImagesTypeOK'
    BY <1>1, <1>2 DEF IInv, ImagesTypeOK
<1>4. StampsSeen' /\ Published' /\ MakerInv'
    BY <1>1 DEF IInv, StampsSeen, Published, MakerInv, Verifies
<1>5. JobInv'
    BY <1>1, <1>2 DEF IInv, JobInv, Placing, Verifies
<1> QED BY <1>3, <1>4, <1>5 DEF IInv

LEMMA Discards ==
    ASSUME IInv, DiscardImage \/ DiscardProvenance
    PROVE  IInv'
<1>1. UNCHANGED <<checkout, made, hub, maker, generations, registry>>
    BY DEF DiscardImage, DiscardProvenance
<1>2. /\ disk' \in [image : 0..MaxImages, provenance : 0..MaxImages, manifests : 0..MaxImages]
      /\ disk'.image = 0 /\ disk'.provenance \in {0, disk.provenance}
      /\ job' \in [at : JobStages, mode : Modes, image : 0..MaxImages]
      /\ job'.at \in {"provenance", "fetch"}
      /\ ~Verifies(disk)
    <2>1. disk \in [image : 0..MaxImages, provenance : 0..MaxImages, manifests : 0..MaxImages]
        BY DEF IInv, ImagesTypeOK
    <2>2. "provenance" \in JobStages /\ "fetch" \in JobStages
        BY DEF JobStages
    <2>3. CASE DiscardImage
        <3>1. ~Verifies(disk)
            BY <2>3 DEF IInv, JobInv, DiscardImage
        <3> QED BY <2>1, <2>2, <2>3, <3>1, JobTyped, ImagesAssumption DEF DiscardImage
    <2>4. CASE DiscardProvenance
        <3>1. disk.image = 0
            BY <2>4 DEF IInv, JobInv, DiscardProvenance
        <3> QED BY <2>1, <2>2, <2>4, <3>1, JobTyped, ImagesAssumption
                DEF DiscardProvenance, Verifies
    <2> QED BY <2>3, <2>4
<1>3. ImagesTypeOK'
    BY <1>1, <1>2 DEF IInv, ImagesTypeOK
<1>4. maker.at = "idle"
    BY <1>2 DEF IInv, MakerInv
<1>5. StampsSeen' /\ Published' /\ MakerInv'
    BY <1>1, <1>4 DEF IInv, StampsSeen, Published, MakerInv
<1>6. JobInv'
    BY <1>1, <1>2 DEF IInv, JobInv, Placing
<1> QED BY <1>3, <1>5, <1>6 DEF IInv

LEMMA PullStep ==
    ASSUME IInv, Pull
    PROVE  IInv'
<1>1. /\ UNCHANGED <<checkout, made, disk, hub, maker, generations, registry>>
      /\ job.at = "fetch" /\ job.mode = "install"
      /\ hub[checkout] # 0 /\ hub[checkout] \in 0..MaxImages
      /\ made[hub[checkout]].stamp = checkout /\ checkout \in Versions
      /\ job' = [job EXCEPT !.at = "image", !.image = hub[checkout]]
    BY DEF Pull, IInv, ImagesTypeOK
<1>2. /\ job' \in [at : JobStages, mode : Modes, image : 0..MaxImages]
      /\ job'.at = "image" /\ job'.mode = "install" /\ job'.image = hub[checkout]
    BY <1>1 DEF IInv, ImagesTypeOK, JobStages
<1>3. ImagesTypeOK'
    BY <1>1, <1>2 DEF IInv, ImagesTypeOK
<1>4. StampsSeen' /\ Published' /\ MakerInv'
    BY <1>1 DEF IInv, StampsSeen, Published, MakerInv, Verifies
<1>5. JobInv'
    BY <1>1, <1>2, ImagesAssumption DEF IInv, JobInv, Placing, Versions
<1> QED BY <1>3, <1>4, <1>5 DEF IInv

LEMMA ProvisionStep ==
    ASSUME IInv, Provision
    PROVE  IInv'
<1>1. PICK i \in Images :
          /\ made[i].from = {}
          /\ made' = [made EXCEPT ![i].from = {checkout}]
          /\ disk' = [disk EXCEPT !.manifests = i]
          /\ job' = [job EXCEPT !.at = "image", !.image = i]
    BY DEF Provision
<1>2. /\ UNCHANGED <<checkout, hub, maker, generations, registry>>
      /\ job.at = "fetch" /\ job.mode # "install" /\ disk.image = 0
      /\ checkout \in Versions /\ checkout \in 1..checkout
      /\ i # 0 /\ i \in 0..MaxImages
    BY ImagesAssumption DEF Provision, IInv, ImagesTypeOK, JobInv, Versions, Images
<1>3. /\ made' \in [Images -> [from : SUBSET Versions, stamp : 0..MaxVersion]]
      /\ made'[i].from = {checkout} /\ made'[i].stamp = made[i].stamp
      /\ \A j \in Images \ {i} : made'[j] = made[j]
    BY <1>1, <1>2 DEF IInv, ImagesTypeOK
<1>4. made[i].stamp = 0
    BY <1>1 DEF IInv, StampsSeen
<1>5. /\ disk' \in [image : 0..MaxImages, provenance : 0..MaxImages, manifests : 0..MaxImages]
      /\ disk'.image = 0 /\ disk'.provenance = disk.provenance
      /\ job' \in [at : JobStages, mode : Modes, image : 0..MaxImages]
      /\ job'.at = "image" /\ job'.mode = job.mode /\ job'.image = i
    BY <1>1, <1>2 DEF IInv, ImagesTypeOK, JobStages
<1>6. ImagesTypeOK'
    BY <1>2, <1>3, <1>5 DEF IInv, ImagesTypeOK
<1>7. StampsSeen'
    BY <1>2, <1>3, <1>4 DEF IInv, StampsSeen
<1>8. maker.at = "idle"
    BY <1>2 DEF IInv, MakerInv, Verifies
<1>9. MakerInv'
    BY <1>2, <1>8 DEF IInv, MakerInv
<1>10. Published'
    <2>1. \A g \in generations : g.base \in 0..MaxImages
        BY DEF IInv, ImagesTypeOK, Generation
    <2> QED BY <1>2, <1>3, <1>4, <2>1 DEF IInv, Published, Images
<1>11. JobInv'
    <2>1. disk.provenance # i
        BY <1>1, <1>2 DEF IInv, JobInv
    <2>2. disk.provenance # 0 => disk.provenance \in Images /\ made'[disk.provenance] = made[disk.provenance]
        BY <1>3, <2>1 DEF IInv, ImagesTypeOK, Images
    <2> QED BY <1>2, <1>3, <1>5, <2>1, <2>2 DEF IInv, JobInv, Placing
<1> QED BY <1>6, <1>7, <1>9, <1>10, <1>11 DEF IInv

\* The image appears where there was none: nobody builds templates.
LEMMA PlaceImageStep ==
    ASSUME IInv, PlaceImage
    PROVE  IInv'
<1>1. /\ UNCHANGED <<checkout, made, hub, maker, generations, registry>>
      /\ job.at = "image" /\ disk.image = 0
      /\ disk' = [disk EXCEPT !.image = job.image]
      /\ job' = [job EXCEPT !.at = "record"]
    BY DEF PlaceImage, JobTo, IInv, JobInv
<1>2. /\ disk' \in [image : 0..MaxImages, provenance : 0..MaxImages, manifests : 0..MaxImages]
      /\ disk'.image = job.image /\ disk'.provenance = disk.provenance
      /\ job' \in [at : JobStages, mode : Modes, image : 0..MaxImages]
      /\ job'.at = "record" /\ job'.mode = job.mode /\ job'.image = job.image
    BY <1>1 DEF IInv, ImagesTypeOK, JobStages
<1>3. ImagesTypeOK'
    BY <1>1, <1>2 DEF IInv, ImagesTypeOK
<1>4. maker.at = "idle"
    BY <1>1 DEF IInv, MakerInv, Verifies
<1>5. StampsSeen' /\ Published' /\ MakerInv'
    BY <1>1, <1>4 DEF IInv, StampsSeen, Published, MakerInv
<1>6. JobInv'
    BY <1>1, <1>2 DEF IInv, JobInv, Placing
<1> QED BY <1>3, <1>5, <1>6 DEF IInv

LEMMA PlaceProvenanceStep ==
    ASSUME IInv, PlaceProvenance
    PROVE  IInv'
<1> DEFINE p == job.image
<1>1. /\ UNCHANGED <<checkout, hub, maker, generations, registry>>
      /\ job.at = "record" /\ disk.image = p /\ p # 0 /\ p \in Images
      /\ disk' = [disk EXCEPT !.provenance = p]
      /\ made' = IF job.mode = "install" THEN made ELSE [made EXCEPT ![p].stamp = checkout]
      /\ job.mode # "install" => checkout \in made[p].from /\ disk.provenance # p
      /\ job.mode = "install" => made[p].stamp # 0
      /\ checkout \in Versions
    BY DEF PlaceProvenance, IInv, JobInv, Placing, ImagesTypeOK, Images
<1>2. /\ disk' \in [image : 0..MaxImages, provenance : 0..MaxImages, manifests : 0..MaxImages]
      /\ disk'.image = p /\ disk'.provenance = p /\ disk'.manifests = disk.manifests
      /\ job' \in [at : JobStages, mode : Modes, image : 0..MaxImages]
      /\ job'.at \in {"manifests", "verify"} /\ job'.image = p
    BY <1>1 DEF PlaceProvenance, JobTo, IInv, ImagesTypeOK, JobStages
<1> HIDE DEF p
<1>3. /\ made' \in [Images -> [from : SUBSET Versions, stamp : 0..MaxVersion]]
      /\ \A i \in Images : made'[i].from = made[i].from
      /\ \A i \in Images : made'[i].stamp \in {made[i].stamp, checkout}
      /\ \A i \in Images \ {p} : made'[i] = made[i]
      /\ job.mode = "install" => made' = made
      /\ job.mode # "install" => made'[p].stamp = checkout
    <2>1. /\ made \in [Images -> [from : SUBSET Versions, stamp : 0..MaxVersion]]
          /\ checkout \in 0..MaxVersion
        BY <1>1, ImagesAssumption DEF IInv, ImagesTypeOK, Versions
    <2>2. CASE job.mode = "install"
        BY <1>1, <2>1, <2>2
    <2>3. CASE job.mode # "install"
        BY <1>1, <2>1, <2>3
    <2> QED BY <2>2, <2>3
<1>4. ImagesTypeOK'
    BY <1>1, <1>2, <1>3 DEF IInv, ImagesTypeOK
<1>5. StampsSeen'
    BY <1>1, <1>3 DEF IInv, StampsSeen
<1>6. Published'
    <2>1. \A g \in generations : g.base \in 0..MaxImages
        BY DEF IInv, ImagesTypeOK, Generation
    <2> QED BY <1>1, <1>3, <2>1, ImagesAssumption DEF IInv, Published, Images, Versions
<1>7. maker.at # "idle" => disk' = disk /\ made' = made
    BY <1>1, <1>2, <1>3 DEF IInv, MakerInv, Verifies, ImagesTypeOK
<1>8. MakerInv'
    BY <1>1, <1>7 DEF IInv, MakerInv, Verifies
<1>9. JobInv'
    <2>1. made[p].from # {}
        BY <1>1 DEF IInv, StampsSeen
    <2> QED BY <1>1, <1>2, <1>3, <2>1 DEF IInv, JobInv, Placing
<1> QED BY <1>4, <1>5, <1>6, <1>8, <1>9 DEF IInv

LEMMA PlaceManifestsStep ==
    ASSUME IInv, PlaceManifests
    PROVE  IInv'
<1>1. /\ UNCHANGED <<checkout, made, hub, maker, generations, registry>>
      /\ disk.image = job.image /\ disk.provenance = job.image
      /\ disk' = [disk EXCEPT !.manifests = job.image]
      /\ job' = [job EXCEPT !.at = "verify"]
    BY DEF PlaceManifests, JobTo, IInv, JobInv
<1>2. /\ disk' \in [image : 0..MaxImages, provenance : 0..MaxImages, manifests : 0..MaxImages]
      /\ disk'.image = disk.image /\ disk'.provenance = disk.provenance
      /\ disk'.manifests = disk.provenance
      /\ job' \in [at : JobStages, mode : Modes, image : 0..MaxImages]
      /\ job'.at = "verify"
    BY <1>1 DEF IInv, ImagesTypeOK, JobStages
<1>3. ImagesTypeOK'
    BY <1>1, <1>2 DEF IInv, ImagesTypeOK
<1>4. StampsSeen' /\ Published' /\ MakerInv'
    BY <1>1, <1>2 DEF IInv, StampsSeen, Published, MakerInv, Verifies
<1>5. JobInv'
    BY <1>1, <1>2 DEF IInv, JobInv, Placing
<1> QED BY <1>3, <1>4, <1>5 DEF IInv

LEMMA PushStep ==
    ASSUME IInv, Push
    PROVE  IInv'
<1>1. /\ UNCHANGED <<checkout, made, disk, maker, generations, registry>>
      /\ hub' \in [Versions -> 0..MaxImages]
      /\ job' \in [at : JobStages, mode : Modes, image : 0..MaxImages]
      /\ job'.at = "idle"
    BY DEF Push, JobTo, JobStages, IInv, ImagesTypeOK
<1>2. ImagesTypeOK'
    BY <1>1 DEF IInv, ImagesTypeOK
<1>3. StampsSeen' /\ Published' /\ MakerInv'
    BY <1>1 DEF IInv, StampsSeen, Published, MakerInv, Verifies
<1>4. JobInv'
    BY <1>1 DEF IInv, JobInv, Placing
<1> QED BY <1>2, <1>3, <1>4 DEF IInv

\* An image that did not verify does not verify for a later version either.
LEMMA EditStep ==
    ASSUME IInv, Edit
    PROVE  IInv'
<1>1. /\ UNCHANGED <<disk, hub, job, maker, generations, registry>>
      /\ maker.at = "idle" /\ checkout' = checkout + 1
      /\ checkout \in Versions /\ checkout' \in Versions
      /\ 1..checkout \subseteq 1..checkout' /\ checkout' \in 1..checkout'
      /\ checkout' \notin 1..checkout /\ checkout' # 0
    BY ImagesAssumption DEF Edit, IInv, ImagesTypeOK, Versions
<1>2. /\ made' \in [Images -> [from : SUBSET Versions, stamp : 0..MaxVersion]]
      /\ \A i \in Images : /\ made'[i].stamp = made[i].stamp
                           /\ made[i].from \subseteq made'[i].from
                           /\ made'[i].from \subseteq made[i].from \union {checkout'}
                           /\ i \in Unstamped => checkout' \in made'[i].from
    BY <1>1 DEF Edit, IInv, ImagesTypeOK
<1>3. ImagesTypeOK'
    BY <1>1, <1>2 DEF IInv, ImagesTypeOK
<1>4. StampsSeen'
    BY <1>1, <1>2 DEF IInv, StampsSeen
<1>5. Published'
    <2>1. \A g \in generations : g.base \in 0..MaxImages
        BY DEF IInv, ImagesTypeOK, Generation
    <2> QED BY <1>1, <1>2, <2>1 DEF IInv, Published, Images
<1>6. MakerInv'
    BY <1>1 DEF IInv, MakerInv
<1>7. ~Verifies(disk)'
    <2>1. ASSUME disk.provenance # 0 PROVE made'[disk.provenance].stamp # checkout'
        <3>1. disk.provenance \in Images
            BY <2>1 DEF IInv, ImagesTypeOK, Images
        <3> QED BY <1>1, <1>2, <3>1 DEF IInv, StampsSeen
    <2> QED BY <1>1, <2>1 DEF Verifies
<1>8. JobInv'
    <2>1. ASSUME disk.provenance # 0 PROVE made'[disk.provenance].from # {}
        <3>1. disk.provenance \in Images
            BY <2>1 DEF IInv, ImagesTypeOK, Images
        <3> QED BY <1>2, <2>1, <3>1 DEF IInv, JobInv
    <2>2. ASSUME job.at \in Placing
          PROVE  /\ job.mode = "install" => made'[job.image].stamp # 0
                 /\ job.mode # "install" => checkout' \in made'[job.image].from
        <3>1. job.image \in Images /\ (job.mode = "install" => made[job.image].stamp # 0)
            BY <2>2 DEF IInv, JobInv, ImagesTypeOK, Images
        <3>2. job.mode # "install" => job.image \in Unstamped
            BY <2>2 DEF Unstamped, Placing
        <3> QED BY <1>2, <3>1, <3>2
    <2> QED BY <1>1, <1>7, <2>1, <2>2 DEF IInv, JobInv, Placing
<1> QED BY <1>3, <1>4, <1>5, <1>6, <1>8 DEF IInv

LEMMA MakerSteps ==
    ASSUME IInv,
           \/ MakerStart \/ BuildCommon \/ ReplayTasks \/ WriteManifest
           \/ RenameGeneration \/ ValidateGeneration \/ TakeBack \/ Register \/ MakerFails
    PROVE  IInv'
<1>1. UNCHANGED <<checkout, made, disk, hub, job>>
    BY DEF MakerStart, BuildCommon, ReplayTasks, WriteManifest, RenameGeneration,
           ValidateGeneration, TakeBack, Register, MakerFails
<1>2. StampsSeen' /\ JobInv' /\ (Verifies(disk) => Verifies(disk)')
    BY <1>1 DEF IInv, StampsSeen, JobInv, Placing, Verifies
<1>3. /\ maker \in [at : MakerStages, gen : Generation]
      /\ maker.gen.overlay \in 0..MaxImages /\ disk.image \in 0..MaxImages
      /\ NoGeneration \in Generation
    BY ImagesAssumption DEF IInv, ImagesTypeOK, Generation, NoGeneration
<1>4. CASE MakerStart \/ BuildCommon \/ ReplayTasks \/ MakerFails
    <2>1. UNCHANGED <<generations, registry>>
        BY <1>4 DEF MakerStart, BuildCommon, ReplayTasks, MakerFails
    <2>2. maker' \in [at : MakerStages, gen : Generation] /\ MakerInv'
        <3>1. CASE MakerStart
            BY <1>1, <1>2, <1>3, <3>1 DEF MakerInv, MakerStart, MakerStages
        <3>2. CASE BuildCommon
            <4>1. /\ maker.at = "common"
                  /\ maker' = [at |-> "replay", gen |-> [maker.gen EXCEPT !.overlay = disk.image]]
                BY <3>2 DEF BuildCommon
            <4>2. Verifies(disk)'
                BY <1>2, <4>1 DEF IInv, MakerInv
            <4>3. maker'.gen \in Generation /\ maker'.gen.overlay = disk.image
                BY <1>3, <4>1 DEF Generation
            <4> QED BY <1>1, <4>1, <4>2, <4>3 DEF MakerInv, MakerStages
        <3>3. CASE ReplayTasks
            <4>1. /\ maker.at = "replay"
                  /\ maker' = [at |-> "manifest", gen |-> [maker.gen EXCEPT !.replayed = TRUE]]
                BY <3>3 DEF ReplayTasks
            <4>2. Verifies(disk)' /\ maker.gen.overlay = disk.image
                BY <1>2, <4>1 DEF IInv, MakerInv
            <4>3. /\ maker'.gen \in Generation /\ maker'.gen.replayed
                  /\ maker'.gen.overlay = disk.image
                BY <1>3, <4>1, <4>2 DEF Generation
            <4> QED BY <1>1, <4>1, <4>2, <4>3 DEF MakerInv, MakerStages
        <3>4. CASE MakerFails
            <4>1. "idle" \in MakerStages /\ MakerTo("idle")
                BY <3>4 DEF MakerStages, MakerFails
            <4> QED BY <4>1, MakerTyped DEF MakerInv
        <3> QED BY <1>4, <3>1, <3>2, <3>3, <3>4
    <2> QED BY <1>1, <1>2, <2>1, <2>2 DEF IInv, ImagesTypeOK, Published
<1>5. CASE WriteManifest
    <2>1. PICK id \in 1..MaxGenerations :
              /\ \A g \in generations : g.id # id
              /\ maker' = [at |-> "rename",
                           gen |-> [maker.gen EXCEPT !.id = id, !.base = disk.image]]
        BY <1>5 DEF WriteManifest
    <2>2. UNCHANGED <<generations, registry>> /\ maker.at = "manifest"
        BY <1>5 DEF WriteManifest
    <2>3. /\ maker' \in [at : MakerStages, gen : Generation] /\ maker'.at = "rename"
          /\ maker'.gen.id = id /\ maker'.gen.base = disk.image
          /\ maker'.gen.overlay = maker.gen.overlay
          /\ maker'.gen.replayed = maker.gen.replayed
        <3>1. id \in 0..MaxGenerations
            BY <2>1, ImagesAssumption
        <3>2. maker.gen \in Generation /\ disk.image \in 0..MaxImages
            BY <1>3
        <3> DEFINE g == [maker.gen EXCEPT !.id = id, !.base = disk.image]
        <3>3. /\ g \in Generation /\ g.id = id /\ g.base = disk.image
              /\ g.overlay = maker.gen.overlay /\ g.replayed = maker.gen.replayed
            BY <3>1, <3>2 DEF Generation
        <3>4. maker'.at = "rename" /\ maker'.gen = g /\ maker' = [at |-> "rename", gen |-> g]
            BY <2>1
        <3> HIDE DEF g
        <3> QED BY <3>3, <3>4 DEF MakerStages
    <2>4. registry # id
        BY <2>1, ImagesAssumption DEF IInv, Published
    <2>5. MakerInv'
        BY <1>1, <1>2, <2>2, <2>3, <2>4 DEF IInv, MakerInv
    <2> QED BY <1>1, <1>2, <2>2, <2>3, <2>5 DEF IInv, ImagesTypeOK, Published
<1>6. CASE RenameGeneration \/ ValidateGeneration
    <2>1. /\ maker' \in [at : MakerStages, gen : Generation] /\ maker'.gen = maker.gen
          /\ maker.at \in {"rename", "validate"}
          /\ maker'.at \in {"validate", "register", "back"} /\ UNCHANGED registry
          /\ generations \subseteq generations' /\ generations' \subseteq generations \union {maker.gen}
          /\ maker'.at = "register" => maker.gen \in generations
        BY <1>3, <1>6
        DEF RenameGeneration, ValidateGeneration, MakerTo, MakerStages, Selectable
    <2>2. MakerInv'
        BY <1>1, <1>2, <2>1 DEF IInv, MakerInv
    <2>3. ImagesTypeOK' /\ Published'
        BY <1>1, <1>3, <2>1 DEF IInv, ImagesTypeOK, Published
    <2> QED BY <1>2, <2>2, <2>3 DEF IInv
<1>7. CASE TakeBack
    <2>1. /\ maker' \in [at : MakerStages, gen : Generation] /\ maker'.at = "idle"
          /\ maker.at \in {"validate", "back"} /\ UNCHANGED registry
          /\ generations' = generations \ {maker.gen}
        BY <1>3, <1>7 DEF TakeBack, MakerTo, MakerStages
    <2>2. registry # maker.gen.id
        BY <2>1 DEF IInv, MakerInv
    <2>3. ImagesTypeOK' /\ Published'
        BY <1>1, <2>1, <2>2 DEF IInv, ImagesTypeOK, Published
    <2> QED BY <1>2, <2>1, <2>3 DEF IInv, MakerInv
<1>8. CASE Register
    <2>1. /\ maker' \in [at : MakerStages, gen : Generation] /\ maker'.at = "idle"
          /\ maker.at = "register" /\ registry' = maker.gen.id /\ UNCHANGED generations
        BY <1>3, <1>8 DEF Register, MakerTo, MakerStages
    <2>2. /\ maker.gen \in generations /\ maker.gen.replayed
          /\ maker.gen.overlay = maker.gen.base /\ maker.gen.base = disk.image
          /\ Verifies(disk)
        BY <2>1 DEF IInv, MakerInv
    <2>3. disk.image # 0 /\ made[disk.image].stamp # 0
        BY <2>2, ImagesAssumption DEF Verifies, IInv, ImagesTypeOK, Versions
    <2>4. Published'
        BY <1>1, <2>1, <2>2, <2>3 DEF Published
    <2>5. registry' \in 0..MaxGenerations
        BY <1>3, <2>1 DEF Generation
    <2>6. ImagesTypeOK'
        BY <1>1, <2>1, <2>5 DEF IInv, ImagesTypeOK
    <2> QED BY <1>2, <2>1, <2>4, <2>6 DEF IInv, MakerInv
<1> QED BY <1>4, <1>5, <1>6, <1>7, <1>8

----------------------------------------------------------------------------
(* Theorems. *)

THEOREM Preserved ==
    ASSUME IInv, [ImagesNext]_imagesVars
    PROVE  IInv'
<1>1. CASE UNCHANGED imagesVars
    BY <1>1
    DEF imagesVars, IInv, ImagesTypeOK, StampsSeen, JobInv, MakerInv, Published, Verifies
<1>2. CASE ImagesNext
    BY <1>2, JobMoves, Discards, PullStep, ProvisionStep, PlaceImageStep,
       PlaceProvenanceStep, PlaceManifestsStep, PushStep, EditStep, MakerSteps
    DEF ImagesNext
<1> QED BY <1>1, <1>2

\* The inductive invariant holds in every state the image jobs reach.
THEOREM Inductive == ImagesSpec => []IInv
<1>1. ASSUME ImagesInit PROVE IInv
    <2>1. ImagesTypeOK
        BY <1>1, ImagesAssumption
        DEF ImagesInit, ImagesTypeOK, Versions, Modes, JobStages, MakerStages, Generation,
            NoGeneration
    <2> QED
        BY <1>1, <2>1
        DEF ImagesInit, IInv, StampsSeen, JobInv, MakerInv, Published, Placing
<1>2. IInv /\ [ImagesNext]_imagesVars => IInv'
    BY Preserved
<1> QED BY <1>1, <1>2, PTL DEF ImagesSpec

\* Whatever was interrupted or edited: the registered generation is complete
\* and sits on the base it names, and what verifies was built from the
\* sources of the checkout.
THEOREM Safe == ImagesSpec => []ImagesSafe
<1>1. ASSUME IInv PROVE ImagesSafe
    <2>1. PublishedIsComplete
        <3>1. \A g \in generations : g.base \in 0..MaxImages
            BY <1>1 DEF IInv, ImagesTypeOK, Generation
        <3> QED BY <1>1, <3>1 DEF IInv, Published, StampsSeen, PublishedIsComplete, Images
    <2>2. InstalledMatchesSources
        <3>1. checkout # 0 /\ (disk.image # 0 => disk.image \in Images)
            BY <1>1, ImagesAssumption DEF IInv, ImagesTypeOK, Versions, Images
        <3> QED BY <1>1, <3>1 DEF IInv, StampsSeen, InstalledMatchesSources, Verifies
    <2> QED BY <1>1, <2>1, <2>2 DEF IInv, ImagesSafe
<1> QED BY <1>1, Inductive, PTL
=============================================================================
