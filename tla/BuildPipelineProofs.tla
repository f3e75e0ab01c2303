-------------------------- MODULE BuildPipelineProofs --------------------------
(***************************************************************************)
(* Theorems about BuildPipeline, for any number of hooks, builds and       *)
(* stopped scripts and any selection of the scripts.                       *)
(***************************************************************************)
EXTENDS BuildPipeline, FiniteSetTheorems, TLAPS

LEMMA InitTyped == Init => TypeOK
<1> SUFFICES ASSUME Init PROVE TypeOK
  OBVIOUS
<1>1. AtOK
  BY DEF Init, AtOK, Steps, Shell
<1>2. ToolchainOK
  BY DEF Init, ToolchainOK
<1>3. TreeOK
  BY PipelineAssumption DEF PipelineAssumption, Init, TreeOK, NoTree, Sources
<1>4. OutOK
  BY DEF Init, OutOK, NoOut, Images
<1>5. PackOK
  BY DEF Init, PackOK, NoZip
<1>6. BoundsOK
  BY PipelineAssumption DEF PipelineAssumption, Init, BoundsOK
<1>7. QED
  BY <1>1, <1>2, <1>3, <1>4, <1>5, <1>6 DEF TypeOK

(* A script is only ever at one of its steps *)
LEMMA AtTyped == ASSUME AtOK, [Next]_vars PROVE AtOK'
<1> USE DEF AtOK, Steps, Shell, GoTo, End, Fail, Stopped
<1>1. CASE Start
  BY <1>1, PipelineAssumption
     DEF PipelineAssumption, Start, FirstStep, AllScripts, Toolchains
<1>2. CASE Stop
  BY <1>2 DEF Stop
<1>3. CASE prep_kernel
  BY <1>3 DEF prep_kernel, rm_tree, rm_tree_stopped, clone
<1>4. ASSUME NEW t \in Toolchains, fetch_toolchain(t) PROVE AtOK'
  <2>1. "arm" \in Toolchains
    BY DEF Toolchains
  <2>2. CASE fetch(t)
    <3>1. at' \in {Shell, <<"extract", t>>, <<"fetch", "arm">>}
      BY <2>2 DEF fetch, AfterFetch
    <3>2. QED
      BY <2>1, <3>1
  <2>3. CASE extract(t)
    BY <2>3 DEF extract, AfterFetch, Toolchains
  <2>4. CASE extract_stopped(t)
    BY <2>4 DEF extract_stopped
  <2>5. QED
    BY <1>4, <2>2, <2>3, <2>4 DEF fetch_toolchain
<1>5. CASE setup_ksu
  BY <1>5 DEF setup_ksu, rm_ksu, copy_ksu, rm_or_copy_ksu_stopped, wire_makefile, wire_kconfig,
              wire_kconfig_stopped
<1>6. CASE require \/ susfs_patch \/ susfs_patch_stopped \/ fs_makefile \/ sanity
  <2>1. 1 \in 1..Hooks /\ 1 \in 1..Len(Sources)
    BY PipelineAssumption DEF PipelineAssumption, Sources
  <2>2. at' \in {Shell, <<"hook", 1>>, <<"cp", 1>>, <<"sanity">>}
    BY <1>6 DEF require, susfs_patch, susfs_patch_stopped, fs_makefile, sanity
  <2>3. QED
    BY <2>1, <2>2
<1>7. ASSUME NEW i \in 1..Hooks, hook(i) PROVE AtOK'
  <2>1. i < Hooks => i + 1 \in 1..Hooks
    BY <1>7, PipelineAssumption DEF PipelineAssumption
  <2>2. QED
    BY <1>7, <2>1 DEF hook
<1>8. ASSUME NEW i \in 1..Len(Sources), cp(i) PROVE AtOK'
  BY <1>8 DEF cp, Sources
<1>9. CASE configure
  BY <1>9 DEF configure, rm_out, rm_out_stopped, defconfig, flags
<1>10. CASE build
  BY <1>10 DEF build, compilers, extraversion, make_image, make_dtbs, assemble, assemble_stopped, look
<1>11. CASE package
  BY <1>11 DEF package, find_image, clean_ak3, cp_image, make_zip, make_zip_stopped
<1>12. CASE UNCHANGED vars
  BY <1>12 DEF vars
<1>13. QED
  BY <1>1, <1>2, <1>3, <1>4, <1>5, <1>6, <1>7, <1>8, <1>9, <1>10, <1>11, <1>12
     DEF Next, apply_patches

(* Which variables the scripts of other parts leave alone *)
LEMMA Frames ==
  ASSUME [Next]_vars
  PROVE  /\ prep_kernel \/ setup_ksu \/ apply_patches \/ extraversion \/ UNCHANGED tree
         /\ prep_kernel \/ configure \/ build \/ UNCHANGED out
         /\ (\E t \in Toolchains : fetch_toolchain(t)) \/ UNCHANGED toolchain
         /\ package \/ UNCHANGED <<ak3, zip>>
         /\ make_image \/ UNCHANGED builds
<1> USE DEF TreeFrame, OutFrame, PackFrame, FetchFrame
<1>1. CASE Start \/ Stop \/ UNCHANGED vars
  BY <1>1 DEF Start, Stop, vars
<1>2. CASE prep_kernel
  BY <1>2 DEF prep_kernel, rm_tree, rm_tree_stopped, clone
<1>3. ASSUME NEW t \in Toolchains, fetch_toolchain(t)
      PROVE  UNCHANGED <<tree, out, ak3, zip, builds>>
  BY <1>3 DEF fetch_toolchain, fetch, extract, extract_stopped
<1>4. CASE setup_ksu
  BY <1>4 DEF setup_ksu, rm_ksu, copy_ksu, rm_or_copy_ksu_stopped, wire_makefile, wire_kconfig,
              wire_kconfig_stopped
<1>5. CASE apply_patches
  BY <1>5 DEF apply_patches, require, susfs_patch, susfs_patch_stopped, fs_makefile, sanity, hook, cp
<1>6. CASE configure
  BY <1>6 DEF configure, rm_out, rm_out_stopped, defconfig, flags
<1>7. CASE build
  BY <1>7 DEF build, compilers, extraversion, make_image, make_dtbs, assemble, assemble_stopped, look
<1>8. CASE package
  BY <1>8 DEF package, find_image, clean_ak3, cp_image, make_zip, make_zip_stopped
<1>9. QED
  BY <1>1, <1>2, <1>3, <1>4, <1>5, <1>6, <1>7, <1>8 DEF Next

(* The step that leads to each of these points of a script *)
LEMMA Arrivals ==
  ASSUME [Next]_vars, at' # at
  PROVE  /\ at' = <<"compilers">> => Start
         /\ at' = <<"extraversion">> => compilers
         /\ at' = <<"make_image">> => extraversion
         /\ at' = <<"make_dtbs">> => make_image
         /\ at' = <<"assemble">> => make_dtbs
         /\ at' = <<"look">> => assemble
         /\ at' = <<"defconfig">> => rm_out
         /\ at' = <<"flags">> => defconfig
         /\ at' = <<"susfs_patch">> => \E i \in 1..Hooks : hook(i)
         /\ at' = <<"cp", 1>> => susfs_patch \/ \E i \in 1..Len(Sources) : cp(i)
         /\ \A j \in 2..Len(Sources) : at' = <<"cp", j>> => \E i \in 1..Len(Sources) : cp(i)
         /\ at' = <<"fs_makefile">> => \E i \in 1..Len(Sources) : cp(i)
         /\ at' = <<"sanity">> => fs_makefile
         /\ at' = <<"cp_image">> => clean_ak3
         /\ at' = <<"make_zip">> => cp_image
<1> USE DEF Shell, GoTo, End, Fail, Stopped
<1>1. CASE Start
  <2>1. at' \in {<<"rm_tree">>, <<"fetch", "clang">>, <<"fetch", "aarch64">>, <<"rm_ksu">>,
                <<"require">>, <<"rm_out">>, <<"compilers">>, <<"find_image">>}
    BY <1>1, PipelineAssumption DEF PipelineAssumption, AllScripts, Start, FirstStep
  <2>2. QED
    BY <1>1, <2>1
<1>2. CASE Stop
  BY <1>2 DEF Stop
<1>3. CASE prep_kernel
  BY <1>3 DEF prep_kernel, rm_tree, rm_tree_stopped, clone
<1>4. ASSUME NEW t \in Toolchains, fetch_toolchain(t)
      PROVE  at' \in {Shell} \cup {"fetch", "extract"} \X Toolchains
  <2>1. "arm" \in Toolchains
    BY DEF Toolchains
  <2>2. at' \in {Shell, <<"extract", t>>, <<"fetch", "arm">>}
    BY <1>4 DEF fetch_toolchain, fetch, extract, extract_stopped, AfterFetch
  <2>3. QED
    BY <2>1, <2>2
<1>5. CASE setup_ksu
  BY <1>5 DEF setup_ksu, rm_ksu, copy_ksu, rm_or_copy_ksu_stopped, wire_makefile, wire_kconfig,
              wire_kconfig_stopped
<1>6. CASE require \/ susfs_patch \/ susfs_patch_stopped \/ fs_makefile \/ sanity
  <2>1. /\ require \/ susfs_patch_stopped \/ sanity => at' \in {Shell, <<"hook", 1>>}
        /\ susfs_patch => at' \in {Shell, <<"cp", 1>>}
        /\ fs_makefile => at' = <<"sanity">>
    BY DEF require, susfs_patch, susfs_patch_stopped, fs_makefile, sanity
  <2>2. QED
    BY <1>6, <2>1
<1>7. ASSUME NEW i \in 1..Hooks, hook(i)
      PROVE  at' \in {Shell, <<"susfs_patch">>} \/ \E k \in Int : at' = <<"hook", k>>
  BY <1>7 DEF hook
<1>8. ASSUME NEW i \in 1..Len(Sources), cp(i)
      PROVE  at' = <<"fs_makefile">> \/ \E k \in Int : at' = <<"cp", k>>
  BY <1>8 DEF cp
<1>9. CASE configure
  BY <1>9 DEF configure, rm_out, rm_out_stopped, defconfig, flags
<1>10. CASE build
  BY <1>10 DEF build, compilers, extraversion, make_image, make_dtbs, assemble, assemble_stopped, look
<1>11. CASE package
  BY <1>11 DEF package, find_image, clean_ak3, cp_image, make_zip, make_zip_stopped
<1>12. CASE UNCHANGED vars
  BY <1>12 DEF vars
<1>13. QED
  BY <1>1, <1>2, <1>3, <1>4, <1>5, <1>6, <1>7, <1>8, <1>9, <1>10, <1>11, <1>12
     DEF Next, apply_patches

LEMMA TreeTyped == ASSUME TreeOK, [Next]_vars PROVE TreeOK'
<1> USE DEF TreeOK
<1>0. NoTree \in [cloned : BOOLEAN, ksu : {"absent", "torn", "whole"}, wired : 0..1,
                 kconfig : {"kernel", "torn", "ksu"}, hooks : 0..Hooks,
                 susfs : {"absent", "torn", "whole"}, copied : 0..Len(Sources),
                 objects : SUBSET {"susfs.o", "sus_su.o"}, version : {"unset", "kernel", "tag"}]
  BY PipelineAssumption DEF PipelineAssumption, NoTree, Sources
<1> HIDE DEF NoTree
<1>1. CASE rm_tree \/ clone
  BY <1>0, <1>1 DEF rm_tree, clone
<1>2. CASE rm_tree_stopped
  BY <1>2, PipelineAssumption DEF PipelineAssumption, rm_tree_stopped, TreeRemnants, PartsOf, Sources
<1>3. CASE setup_ksu
  BY <1>3 DEF setup_ksu, rm_ksu, copy_ksu, rm_or_copy_ksu_stopped, wire_makefile, wire_kconfig,
              wire_kconfig_stopped
<1>4. CASE susfs_patch \/ fs_makefile
  <2>1. /\ tree.objects \cup {"susfs.o"} \in SUBSET {"susfs.o", "sus_su.o"}
        /\ tree.objects \cup {"susfs.o", "sus_su.o"} \in SUBSET {"susfs.o", "sus_su.o"}
    OBVIOUS
  <2>2. CASE susfs_patch
    BY <2>1, <2>2 DEF susfs_patch
  <2>3. CASE fs_makefile
    BY <2>1, <2>3 DEF fs_makefile
  <2>4. QED
    BY <1>4, <2>2, <2>3
<1>5. CASE require \/ sanity
  BY <1>5 DEF require, sanity
<1>6. CASE susfs_patch_stopped
  <2>1. PICK made \in SUBSET {"susfs.o"} :
          tree' = [tree EXCEPT !.susfs = "torn", !.objects = tree.objects \cup made]
    BY <1>6 DEF susfs_patch_stopped
  <2>2. tree.objects \cup made \in SUBSET {"susfs.o", "sus_su.o"}
    OBVIOUS
  <2>3. QED
    BY <2>1, <2>2
<1>7. ASSUME NEW i \in 1..Hooks, hook(i) PROVE TreeOK'
  BY <1>7, PipelineAssumption DEF PipelineAssumption, hook
<1>8. ASSUME NEW i \in 1..Len(Sources), cp(i) PROVE TreeOK'
  BY <1>8 DEF cp, Sources
<1>9. CASE extraversion
  BY <1>9 DEF extraversion
<1>10. CASE UNCHANGED tree
  BY <1>10
<1>11. QED
  BY <1>1, <1>2, <1>3, <1>4, <1>5, <1>6, <1>7, <1>8, <1>9, <1>10, Frames DEF prep_kernel, apply_patches

(* 4-build.sh is only started below the bound, and names a version before  *)
(* it makes an image                                                       *)
BuildIsBounded == at \in {<<"compilers">>, <<"extraversion">>, <<"make_image">>} => builds < MaxBuilds
VersionIsSet == at = <<"make_image">> => tree.version # "unset"

LEMMA Bounded == ASSUME BuildIsBounded, [Next]_vars PROVE BuildIsBounded'
<1> USE DEF BuildIsBounded
<1>1. CASE at' = at
  <2>1. CASE make_image
    BY <1>1, <2>1 DEF make_image, GoTo, Fail, End, Shell
  <2>2. CASE builds' = builds
    BY <1>1, <2>2
  <2>3. QED
    BY <2>1, <2>2, Frames
<1>2. CASE at' # at
  <2>1. CASE Start
    <3>1. PICK s \in AllScripts : at' = FirstStep[s] /\ (s = "build" => builds < MaxBuilds)
      BY <2>1, PipelineAssumption DEF PipelineAssumption, Start
    <3>2. s = "build" \/ at' \notin {<<"compilers">>, <<"extraversion">>, <<"make_image">>}
      BY <3>1 DEF AllScripts, FirstStep
    <3>3. QED
      BY <2>1, <3>1, <3>2 DEF Start
  <2>2. CASE compilers
    BY <2>2 DEF compilers
  <2>3. CASE extraversion
    BY <2>3 DEF extraversion, TreeFrame
  <2>4. QED
    BY <1>2, <2>1, <2>2, <2>3, Arrivals
<1>3. QED
  BY <1>1, <1>2

LEMMA Versioned == ASSUME TreeOK, VersionIsSet, [Next]_vars PROVE VersionIsSet'
<1> SUFFICES ASSUME at' = <<"make_image">> PROVE tree'.version # "unset"
  BY DEF VersionIsSet
<1>1. CASE extraversion
  BY <1>1 DEF extraversion, TreeOK
<1>2. CASE UNCHANGED <<at, tree>>
  BY <1>2 DEF VersionIsSet
<1>3. QED
  <2>1. at' # at => extraversion
    BY Arrivals
  <2>2. ASSUME at' = at PROVE UNCHANGED <<at, tree>> \/ extraversion
    <3>1. ~prep_kernel
      BY <2>2 DEF prep_kernel, rm_tree, rm_tree_stopped, clone
    <3>2. ~setup_ksu
      BY <2>2 DEF setup_ksu, rm_ksu, copy_ksu, rm_or_copy_ksu_stopped, wire_makefile, wire_kconfig,
                  wire_kconfig_stopped
    <3>3. ~apply_patches
      <4>1. ~require /\ ~susfs_patch /\ ~susfs_patch_stopped /\ ~fs_makefile /\ ~sanity
        <5>1. require \/ susfs_patch \/ susfs_patch_stopped \/ fs_makefile \/ sanity =>
                at \in {<<"require">>, <<"susfs_patch">>, <<"fs_makefile">>, <<"sanity">>}
          BY DEF require, susfs_patch, susfs_patch_stopped, fs_makefile, sanity
        <5>2. QED
          BY <2>2, <5>1
      <4>2. \A i : ~hook(i) /\ ~cp(i)
        BY <2>2 DEF hook, cp
      <4>3. QED
        BY <4>1, <4>2 DEF apply_patches
    <3>4. QED
      BY <2>2, <3>1, <3>2, <3>3, Frames
  <2>3. QED
    BY <1>1, <1>2, <2>1, <2>2

LEMMA OutTyped ==
  ASSUME TreeOK, OutOK, BoundsOK, BuildIsBounded, VersionIsSet, [Next]_vars
  PROVE  OutOK'
<1> USE DEF OutOK
<1>1. NoImage \in Images /\ TornImage \in Images
  BY DEF Images
<1>2. ASSUME out.config \in {"kernel", "ksu"}, make_image
      PROVE  [build |-> builds', config |-> out.config, version |-> tree.version] \in Images
  <2>1. at = <<"make_image">>
    BY <1>2 DEF make_image
  <2>2. tree.version \in {"kernel", "tag"}
    BY <2>1 DEF VersionIsSet, TreeOK
  <2>3. builds' \in 1..MaxBuilds
    BY <1>2, <2>1, PipelineAssumption DEF PipelineAssumption, BuildIsBounded, BoundsOK, make_image
  <2>4. QED
    BY <1>2, <2>2, <2>3 DEF Images
<1> HIDE DEF NoImage, TornImage, Images
<1>3. CASE rm_tree \/ rm_out
  <2>1. NoOut \in [config : {"none", "kernel", "ksu"}, Image : Images, gz : Images, dtb : BOOLEAN]
    BY <1>1 DEF NoOut
  <2>2. out' = NoOut
    BY <1>3 DEF rm_tree, rm_out
  <2>3. QED
    BY <2>1, <2>2
<1>4. CASE rm_tree_stopped \/ rm_out_stopped
  BY <1>1, <1>4 DEF rm_tree_stopped, rm_out_stopped, OutRemnants
<1>5. CASE clone \/ compilers \/ extraversion \/ look
  BY <1>5 DEF clone, compilers, extraversion, look, TreeFrame
<1>6. CASE defconfig
  BY <1>6 DEF defconfig
<1>7. CASE flags
  BY <1>7 DEF flags
<1>8. CASE make_image
  BY <1>2, <1>8 DEF make_image
<1>9. CASE make_dtbs \/ assemble \/ assemble_stopped
  BY <1>1, <1>9 DEF make_dtbs, assemble, assemble_stopped
<1>10. CASE UNCHANGED out
  BY <1>10
<1>11. QED
  BY <1>3, <1>4, <1>5, <1>6, <1>7, <1>8, <1>9, <1>10, Frames DEF prep_kernel, configure, build

LEMMA ToolchainTyped == ASSUME ToolchainOK, [Next]_vars PROVE ToolchainOK'
<1> USE DEF ToolchainOK
<1>1. ASSUME NEW t \in Toolchains, fetch_toolchain(t) PROVE ToolchainOK'
  <2>1. CASE fetch(t)
    BY <2>1 DEF fetch, GoTo
  <2>2. CASE extract(t)
    BY <2>2 DEF extract
  <2>3. CASE extract_stopped(t)
    BY <2>3 DEF extract_stopped
  <2>4. QED
    BY <1>1, <2>1, <2>2, <2>3 DEF fetch_toolchain
<1>2. QED
  BY <1>1, Frames

LEMMA PackTyped == ASSUME PackOK, [Next]_vars PROVE PackOK'
<1>1. CASE package
  BY <1>1 DEF PackOK, package, find_image, clean_ak3, cp_image, make_zip, make_zip_stopped,
              Preferred, NoZip
<1>2. QED
  BY <1>1, Frames DEF PackOK

(* The counter of stopped scripts *)
LEMMA StopsCounted == ASSUME [Next]_vars PROVE UNCHANGED stops \/ Stopped
<1> USE DEF GoTo, End, Fail
<1>1. CASE Start \/ Stop \/ UNCHANGED vars
  BY <1>1 DEF Start, Stop, vars
<1>2. CASE prep_kernel
  BY <1>2 DEF prep_kernel, rm_tree, rm_tree_stopped, clone
<1>3. ASSUME NEW t \in Toolchains, fetch_toolchain(t) PROVE UNCHANGED stops \/ Stopped
  BY <1>3 DEF fetch_toolchain, fetch, extract, extract_stopped, AfterFetch
<1>4. CASE setup_ksu
  BY <1>4 DEF setup_ksu, rm_ksu, copy_ksu, rm_or_copy_ksu_stopped, wire_makefile, wire_kconfig,
              wire_kconfig_stopped
<1>5. CASE apply_patches
  BY <1>5 DEF apply_patches, require, susfs_patch, susfs_patch_stopped, fs_makefile, sanity, hook, cp
<1>6. CASE configure
  BY <1>6 DEF configure, rm_out, rm_out_stopped, defconfig, flags
<1>7. CASE build
  BY <1>7 DEF build, compilers, extraversion, make_image, make_dtbs, assemble, assemble_stopped, look
<1>8. CASE package
  BY <1>8 DEF package, find_image, clean_ak3, cp_image, make_zip, make_zip_stopped
<1>9. QED
  BY <1>1, <1>2, <1>3, <1>4, <1>5, <1>6, <1>7, <1>8 DEF Next

LEMMA BoundsTyped == ASSUME BoundsOK, BuildIsBounded, [Next]_vars PROVE BoundsOK'
<1>1. builds' \in 0..MaxBuilds
  BY Frames, PipelineAssumption DEF PipelineAssumption, BoundsOK, BuildIsBounded, make_image
<1>2. stops' \in 0..MaxStops
  BY StopsCounted, PipelineAssumption DEF PipelineAssumption, BoundsOK, Stopped
<1>3. QED
  BY <1>1, <1>2 DEF BoundsOK

(* The invariant behind the theorems *)
Typed == TypeOK /\ BuildIsBounded /\ VersionIsSet

LEMMA TypedStep == ASSUME Typed, [Next]_vars PROVE Typed'
<1> USE DEF Typed, TypeOK
<1>1. AtOK' /\ ToolchainOK' /\ TreeOK' /\ PackOK'
  BY AtTyped, ToolchainTyped, TreeTyped, PackTyped
<1>2. OutOK' /\ BoundsOK'
  BY OutTyped, BoundsTyped
<1>3. BuildIsBounded' /\ VersionIsSet'
  BY Bounded, Versioned
<1>4. QED
  BY <1>1, <1>2, <1>3

LEMMA TypedAlways == Spec => []Typed
<1>1. Init => Typed
  BY InitTyped DEF Init, Typed, BuildIsBounded, VersionIsSet, Shell
<1>2. Typed /\ [Next]_vars => Typed'
  BY TypedStep
<1>3. QED
  BY <1>1, <1>2, PTL DEF Spec

(* Type correctness; in particular, drivers/Makefile never gets a second   *)
(* line for KernelSU                                                       *)
THEOREM TypeCorrect == Spec => []TypeOK
<1>1. Typed => TypeOK
  BY DEF Typed
<1>2. QED
  BY <1>1, TypedAlways, PTL

-----------------------------------------------------------------------------
(* What 2-apply-patches.sh knows of the tree between its steps: each step  *)
(* stands on the checks of the ones before, and no other script runs       *)
(* meanwhile                                                               *)
Patched == tree.hooks = Hooks /\ tree.susfs = "whole" /\ "susfs.o" \in tree.objects
Applying == /\ at = <<"susfs_patch">> => tree.hooks = Hooks
            /\ \A i \in 1..Len(Sources) : at = <<"cp", i>> => Patched
            /\ at = <<"fs_makefile">> => Patched /\ tree.copied = Len(Sources)
            /\ at = <<"sanity">> => Patched /\ tree.copied = Len(Sources)

(* A script that works on the tree is at one of its own steps afterwards *)
LEMMA ApplyingStep == ASSUME TreeOK, Applying, [Next]_vars PROVE Applying'
<1> USE DEF Applying, Patched
<1>1. CASE UNCHANGED <<at, tree>>
  BY <1>1
<1>2. ASSUME NEW i \in 1..Hooks, hook(i) PROVE Applying'
  BY <1>2, PipelineAssumption DEF PipelineAssumption, hook, GoTo, Fail, End, Shell, TreeOK
<1>3. CASE susfs_patch
  <2>1. CASE at' = <<"cp", 1>>
    <3>1. tree' = [tree EXCEPT !.susfs = "whole", !.objects = tree.objects \cup {"susfs.o"}]
      BY <1>3, <2>1 DEF susfs_patch, Fail, End, Shell
    <3>2. tree.hooks = Hooks
      BY <1>3 DEF susfs_patch
    <3>3. tree'.hooks = Hooks /\ tree'.susfs = "whole" /\ "susfs.o" \in tree'.objects
      BY <3>1, <3>2 DEF TreeOK
    <3>4. QED
      BY <2>1, <3>3
  <2>2. CASE at' = Shell
    BY <2>2 DEF Shell
  <2>3. QED
    BY <1>3, <2>1, <2>2 DEF susfs_patch, GoTo, Fail, End
<1>4. ASSUME NEW i \in 1..Len(Sources), cp(i) PROVE Applying'
  BY <1>4 DEF cp, GoTo, TreeOK, Sources
<1>5. CASE fs_makefile
  BY <1>5 DEF fs_makefile, GoTo, TreeOK
<1>6. CASE /\ at' # at
           /\ ~susfs_patch /\ ~fs_makefile
           /\ \A i \in 1..Hooks : ~hook(i)
           /\ \A i \in 1..Len(Sources) : ~cp(i)
  <2>1. at' \notin {<<"susfs_patch">>, <<"fs_makefile">>, <<"sanity">>}
    BY <1>6, Arrivals
  <2>2. \A j \in 1..Len(Sources) : at' # <<"cp", j>>
    BY <1>6, Arrivals DEF Sources
  <2>3. QED
    BY <2>1, <2>2
<1>7. CASE at' = at /\ tree' # tree
  <2>1. prep_kernel \/ setup_ksu \/ extraversion \/ require \/ susfs_patch_stopped \/ sanity
          \/ susfs_patch \/ fs_makefile
          \/ (\E i \in 1..Hooks : hook(i)) \/ (\E i \in 1..Len(Sources) : cp(i))
    BY <1>7, Frames DEF apply_patches
  <2>2. ~require /\ ~sanity
    BY <1>7 DEF require, sanity
  <2>3. susfs_patch_stopped => at' = Shell /\ at # Shell
    BY DEF susfs_patch_stopped, Stopped, Shell
  <2>4. prep_kernel \/ setup_ksu \/ extraversion =>
          at \in {<<"rm_tree">>, <<"clone">>, <<"rm_ksu">>, <<"copy_ksu">>, <<"wire_makefile">>,
                 <<"wire_kconfig">>, <<"extraversion">>}
    BY DEF prep_kernel, rm_tree, rm_tree_stopped, clone, setup_ksu, rm_ksu, copy_ksu,
           rm_or_copy_ksu_stopped, wire_makefile, wire_kconfig, wire_kconfig_stopped, extraversion
  <2>5. CASE prep_kernel \/ setup_ksu \/ extraversion
    BY <1>7, <2>4, <2>5
  <2>6. QED
    BY <1>2, <1>3, <1>4, <1>5, <1>7, <2>1, <2>2, <2>3, <2>5
<1>8. QED
  BY <1>1, <1>2, <1>3, <1>4, <1>5, <1>6, <1>7

(* However often the scripts were stopped and run before, the sanity check *)
(* of 2-apply-patches.sh is reached with the whole of the patches applied  *)
THEOREM AppliedIsWholeCorrect == Spec => []AppliedIsWhole
<1>1. Init => Applying
  BY DEF Init, Applying, Shell
<1>2. Typed /\ Applying /\ [Next]_vars => Applying'
  BY ApplyingStep DEF Typed, TypeOK
<1>3. Applying => AppliedIsWhole
  BY DEF Applying, Patched, AppliedIsWhole
<1>4. QED
  BY <1>1, <1>2, <1>3, TypedAlways, PTL DEF Spec

-----------------------------------------------------------------------------
(* While 3-configure.sh makes a configuration there is no image at all *)
Imaged == /\ ImagesMatchConfig
          /\ at \in {<<"defconfig">>, <<"flags">>} => out.Image = NoImage /\ out.gz = NoImage

LEMMA ImagedStep == ASSUME OutOK, Imaged, [Next]_vars PROVE Imaged'
<1> USE DEF Imaged, ImagesMatchConfig, OutOK
<1>1. CASE UNCHANGED out
  <2>1. at' \in {<<"defconfig">>, <<"flags">>} /\ at' # at => rm_out \/ defconfig
    BY Arrivals
  <2>2. rm_out => out' = NoOut
    BY DEF rm_out
  <2>3. defconfig => at = <<"defconfig">>
    BY DEF defconfig
  <2>4. QED
    BY <1>1, <2>1, <2>2, <2>3 DEF NoOut
<1>2. CASE rm_tree \/ rm_out
  BY <1>2 DEF rm_tree, rm_out, NoOut
<1>3. CASE rm_tree_stopped \/ rm_out_stopped
  <2>1. at' = Shell
    BY <1>3 DEF rm_tree_stopped, rm_out_stopped, Stopped
  <2>2. /\ out'.config \in {out.config, "none"}
        /\ out'.Image \in {out.Image, NoImage}
        /\ out'.gz \in {out.gz, NoImage}
    BY <1>3 DEF rm_tree_stopped, rm_out_stopped, OutRemnants
  <2>3. QED
    BY <2>1, <2>2 DEF Shell
<1>4. CASE defconfig \/ flags
  <2>1. out.Image = NoImage /\ out.gz = NoImage
    BY <1>4 DEF defconfig, flags
  <2>2. out'.Image = NoImage /\ out'.gz = NoImage
    BY <1>4, <2>1 DEF defconfig, flags
  <2>3. QED
    BY <2>2
<1>5. CASE make_image
  <2>1. /\ out'.Image = out.Image \/ out'.Image.config = out.config
        /\ out'.gz = out.gz
        /\ out'.config = out.config
    BY <1>5 DEF make_image
  <2>2. at' \in {Shell, <<"make_dtbs">>}
    BY <1>5 DEF make_image, GoTo, Fail, End
  <2>3. QED
    BY <2>1, <2>2 DEF Shell
<1>6. CASE make_dtbs \/ assemble \/ assemble_stopped
  <2>1. /\ out'.Image = out.Image
        /\ out'.gz \in {out.gz, out.Image, TornImage}
        /\ out'.config = out.config
    BY <1>6 DEF make_dtbs, assemble, assemble_stopped
  <2>2. at' \in {Shell, <<"assemble">>, <<"look">>}
    BY <1>6 DEF make_dtbs, assemble, assemble_stopped, GoTo, Stopped
  <2>3. QED
    BY <2>1, <2>2 DEF Shell
<1>7. CASE clone \/ compilers \/ extraversion \/ look
  BY <1>1, <1>7 DEF clone, compilers, extraversion, look, TreeFrame
<1>8. QED
  BY <1>1, <1>2, <1>3, <1>4, <1>5, <1>6, <1>7, Frames DEF prep_kernel, configure, build

(* No image of an older configuration outlives 3-configure.sh *)
THEOREM ImagesMatchConfigCorrect == Spec => []ImagesMatchConfig
<1>1. Init => Imaged
  BY DEF Init, Imaged, ImagesMatchConfig, NoOut, Shell
<1>2. Typed /\ Imaged /\ [Next]_vars => Imaged'
  BY ImagedStep DEF Typed, TypeOK
<1>3. Imaged => ImagesMatchConfig
  BY DEF Imaged
<1>4. QED
  BY <1>1, <1>2, <1>3, TypedAlways, PTL DEF Spec

-----------------------------------------------------------------------------
(* The AnyKernel3 directory is empty when the image is copied there *)
Packing == /\ OneImageInZip
           /\ at = <<"cp_image">> => ak3 = {}
           /\ at = <<"make_zip">> => Cardinality(ak3) = 1

LEMMA PackingStep == ASSUME Packing, [Next]_vars PROVE Packing'
<1> USE DEF Packing, OneImageInZip
<1>1. CASE UNCHANGED <<ak3, zip>>
  <2>1. at' # at /\ at' = <<"cp_image">> => clean_ak3
    BY Arrivals
  <2>2. at' # at /\ at' = <<"make_zip">> => cp_image
    BY Arrivals
  <2>3. clean_ak3 => ak3' = {}
    BY DEF clean_ak3
  <2>4. cp_image => at = <<"cp_image">> /\ ak3' = ak3 \cup {Preferred}
    BY DEF cp_image
  <2>5. cp_image => Preferred \in ak3
    BY <1>1, <2>4
  <2>6. QED
    BY <1>1, <2>1, <2>2, <2>3, <2>4, <2>5
<1>2. CASE clean_ak3
  BY <1>2 DEF clean_ak3, GoTo
<1>3. CASE cp_image
  <2>1. ak3' = {Preferred}
    BY <1>3 DEF cp_image
  <2>2. Cardinality({Preferred}) = 1
    BY FS_Singleton
  <2>3. Cardinality(ak3)' = 1
    BY <2>1, <2>2
  <2>4. at' = <<"make_zip">> /\ zip' = zip
    BY <1>3 DEF cp_image, GoTo
  <2>5. QED
    BY <2>3, <2>4
<1>4. CASE make_zip \/ make_zip_stopped
  BY <1>4 DEF make_zip, make_zip_stopped, End, Stopped, Shell
<1>5. CASE find_image
  BY <1>1, <1>5 DEF find_image
<1>6. QED
  BY <1>1, <1>2, <1>3, <1>4, <1>5, Frames DEF package

(* Every package has one kernel image *)
THEOREM OneImageInZipCorrect == Spec => []OneImageInZip
<1>1. Init => Packing
  BY DEF Init, Packing, OneImageInZip, Shell
<1>2. Packing /\ [Next]_vars => Packing'
  BY PackingStep
<1>3. Packing => OneImageInZip
  BY DEF Packing
<1>4. QED
  BY <1>1, <1>2, <1>3, PTL DEF Spec

-----------------------------------------------------------------------------
(* From make Image to the report, the Image is the one just made, and      *)
(* with a base DTB the Image.gz-dtb is made of it                          *)
Building == /\ at \in {<<"make_dtbs">>, <<"assemble">>, <<"look">>} =>
                 out.Image.build = builds /\ builds # 0
            /\ at = <<"look">> /\ out.dtb => out.gz = out.Image
            /\ said[1] = "success" => at = Shell
            /\ SuccessIsThisBuild

(* Only 4-build.sh reports success, and a report stays until a script runs *)
LEMMA Reports ==
  ASSUME [Next]_vars
  PROVE  /\ said'[1] # "success" \/ look \/ UNCHANGED said
         /\ at = Shell => Start \/ UNCHANGED vars
         /\ Start => said' = NoReport /\ UNCHANGED <<out, builds>>
<1> DEFINE Q == (said'[1] # "success" \/ look \/ UNCHANGED said) /\ at # Shell
<1> USE DEF GoTo, End, Fail, Stopped, Shell
<1>1. Start => said' = NoReport /\ UNCHANGED <<out, builds>>
  BY DEF Start
<1>2. Stop => Q
  BY DEF Stop
<1>3. prep_kernel => Q
  BY DEF prep_kernel, rm_tree, rm_tree_stopped, clone
<1>4. ASSUME NEW t \in Toolchains, fetch_toolchain(t)
      PROVE  Q
  <2>1. fetch(t) => Q
    <3>1. fetch(t) => at = <<"fetch", t>> /\ (said' = <<"already extracted">> \/ UNCHANGED said)
      BY DEF fetch, AfterFetch
    <3>2. <<"already extracted">>[1] # "success" /\ <<"fetch", t>> # Shell
      OBVIOUS
    <3>3. QED
      BY <3>1, <3>2
  <2>2. extract(t) \/ extract_stopped(t) => Q
    BY DEF extract, extract_stopped, AfterFetch
  <2>3. QED
    BY <1>4, <2>1, <2>2 DEF fetch_toolchain
<1>5. setup_ksu => Q
  BY DEF setup_ksu, rm_ksu, copy_ksu, rm_or_copy_ksu_stopped, wire_makefile, wire_kconfig,
              wire_kconfig_stopped
<1>6. apply_patches => Q
  <2>1. require \/ susfs_patch => Q
    BY DEF require, susfs_patch
  <2>2. susfs_patch_stopped \/ fs_makefile \/ sanity => Q
    <3>1. susfs_patch_stopped => Q
      BY DEF susfs_patch_stopped
    <3>2. fs_makefile => Q
      BY DEF fs_makefile
    <3>3. sanity => at = <<"sanity">> /\ said' \in {<<"patched">>, <<"susfs.h corrupt">>}
      BY DEF sanity
    <3>4. /\ <<"patched">>[1] # "success" /\ <<"susfs.h corrupt">>[1] # "success"
          /\ <<"sanity">> # Shell
      OBVIOUS
    <3>5. sanity => said'[1] # "success" /\ at # Shell
      BY <3>3, <3>4
    <3>6. QED
      BY <3>1, <3>2, <3>5
  <2>3. \A i : hook(i) \/ cp(i) => Q
    BY DEF hook, cp
  <2>4. QED
    BY <2>1, <2>2, <2>3 DEF apply_patches
<1>7. configure => Q
  BY DEF configure, rm_out, rm_out_stopped, defconfig, flags
<1>8. build => Q
  BY DEF build, compilers, extraversion, make_image, make_dtbs, assemble, assemble_stopped, look
<1>9. package => Q
  BY DEF package, find_image, clean_ak3, cp_image, make_zip, make_zip_stopped
<1>10. QED
  <2>1. UNCHANGED vars => UNCHANGED said
    BY DEF vars
  <2>2. NoReport[1] # "success"
    BY DEF NoReport
  <2>3. QED
    BY <1>1, <1>2, <1>3, <1>4, <1>5, <1>6, <1>7, <1>8, <1>9, <2>1, <2>2 DEF Next

LEMMA BuildingStep == ASSUME OutOK, BoundsOK, Building, [Next]_vars PROVE Building'
<1> USE DEF Building, SuccessIsThisBuild
<1>1. CASE UNCHANGED vars
  BY <1>1 DEF vars
<1>2. CASE Start
  <2>1. at' \notin {<<"make_dtbs">>, <<"assemble">>, <<"look">>}
    BY <1>2, PipelineAssumption DEF PipelineAssumption, Start, FirstStep, AllScripts
  <2>2. said'[1] # "success"
    BY <1>2, Reports DEF NoReport
  <2>3. QED
    BY <2>1, <2>2
<1>3. CASE make_image
  <2>1. said'[1] # "success"
    BY <1>3 DEF make_image, GoTo, Fail, End, Shell
  <2>2. at' = <<"make_dtbs">> => out'.Image.build = builds' /\ builds' # 0
    BY <1>3 DEF make_image, OutOK, BoundsOK, Fail, End, Shell
  <2>3. at' \in {Shell, <<"make_dtbs">>}
    BY <1>3 DEF make_image, GoTo, Fail, End
  <2>4. QED
    BY <2>1, <2>2, <2>3 DEF Shell
<1>4. CASE make_dtbs
  <2>1. at = <<"make_dtbs">> /\ at' = <<"assemble">> /\ said' = said /\ builds' = builds
    BY <1>4 DEF make_dtbs, GoTo
  <2>2. out'.Image = out.Image
    BY <1>4 DEF make_dtbs, OutOK
  <2>3. QED
    BY <2>1, <2>2 DEF Shell
<1>5. CASE assemble
  <2>1. at = <<"assemble">> /\ at' = <<"look">> /\ said' = said /\ builds' = builds
    BY <1>5 DEF assemble, GoTo
  <2>2. out'.Image = out.Image /\ out'.dtb = out.dtb /\ (out.dtb => out'.gz = out.Image)
    BY <1>5 DEF assemble, OutOK
  <2>3. QED
    BY <2>1, <2>2 DEF Shell
<1>6. CASE look
  <2>1. /\ at = <<"look">> /\ at' = Shell /\ UNCHANGED <<out, builds>>
        /\ said' = <<"success", PreferredImage>>
    BY <1>6 DEF look, End
  <2>2. out.dtb => PreferredImage = out.Image
    BY <2>1 DEF PreferredImage
  <2>3. QED
    BY <2>1, <2>2 DEF Shell
<1>7. CASE ~Start /\ ~make_image /\ ~make_dtbs /\ ~assemble /\ ~look /\ ~UNCHANGED vars
  <2>1. at # Shell /\ said[1] # "success"
    BY <1>7, Reports
  <2>2. said'[1] # "success"
    BY <1>7, <2>1, Reports
  <2>3. at' # at => at' \notin {<<"make_dtbs">>, <<"assemble">>, <<"look">>}
    BY <1>7, Arrivals
  <2>4. CASE at' = at
    <3>1. at \in {<<"make_dtbs">>, <<"assemble">>, <<"look">>} => UNCHANGED <<out, builds>>
      BY <1>7, <2>4, Frames
         DEF prep_kernel, rm_tree, rm_tree_stopped, clone, configure, rm_out, rm_out_stopped,
             defconfig, flags, build, compilers, extraversion, assemble_stopped, Stopped, Shell
    <3>2. QED
      BY <2>2, <2>4, <3>1
  <2>5. QED
    BY <2>2, <2>3, <2>4
<1>8. QED
  BY <1>1, <1>2, <1>3, <1>4, <1>5, <1>6, <1>7

(* A build that has a base DTB reports the image it has just made *)
THEOREM SuccessIsThisBuildCorrect == Spec => []SuccessIsThisBuild
<1>1. Init => Building
  BY DEF Init, Building, SuccessIsThisBuild, Shell, NoReport
<1>2. Typed /\ Building /\ [Next]_vars => Building'
  BY BuildingStep DEF Typed, TypeOK
<1>3. Building => SuccessIsThisBuild
  BY DEF Building
<1>4. QED
  BY <1>1, <1>2, <1>3, TypedAlways, PTL DEF Spec

=============================================================================
