----------------------------- MODULE BuildPipeline -----------------------------
(***************************************************************************)
(* The scripts of src/scripts on one checkout.  They run one at a time, in *)
(* any order: the workflow's is one of them, a person who repairs a        *)
(* stopped build uses others.  A script may be stopped at any point by a   *)
(* failing command (set -e) or from outside, and be run again.             *)
(***************************************************************************)
EXTENDS Naturals, Sequences, FiniteSets

CONSTANTS Scripts,     \* the scripts that are run
          Hooks,       \* how many manual-hook patches there are
          MaxBuilds,   \* bound on the runs of make Image
          MaxStops     \* bound on the scripts that are stopped

AllScripts == {"prep", "clang", "gcc", "setup", "apply", "configure", "build", "package"}

ASSUME PipelineAssumption == /\ Scripts \subseteq AllScripts
                             /\ Hooks \in Nat \ {0}
                             /\ MaxBuilds \in Nat
                             /\ MaxStops \in Nat

VARIABLES at,         \* the next step of the running script
          said,       \* what the running or last script has reported
          toolchain,  \* how much of each toolchain has been extracted
          tree,       \* the kernel source tree
          out,        \* its output directory
          ak3,        \* the images in the AnyKernel3 directory
          zip,        \* the images in the package, if there is one
          builds,     \* how often make Image has succeeded
          stops       \* how often a script was stopped

vars == <<at, said, toolchain, tree, out, ak3, zip, builds, stops>>

Shell == <<"shell">>
NoReport == <<"nothing">>
NoZip == {}

Toolchains == {"clang", "aarch64", "arm"}
(* "headless" has no compiler yet, "partial" has one and lacks other files *)
HasCompiler(t) == toolchain[t] \in {"partial", "whole"}

NoImage == [build |-> 0, config |-> "none", version |-> "none"]
TornImage == [build |-> 0, config |-> "torn", version |-> "none"]
Images == {NoImage, TornImage} \cup
            [build : 1..MaxBuilds, config : {"kernel", "ksu"}, version : {"kernel", "tag"}]

NoOut == [config |-> "none", Image |-> NoImage, gz |-> NoImage, dtb |-> FALSE]
NoTree == [cloned |-> FALSE, ksu |-> "absent", wired |-> 0, kconfig |-> "kernel", hooks |-> 0,
           susfs |-> "absent", copied |-> 0, objects |-> {}, version |-> "unset"]

(* What rm -rf may leave when it is stopped: any part of what there was *)
PartsOf(x) == {x, "absent"} \cup (IF x = "whole" THEN {"torn"} ELSE {})
TreeRemnants ==
  [cloned : {tree.cloned}, ksu : PartsOf(tree.ksu), wired : {tree.wired, 0},
   kconfig : {tree.kconfig, "kernel"}, hooks : {tree.hooks, 0}, susfs : PartsOf(tree.susfs),
   copied : {tree.copied, 0}, objects : {tree.objects, {}}, version : {tree.version, "unset"}]
OutRemnants == [config : {out.config, "none"}, Image : {out.Image, NoImage}, gz : {out.gz, NoImage},
                dtb : {out.dtb, FALSE}]

(* The files that step 4 of 2-apply-patches.sh copies, in its order *)
Sources == <<"susfs.c", "sus_su.c", "susfs.h", "susfs_def.h">>
(* The macros that include/linux/susfs.h defines *)
HeaderNames == {"KSU_SUSFS_H", "SUSFS_VERSION", "SUSFS_VARIANT", "getname_safe", "putname_safe"}

Init == /\ at = Shell
        /\ said = NoReport
        /\ toolchain = [t \in Toolchains |-> "absent"]
        /\ tree = NoTree
        /\ out = NoOut
        /\ ak3 = {}
        /\ zip = NoZip
        /\ builds = 0
        /\ stops = 0

-----------------------------------------------------------------------------
(* Frames: what a step of each kind of script leaves alone *)
FetchFrame == UNCHANGED <<tree, out, ak3, zip, builds>>
TreeFrame == UNCHANGED <<toolchain, out, ak3, zip, builds>>
OutFrame == UNCHANGED <<toolchain, tree, ak3, zip>>
PackFrame == UNCHANGED <<toolchain, tree, out, builds>>

GoTo(step) == at' = step /\ UNCHANGED <<said, stops>>
End(report) == at' = Shell /\ said' = report /\ UNCHANGED stops
Fail == End(<<"failed">>)
Stopped == /\ stops < MaxStops
           /\ stops' = stops + 1
           /\ at' = Shell
           /\ said' = <<"stopped">>

FirstStep == [prep |-> <<"rm_tree">>, clang |-> <<"fetch", "clang">>, gcc |-> <<"fetch", "aarch64">>,
              setup |-> <<"rm_ksu">>, apply |-> <<"require">>, configure |-> <<"rm_out">>,
              build |-> <<"compilers">>, package |-> <<"find_image">>]

(* A script is run.  Those that work in the source tree exit at once      *)
(* without one, and the others do not need it.                            *)
Start == /\ at = Shell
         /\ \E s \in Scripts :
              /\ s \in {"setup", "apply", "configure", "build"} => tree.cloned
              /\ s = "build" => builds < MaxBuilds
              /\ at' = FirstStep[s]
         /\ said' = NoReport
         /\ UNCHANGED <<toolchain, tree, out, ak3, zip, builds, stops>>

(* A command that fails or is stopped without a trace *)
Stop == at # Shell /\ Stopped /\ UNCHANGED <<toolchain, tree, out, ak3, zip, builds>>

-----------------------------------------------------------------------------
(* 0-prep-kernel.sh *)
rm_tree == /\ at = <<"rm_tree">>
           /\ tree' = NoTree
           /\ out' = NoOut
           /\ GoTo(<<"clone">>)
           /\ UNCHANGED <<toolchain, ak3, zip, builds>>

rm_tree_stopped == /\ at = <<"rm_tree">>
                   /\ tree' \in TreeRemnants
                   /\ out' \in OutRemnants
                   /\ Stopped
                   /\ UNCHANGED <<toolchain, ak3, zip, builds>>

(* Whether the kernel's Makefile sets EXTRAVERSION is the kernel's affair *)
clone == /\ at = <<"clone">>
         /\ \E v \in {"unset", "kernel"} :
              tree' = [NoTree EXCEPT !.cloned = TRUE, !.version = v]
         /\ End(<<"cloned">>)
         /\ TreeFrame

-----------------------------------------------------------------------------
(* 0b-fetch-clang.sh and fetch_prebuilt of 0c-fetch-gcc.sh, which removes  *)
(* what there is of a toolchain without a compiler                         *)
AfterFetch(t, report) == IF t = "aarch64" THEN GoTo(<<"fetch", "arm">>) ELSE End(report)

fetch(t) == /\ at = <<"fetch", t>>
            /\ IF HasCompiler(t)
                 THEN AfterFetch(t, <<"already extracted">>) /\ UNCHANGED toolchain
                 ELSE /\ toolchain' = IF t = "clang" THEN toolchain
                                      ELSE [toolchain EXCEPT ![t] = "absent"]
                      /\ GoTo(<<"extract", t>>)
            /\ FetchFrame

extract(t) == /\ at = <<"extract", t>>
              /\ toolchain' = [toolchain EXCEPT ![t] = "whole"]
              /\ AfterFetch(t, <<"extracted">>)
              /\ FetchFrame

extract_stopped(t) == /\ at = <<"extract", t>>
                      /\ \E part \in {"headless", "partial"} :
                           toolchain' = [toolchain EXCEPT ![t] = part]
                      /\ Stopped
                      /\ FetchFrame

-----------------------------------------------------------------------------
(* 1-setup-ksu.sh *)
rm_ksu == /\ at = <<"rm_ksu">>
          /\ tree' = [tree EXCEPT !.ksu = "absent"]
          /\ GoTo(<<"copy_ksu">>)
          /\ TreeFrame

copy_ksu == /\ at = <<"copy_ksu">>
            /\ tree' = [tree EXCEPT !.ksu = "whole"]
            /\ GoTo(<<"wire_makefile">>)
            /\ TreeFrame

rm_or_copy_ksu_stopped == /\ at \in {<<"rm_ksu">>, <<"copy_ksu">>}
                          /\ tree' = [tree EXCEPT !.ksu = "torn"]
                          /\ Stopped
                          /\ TreeFrame

(* Mutant: the line is appended without a look *)
wire_makefile_unasked == /\ at = <<"wire_makefile">>
                         /\ tree' = [tree EXCEPT !.wired = @ + 1]
                         /\ GoTo(<<"wire_kconfig">>)
                         /\ TreeFrame

wire_makefile == /\ at = <<"wire_makefile">>
                 /\ tree' = [tree EXCEPT !.wired = IF @ = 0 THEN 1 ELSE @]
                 /\ GoTo(<<"wire_kconfig">>)
                 /\ TreeFrame

(* The replacement finds nothing to replace in a file that was cut off *)
wire_kconfig == /\ at = <<"wire_kconfig">>
                /\ tree' = [tree EXCEPT !.kconfig = IF @ = "kernel" THEN "ksu" ELSE @]
                /\ End(<<"integrated">>)
                /\ TreeFrame

wire_kconfig_stopped == /\ at = <<"wire_kconfig">>
                        /\ tree.kconfig # "ksu"
                        /\ tree' = [tree EXCEPT !.kconfig = "torn"]
                        /\ Stopped
                        /\ TreeFrame

-----------------------------------------------------------------------------
(* 2-apply-patches.sh *)
require == /\ at = <<"require">>
           /\ IF tree.ksu # "absent" /\ tree.wired > 0 /\ tree.kconfig = "ksu"
                THEN GoTo(<<"hook", 1>>)
                ELSE Fail
           /\ UNCHANGED tree
           /\ TreeFrame

(* git apply takes a patch as a whole, and refuses one that is already in *)
hook(i) == /\ at = <<"hook", i>>
           /\ IF tree.hooks = i - 1
                THEN /\ tree' = [tree EXCEPT !.hooks = i]
                     /\ GoTo(IF i < Hooks THEN <<"hook", i + 1>> ELSE <<"susfs_patch">>)
                ELSE UNCHANGED tree /\ Fail
           /\ TreeFrame

(* With --reject the hunks that fit are applied, and the command fails *)
susfs_patch == /\ at = <<"susfs_patch">>
               /\ IF tree.susfs = "absent"
                    THEN /\ tree' = [tree EXCEPT !.susfs = "whole", !.objects = @ \cup {"susfs.o"}]
                         /\ GoTo(<<"cp", 1>>)
                    ELSE UNCHANGED tree /\ Fail
               /\ TreeFrame

(* Mutant: the script goes on after a git apply that left rejects *)
susfs_patch_unchecked == /\ at = <<"susfs_patch">>
                         /\ \E made \in SUBSET {"susfs.o"} :
                              tree' = [tree EXCEPT !.susfs = "torn", !.objects = @ \cup made]
                         /\ GoTo(<<"cp", 1>>)
                         /\ TreeFrame

(* The patch is cut short, or a tree it does not fit leaves rejects *)
susfs_patch_stopped == /\ at = <<"susfs_patch">>
                       /\ \E made \in SUBSET {"susfs.o"} :
                            tree' = [tree EXCEPT !.susfs = "torn", !.objects = @ \cup made]
                       /\ Stopped
                       /\ TreeFrame

cp(i) == /\ at = <<"cp", i>>
         /\ tree' = [tree EXCEPT !.copied = i]
         /\ GoTo(IF i < Len(Sources) THEN <<"cp", i + 1>> ELSE <<"fs_makefile">>)
         /\ TreeFrame

fs_makefile == /\ at = <<"fs_makefile">>
               /\ tree' = [tree EXCEPT !.objects = IF "susfs.o" \notin @
                                                   THEN @ \cup {"susfs.o", "sus_su.o"} ELSE @]
               /\ GoTo(<<"sanity">>)
               /\ TreeFrame

sanity == /\ at = <<"sanity">>
          /\ End(IF "DEFAULT_SUS_MNT_ID" \in HeaderNames THEN <<"patched">> ELSE <<"susfs.h corrupt">>)
          /\ UNCHANGED tree
          /\ TreeFrame

(* Mutant: mkdir -p without the rm -rf before it *)
rm_out_kept == /\ at = <<"rm_out">>
               /\ GoTo(<<"defconfig">>)
               /\ UNCHANGED <<out, builds>>
               /\ OutFrame

-----------------------------------------------------------------------------
(* 3-configure.sh *)
rm_out == /\ at = <<"rm_out">>
          /\ out' = NoOut
          /\ GoTo(<<"defconfig">>)
          /\ UNCHANGED builds
          /\ OutFrame

rm_out_stopped == /\ at = <<"rm_out">>
                  /\ out' \in OutRemnants
                  /\ Stopped
                  /\ UNCHANGED builds
                  /\ OutFrame

defconfig == /\ at = <<"defconfig">>
             /\ IF tree.kconfig = "ksu" /\ tree.ksu = "absent"
                  THEN UNCHANGED out /\ Fail
                  ELSE out' = [out EXCEPT !.config = "kernel"] /\ GoTo(<<"flags">>)
             /\ UNCHANGED builds
             /\ OutFrame

(* olddefconfig drops the flags of options that no Kconfig declares *)
flags == /\ at = <<"flags">>
         /\ out' = [out EXCEPT !.config = IF tree.kconfig = "ksu" THEN "ksu" ELSE "kernel"]
         /\ End(<<"configured">>)
         /\ UNCHANGED builds
         /\ OutFrame

-----------------------------------------------------------------------------
(* 4-build.sh.  The test for compilers leaves out the one for arm32. *)
compilers == /\ at = <<"compilers">>
             /\ IF HasCompiler("clang") /\ HasCompiler("aarch64") THEN GoTo(<<"extraversion">>) ELSE Fail
             /\ UNCHANGED <<out, builds>>
             /\ OutFrame

extraversion == /\ at = <<"extraversion">>
                /\ tree' = [tree EXCEPT !.version = IF @ = "unset" THEN "tag" ELSE @]
                /\ GoTo(<<"make_image">>)
                /\ TreeFrame

make_image == /\ at = <<"make_image">>
              /\ IF out.config = "none"
                   THEN UNCHANGED <<out, builds>> /\ Fail
                   ELSE /\ builds' = builds + 1
                        /\ out' = [out EXCEPT !.Image = [build |-> builds', config |-> out.config,
                                                         version |-> tree.version]]
                        /\ GoTo(<<"make_dtbs">>)
              /\ OutFrame

(* Errors of make dtbs are tolerated: the base DTB may be made or not *)
make_dtbs == /\ at = <<"make_dtbs">>
             /\ \E made \in BOOLEAN : out' = [out EXCEPT !.dtb = @ \/ made]
             /\ GoTo(<<"assemble">>)
             /\ UNCHANGED builds
             /\ OutFrame

(* Mutant: an Image.gz-dtb that is there is left as it is *)
assemble_once == /\ at = <<"assemble">>
                 /\ out' = [out EXCEPT !.gz = IF out.dtb /\ @ = NoImage THEN out.Image ELSE @]
                 /\ GoTo(<<"look">>)
                 /\ UNCHANGED builds
                 /\ OutFrame

assemble == /\ at = <<"assemble">>
            /\ out' = [out EXCEPT !.gz = IF out.dtb THEN out.Image ELSE @]
            /\ GoTo(<<"look">>)
            /\ UNCHANGED builds
            /\ OutFrame

assemble_stopped == /\ at = <<"assemble">>
                    /\ out.dtb
                    /\ out' = [out EXCEPT !.gz = TornImage]
                    /\ Stopped
                    /\ UNCHANGED builds
                    /\ OutFrame

(* The image that 4-build.sh reports and 6-package-ak3.sh takes: the first *)
(* of Image.gz-dtb and Image that is there.  No target makes Image.lz4-dtb. *)
Preferred == IF out.gz # NoImage THEN "gz" ELSE "Image"
PreferredImage == IF out.gz # NoImage THEN out.gz ELSE out.Image

look == /\ at = <<"look">>
        /\ End(<<"success", PreferredImage>>)
        /\ UNCHANGED <<out, builds>>
        /\ OutFrame

-----------------------------------------------------------------------------
(* 6-package-ak3.sh *)
find_image == /\ at = <<"find_image">>
              /\ IF PreferredImage # NoImage THEN GoTo(<<"clean_ak3">>) ELSE Fail
              /\ UNCHANGED <<ak3, zip>>
              /\ PackFrame

clean_ak3 == /\ at = <<"clean_ak3">>
             /\ ak3' = {}
             /\ GoTo(<<"cp_image">>)
             /\ UNCHANGED zip
             /\ PackFrame

cp_image == /\ at = <<"cp_image">>
            /\ ak3' = ak3 \cup {Preferred}
            /\ GoTo(<<"make_zip">>)
            /\ UNCHANGED zip
            /\ PackFrame

make_zip == /\ at = <<"make_zip">>
            /\ zip' = ak3
            /\ End(<<"zip">>)
            /\ UNCHANGED ak3
            /\ PackFrame

make_zip_stopped == /\ at = <<"make_zip">>
                    /\ zip' = NoZip
                    /\ Stopped
                    /\ UNCHANGED ak3
                    /\ PackFrame

-----------------------------------------------------------------------------
prep_kernel == rm_tree \/ rm_tree_stopped \/ clone
fetch_toolchain(t) == fetch(t) \/ extract(t) \/ extract_stopped(t)
setup_ksu == rm_ksu \/ copy_ksu \/ rm_or_copy_ksu_stopped \/ wire_makefile \/ wire_kconfig
               \/ wire_kconfig_stopped
apply_patches == \/ require \/ susfs_patch \/ susfs_patch_stopped \/ fs_makefile \/ sanity
                 \/ \E i \in 1..Hooks : hook(i)
                 \/ \E i \in 1..Len(Sources) : cp(i)
configure == rm_out \/ rm_out_stopped \/ defconfig \/ flags
build == compilers \/ extraversion \/ make_image \/ make_dtbs \/ assemble \/ assemble_stopped \/ look
package == find_image \/ clean_ak3 \/ cp_image \/ make_zip \/ make_zip_stopped

Next == \/ Start \/ Stop
        \/ prep_kernel
        \/ \E t \in Toolchains : fetch_toolchain(t)
        \/ setup_ksu \/ apply_patches \/ configure \/ build \/ package

Spec == Init /\ [][Next]_vars

-----------------------------------------------------------------------------
(* The type of the state, and where a script can be *)
Steps == {<<s>> : s \in {"shell", "rm_tree", "clone", "rm_ksu", "copy_ksu", "wire_makefile",
                         "wire_kconfig", "require", "susfs_patch", "fs_makefile", "sanity",
                         "rm_out", "defconfig", "flags", "compilers", "extraversion", "make_image",
                         "make_dtbs", "assemble", "look", "find_image", "clean_ak3", "cp_image",
                         "make_zip"}}
           \cup {"fetch", "extract"} \X Toolchains
           \cup {"hook"} \X (1..Hooks) \cup {"cp"} \X (1..Len(Sources))

AtOK == at \in Steps
ToolchainOK == toolchain \in [Toolchains -> {"absent", "headless", "partial", "whole"}]
TreeOK == tree \in [cloned : BOOLEAN, ksu : {"absent", "torn", "whole"}, wired : 0..1,
                    kconfig : {"kernel", "torn", "ksu"}, hooks : 0..Hooks,
                    susfs : {"absent", "torn", "whole"}, copied : 0..Len(Sources),
                    objects : SUBSET {"susfs.o", "sus_su.o"}, version : {"unset", "kernel", "tag"}]
OutOK == out \in [config : {"none", "kernel", "ksu"}, Image : Images, gz : Images, dtb : BOOLEAN]
PackOK == ak3 \subseteq {"Image", "gz"} /\ zip \subseteq {"Image", "gz"}
BoundsOK == builds \in 0..MaxBuilds /\ stops \in 0..MaxStops

(* Type invariant.  drivers/Makefile gets its line for KernelSU at most    *)
(* once (wired is below two) however often 1-setup-ksu.sh is run.          *)
TypeOK == AtOK /\ ToolchainOK /\ TreeOK /\ OutOK /\ PackOK /\ BoundsOK

(* When 2-apply-patches.sh gets to its sanity check, every hook, the whole *)
(* susfs patch and every susfs source is in the tree, whatever earlier     *)
(* runs of the scripts left there when they were stopped.                  *)
AppliedIsWhole ==
  at = <<"sanity">> => /\ tree.hooks = Hooks
                       /\ tree.susfs = "whole"
                       /\ tree.copied = Len(Sources)
                       /\ "susfs.o" \in tree.objects

(* An image in the output directory was made with the configuration that   *)
(* is there now: 3-configure.sh leaves no image of an older one that       *)
(* 6-package-ak3.sh could take.                                            *)
ImagesMatchConfig ==
  \A image \in {out.Image, out.gz} \ {NoImage, TornImage} :
    out.config = "none" \/ image.config = out.config

(* When there is a base DTB, the image that 4-build.sh reports as its      *)
(* success is the one it has just made, not one of an earlier build.       *)
SuccessIsThisBuild == said[1] = "success" /\ out.dtb => said[2].build = builds

(* A package has exactly one kernel image, whatever was packaged before    *)
(* under another name and wherever the packaging was stopped.              *)
OneImageInZip == zip # NoZip => Cardinality(zip) = 1

(* "susfs.h corrupt" is said only of a susfs.h that is not the             *)
(* repository's; each step ends with the file copied whole.                *)
CorruptIsNotCopied == said = <<"susfs.h corrupt">> => tree.copied < Len(Sources)

=============================================================================
