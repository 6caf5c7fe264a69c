----------------------------- MODULE BuildScripts -----------------------------
(***************************************************************************)
(* The stanzas of download.sh, build.sh, create_ramdisk.sh and             *)
(* create_root.sh, for BuildPipeline: one of each shape.  A run of rm -rf, *)
(* tar x, patch, configure and make in src/ leaves nothing a later run     *)
(* looks at, and is one command.                                           *)
(***************************************************************************)
EXTENDS BuildPipeline

nop == [needs |-> {}, absent |-> {}, begins |-> {}, makes |-> {}, removes |-> {},
        lax |-> FALSE, copies |-> FALSE]
Reading(needs)       == [nop EXCEPT !.needs = needs]
Making(needs, makes) == [nop EXCEPT !.needs = needs, !.makes = makes]
Removing(removes)    == [nop EXCEPT !.removes = removes]
(* ln -s, mkdir, git clone, losetup: they fail if it is there.             *)
Creating(f, needs)   == [nop EXCEPT !.needs = needs, !.absent = {f}, !.makes = {f}]

Stanza(option, marker, cmds) == [option |-> option, marker |-> marker, cmds |-> cmds]

-----------------------------------------------------------------------------
(* download.sh: git clone and checkout, tar zcf, rm -rf; or wget -O.       *)
Cloned(tarball, dir) ==
  Stanza(Always, tarball,
    <<Creating(dir, {}), Making({dir}, {tarball}), Removing({dir})>>)
Fetched(tarball) == Stanza(Always, tarball, <<Making({}, {tarball})>>)

(* A package is unpacked, built, and installed.  A run broken off before   *)
(* the first installed file leaves nothing.                                *)
(* A slip: the tree of an earlier run is not removed first.                *)
UnpackedOnce(tarball) == Creating("src/" \o tarball, {tarball, "i386-tcc"})
Unpacked(tarball)  == Reading({tarball, "i386-tcc"})
Installed(tarball, makes) == Making({tarball, "i386-tcc"}, makes)
(* Most packages are this and no more.                                     *)
Package(option, tarball, file) ==
  Stanza(option, file, <<Unpacked(tarball), Installed(tarball, {file})>>)
sbase == Package("SBASE", "sbase.tar.gz", "sbase-box")

tcc ==
  Stanza(Always, "i386-tcc",
    <<Reading({"tinycc.tar.gz"}), Making({"tinycc.tar.gz"}, {"i386-tcc"}),
      Making({}, {"libtcc1.a"})>>)

(* The compiled test is the marker; what its run shows comes after.        *)
test_stage1 ==
  Stanza(Always, "test-stage1",
    <<Making({"i386-tcc"}, {"test-stage1"}), Making({"test-stage1"}, {"test passed"})>>)

oksh ==
  Stanza("OKSH", "oksh",
    <<Unpacked("oksh.tar.gz"), Installed("oksh.tar.gz", {"oksh"}), Creating("sh", {})>>)

(* It is installed in sbin, moved to bin, and sbin removed.                *)
sdhcp ==
  Stanza("SDHCP", "bin/sdhcp",
    <<Unpacked("sdhcp.tar.gz"), Installed("sdhcp.tar.gz", {"sbin/sdhcp"}),
      [Making({"sbin/sdhcp"}, {"bin/sdhcp"}) EXCEPT !.removes = {"sbin/sdhcp"}], nop>>)

dropbear ==
  Stanza("DROPBEAR", "dropbearmulti",
    <<Unpacked("dropbear.tar.bz2"), Installed("dropbear.tar.bz2", {"dropbearmulti"}),
      Making({"dropbearmulti"}, {"dropbear links"}), Creating("etc/dropbear", {}),
      Making({"dropbear links", "etc/dropbear"}, {"host keys"})>>)

(* Built with the host's compiler.  The modules come after the marker, and *)
(* in find | xargs tar | tar only the last of the three is looked at.      *)
kernel ==
  Stanza(Always, "bzImage",
    <<Reading({"linux.tar.gz"}), Making({"linux.tar.gz"}, {"bzImage"}), nop,
      Removing({"modules"}),
      [nop EXCEPT !.begins = {"modules"}, !.absent = {"modules"}],
      [Making({"linux.tar.gz"}, {"modules"}) EXCEPT !.lax = TRUE]>>)

uflbbl ==
  Stanza(Always, "boot.img",
    <<Reading({"uflbbl.tar.gz"}), Making({"uflbbl.tar.gz"}, {"boot.img"})>>)

(* create_ramdisk.sh: find | cpio | xz > ../ramdisk.img.                   *)
RamdiskFiles == {"modules", "oksh", "sh", "sbase-box", "bin/sdhcp"}
create_ramdisk ==
  Stanza(Always, "ramdisk.img",
    <<Removing({"ramdisk/"}), Creating("ramdisk/", {}),
      Making({"ramdisk/"} \cup RamdiskFiles, {"ramdisk/"}),
      [Making({"ramdisk/"}, {"ramdisk.img"}) EXCEPT !.lax = TRUE]>>)

(* create_root.sh: dd, losetup, mke2fs and mount, cp, umount and losetup   *)
(* -d.  /dev/loop0 is no regular file, so the test -f for one an earlier   *)
(* run has left is never true.                                             *)
create_root ==
  Stanza(Always, "root.img",
    <<Removing({"root/"}), [nop EXCEPT !.begins = {"root.img"}],
      Creating("/dev/loop0", {}), Creating("root/", {}),
      [Making({"ramdisk.img", "bzImage", "boot.img"}, {"root.img"}) EXCEPT !.copies = TRUE],
      Removing({"/dev/loop0"})>>)

rdev == Stanza(Always, "tools/rdev", <<Making({"i386-tcc"}, {"tools/rdev"})>>)

(* floppy.img is there before it is split and its last piece padded.       *)
floppy ==
  Stanza(Always, "floppy.img",
    <<Making({"bzImage", "tools/rdev", "ramdisk.img"}, {"data.tar"}),
      Making({"boot.img", "data.tar"}, {"floppy.img"}),
      [nop EXCEPT !.needs = {"floppy.img"}, !.begins = {"floppy??"}],
      Making({"floppy.img"}, {"floppy??"})>>)

build_sh ==
  <<Cloned("tinycc.tar.gz", "tinycc/"), Fetched("oksh.tar.gz"), Cloned("sbase.tar.gz", "sbase/"),
    Cloned("sdhcp.tar.gz", "sdhcp/"), Cloned("uflbbl.tar.gz", "uflbbl/"),
    Fetched("linux.tar.gz"), Fetched("dropbear.tar.bz2"),
    tcc, test_stage1, oksh, sbase, sdhcp, dropbear, kernel, uflbbl,
    create_ramdisk, create_root, rdev, floppy>>

(* clean.sh leaves downloads/, the two directories (but not what is in     *)
(* them) and the loop device.                                              *)
clean_sh ==
  {"tinycc.tar.gz", "tinycc/", "oksh.tar.gz", "sbase.tar.gz", "sbase/", "sdhcp.tar.gz",
   "sdhcp/", "uflbbl.tar.gz", "uflbbl/", "linux.tar.gz", "dropbear.tar.bz2",
   "ramdisk/", "root/", "/dev/loop0"}

(* A clone broken off between git clone and rm -rf, and a root image       *)
(* broken off between losetup and losetup -d.                              *)
left_behind == {"tinycc/", "sbase/", "sdhcp/", "uflbbl/", "/dev/loop0"}
=============================================================================
