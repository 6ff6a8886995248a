------------------------------ MODULE XdfTool ------------------------------
(***************************************************************************)
(* Sessions of amitools/tools/xdftool.py: a list of commands on one image  *)
(* file, through a block device and an ADFSVolume that are set up when the *)
(* first command needs them and stay open until the list ends.  An ADF     *)
(* image is kept in memory and written back at close(), an HDF image is    *)
(* written block by block; both volumes write their bitmap at close()      *)
(* only.  How files are laid out is the subject of ADFS: here an entry     *)
(* takes one block.  A session may be killed at any time.                  *)
(***************************************************************************)
EXTENDS Integers, FiniteSets, Functions

CONSTANTS
    XFiles,      \* names of entries of the root directory
    XBlocks,     \* blocks that entries can take
    Labels,      \* volume names
    NoImage      \* no file, no device, no volume

VARIABLES
    image,       \* the image file: NoImage or its contents
    blkdev,      \* NoImage or the open block device
    volume,      \* NoImage or the open ADFSVolume
    session,     \* "none", "rw" or "ro" (-r was given)
    init_vol     \* how a missing volume is set up: "none", "open" or a label
xdf_vars == <<image, blkdev, volume, session, init_vol>>

Kinds == {"adf", "hdf"}
\* Images, devices and volumes; torn: the image lost the bitmap of a session that was killed.
XImages == [kind : Kinds, label : Labels \cup {NoImage}, files : UNION {[names -> XBlocks] : names \in SUBSET XFiles},
            bm : SUBSET XBlocks, torn : BOOLEAN]
XDevices == [kind : Kinds, ro : BOOLEAN, data : XImages, dirty : BOOLEAN]
XVolumes == [bm : SUBSET XBlocks, dirty : BOOLEAN]
ASSUME NoImageAssumption == NoImage \notin XImages /\ NoImage \notin XDevices /\ NoImage \notin XVolumes

Unformatted(kind) == [kind |-> kind, label |-> NoImage, files |-> <<>>, bm |-> {}, torn |-> FALSE]

-----------------------------------------------------------------------------
(* A session's objects as a record, so that the steps of a command compose *)
Now == [image |-> image, blkdev |-> blkdev, volume |-> volume]

\* What a reader of the open device sees.
Data(s) == IF s.blkdev.kind = "adf" THEN s.blkdev.data ELSE s.image
\* write_block(): into the copy of an ADF, into the file of an HDF.
Put(s, c) == IF s.blkdev.kind = "adf" THEN [s EXCEPT !.blkdev.data = c, !.blkdev.dirty = TRUE]
             ELSE [s EXCEPT !.image = c]

blkdev_open(s, ro) ==
    [s EXCEPT !.blkdev = [kind |-> s.image.kind, ro |-> ro, data |-> s.image, dirty |-> FALSE]]
blkdev_create(s, kind) ==
    [s EXCEPT !.blkdev = [kind |-> kind, ro |-> FALSE, data |-> Unformatted(kind), dirty |-> TRUE],
              !.image = IF kind = "adf" THEN @ ELSE Unformatted(kind)]
\* flush() and close() of the device.
blkdev_close(s) ==
    [s EXCEPT !.image = IF s.blkdev.kind = "adf" /\ s.blkdev.dirty /\ ~s.blkdev.ro THEN s.blkdev.data ELSE @,
              !.blkdev = NoImage]

volume_open(s) == [s EXCEPT !.volume = [bm |-> Data(s).bm, dirty |-> FALSE]]
volume_create(s, label) ==
    [Put(s, [Data(s) EXCEPT !.label = label, !.files = <<>>, !.bm = {}, !.torn = FALSE])
        EXCEPT !.volume = [bm |-> {}, dirty |-> FALSE]]
\* Mutant: the bitmap is not written at close().
volume_close_forgets(s) == [s EXCEPT !.volume = NoImage]

volume_close(s) ==
    LET t == IF s.volume.dirty THEN Put(s, [Data(s) EXCEPT !.bm = s.volume.bm]) ELSE s
    IN  [t EXCEPT !.volume = NoImage]

close_all(s) ==
    LET t == IF s.volume # NoImage THEN volume_close(s) ELSE s
    IN  IF t.blkdev # NoImage THEN blkdev_close(t) ELSE t

\* The entries of a directory with some more.
With(files, new) == [n \in DOMAIN files \cup DOMAIN new |-> IF n \in DOMAIN new THEN new[n] ELSE files[n]]
\* create_file() and delete() of the volume: blocks are written at once, the bitmap in
\* memory changes.
Added(s, f, b) ==
    [Put(s, [Data(s) EXCEPT !.files = With(@, [n \in {f} |-> b])]) EXCEPT !.volume = [bm |-> @.bm \cup {b}, dirty |-> TRUE]]
Removed(s, f) ==
    LET c == Data(s) IN
    [Put(s, [c EXCEPT !.files = Restrict(@, DOMAIN @ \ {f})])
        EXCEPT !.volume = [bm |-> @.bm \ {c.files[f]}, dirty |-> TRUE]]

-----------------------------------------------------------------------------
(* FSCommandQueue *)
XdfInit ==
    /\ image = NoImage /\ blkdev = NoImage /\ volume = NoImage
    /\ session = "none" /\ init_vol = "none"

Become(s) == image' = s.image /\ blkdev' = s.blkdev /\ volume' = s.volume

\* The first command starts the session; commands that bring no init_blkdev of their
\* own get the one of OpenCmd.
Start ==
    /\ session = "none"
    /\ session' \in {"rw", "ro"}
    /\ init_vol' \in {"none", "open"}
    /\ UNCHANGED <<image, blkdev, volume>>

Running == session # "none"
\* The set up of run_next() for a command without init methods.
HasDev(s) == IF s.blkdev # NoImage THEN s ELSE blkdev_open(s, session = "ro")
HasVol(s) == IF s.volume # NoImage THEN s
             ELSE IF init_vol = "open" THEN volume_open(s) ELSE volume_create(s, init_vol)
CanDev(s) == s.blkdev # NoImage \/ (s.image # NoImage /\ init_vol # "none")
CanVol(s) ==
    s.volume # NoImage \/ init_vol \in Labels \/ (init_vol = "open" /\ Data(s).label # NoImage)

OpenCmd ==
    /\ Running
    /\ LET s == close_all(Now) IN s.image # NoImage /\ Become(blkdev_open(s, session = "ro"))
    /\ init_vol' = "open"
    /\ UNCHANGED session

CreateCmd ==
    /\ session = "rw" /\ blkdev = NoImage /\ init_vol = "none"
    /\ \E kind \in Kinds : Become(blkdev_create(Now, kind))
    /\ UNCHANGED <<session, init_vol>>

\* The device is opened for writing even in a read-only session.  A volume that is
\* open already stays as it is.
FormatCmd ==
    /\ Running /\ (blkdev # NoImage \/ init_vol = "none")
    /\ \E label \in Labels, kind \in Kinds :
          LET s == IF blkdev # NoImage THEN Now
                   ELSE IF image # NoImage THEN blkdev_open(Now, FALSE) ELSE blkdev_create(Now, kind)
          IN  /\ ~s.blkdev.ro \/ volume # NoImage
              /\ Become(IF volume # NoImage THEN s ELSE volume_create(s, label))
              /\ init_vol' = label
    /\ UNCHANGED session

\* The blocks that entries of a host directory are given, one after the other.
Packed(s) ==
    {new \in UNION {[names -> XBlocks \ s.volume.bm] : names \in SUBSET (XFiles \ DOMAIN Data(s).files)} :
        IsInjective(new)}

\* pack and repack: a new image and volume unless they are open, then entry after
\* entry; an entry that exists or finds no free block ends the session.
PackCmd ==
    /\ session = "rw" /\ (blkdev # NoImage \/ init_vol = "none")
    /\ \E label \in Labels, kind \in Kinds :
          LET s0 == IF blkdev # NoImage THEN Now ELSE blkdev_create(Now, kind)
              s == IF volume # NoImage THEN s0 ELSE volume_create(s0, label)
          IN  \E new \in Packed(s) :
                 LET t == [Put(s, [Data(s) EXCEPT !.files = With(@, new)])
                             EXCEPT !.volume = [bm |-> @.bm \cup Range(new), dirty |-> @.dirty \/ new # <<>>]]
                 IN  \/ Become(t) /\ init_vol' = label /\ UNCHANGED session
                     \/ Become(close_all(t)) /\ init_vol' = "none" /\ session' = "none"

\* A command that reads the volume sets it up and changes nothing.
Query ==
    /\ Running
    /\ CanDev(Now) /\ CanVol(HasDev(Now))
    /\ init_vol = "open" \/ volume # NoImage
    /\ Become(HasVol(HasDev(Now)))
    /\ UNCHANGED <<session, init_vol>>

\* list, type, read and info; block and bitmap, which look at single blocks.
ListCmd == Query
BlockCmd == Query

Editable == session = "rw" /\ CanDev(Now) /\ CanVol(HasDev(Now))

\* write and makedir.
WriteCmd ==
    /\ Editable
    /\ LET s == HasVol(HasDev(Now)) IN
       \E f \in XFiles \ DOMAIN Data(s).files, b \in XBlocks \ s.volume.bm : Become(Added(s, f, b))
    /\ UNCHANGED <<session, init_vol>>

DeleteCmd ==
    /\ Editable
    /\ LET s == HasVol(HasDev(Now)) IN
       \E f \in DOMAIN Data(s).files : Become(Removed(s, f))
    /\ UNCHANGED <<session, init_vol>>

\* protect, comment and time rewrite the entry's header in place.
ProtectCmd ==
    /\ Editable
    /\ LET s == HasVol(HasDev(Now)) IN
       \E f \in DOMAIN Data(s).files : Become(Put(s, Data(s)))
    /\ UNCHANGED <<session, init_vol>>

RelabelCmd ==
    /\ Editable
    /\ LET s == HasVol(HasDev(Now)) IN
       \E label \in Labels : Become(Put(s, [Data(s) EXCEPT !.label = label]))
    /\ UNCHANGED <<session, init_vol>>

\* write_block() refuses a device that was opened for reading.
Writable(s) == ~s.blkdev.ro

\* boot and root write although they do not count as edit commands: only the device
\* keeps a read-only session from it.  The label stands for what they write.
BootCmd ==
    /\ Running /\ CanDev(Now) /\ Writable(HasDev(Now))
    /\ LET s == HasDev(Now) IN
       \E label \in Labels : Data(s).label # NoImage /\ Become(Put(s, [Data(s) EXCEPT !.label = label]))
    /\ UNCHANGED <<session, init_vol>>

\* The end of the list or an error: _close_all().
End ==
    /\ Running
    /\ Become(close_all(Now))
    /\ session' = "none" /\ init_vol' = "none"

\* The process ends anywhere: what an ADF session did is lost, an HDF image keeps the
\* blocks and not the bitmap.
Kill ==
    /\ Running
    /\ blkdev' = NoImage /\ volume' = NoImage /\ session' = "none" /\ init_vol' = "none"
    /\ image' = IF volume # NoImage /\ volume.dirty /\ blkdev.kind = "hdf"
                THEN [image EXCEPT !.torn = TRUE] ELSE image

XdfNext ==
    \/ Start \/ OpenCmd \/ CreateCmd \/ FormatCmd \/ PackCmd \/ ListCmd \/ BlockCmd
    \/ WriteCmd \/ DeleteCmd \/ ProtectCmd \/ RelabelCmd \/ BootCmd \/ End \/ Kill

XdfSpec == XdfInit /\ [][XdfNext]_xdf_vars

-----------------------------------------------------------------------------
\* An image that no session works on has a bitmap that tells exactly the blocks of its
\* entries, in whatever way sessions ended, except for an HDF image whose session was
\* killed between writing blocks and close().
XdfBitmapRight ==
    session = "none" /\ image # NoImage => image.torn \/ image.bm = Range(image.files)

\* No two entries ever share a block, also when volumes are opened, reopened and
\* formatted within a session.
XdfFilesApart ==
    /\ image # NoImage => image.torn \/ IsInjective(image.files)
    /\ blkdev # NoImage => Data(Now).torn \/ IsInjective(Data(Now).files)

\* After any queue of commands that ended, and only then, bitmap and files of the image
\* agree; no two files share a block (CmdQueue).
XdfSound == XdfBitmapRight /\ XdfFilesApart
=============================================================================
