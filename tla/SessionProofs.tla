---------------------------- MODULE SessionProofs ----------------------------
(***************************************************************************)
(* What sessions leave behind.  Sessions of xdftool leave sound images:    *)
(* bitmap and entries of an image agree after any queue of commands, for   *)
(* any names, blocks and labels.  Processes of vamos leave nothing         *)
(* allocated when they end, and a shell is as it was after a command, for  *)
(* any number of processes and nested runs.  Their file handles and their  *)
(* terminal read on where they were, for any files, handles and sizes, and *)
(* variables are found with the text that was stored, for any values.      *)
(***************************************************************************)
EXTENDS XdfTool, DosProc, DosFiles, DosVars, ListLemmas, FiniteSetTheorems

(***************************************************************************)
(* Commands of xdftool are made of a few steps on the session's objects.   *)
(* One lemma for each of these shows that it keeps the image, the open     *)
(* device and the open volume consistent; the actions then combine them.   *)
(***************************************************************************)
-----------------------------------------------------------------------------
States == [image : XImages \cup {NoImage}, blkdev : XDevices \cup {NoImage},
           volume : XVolumes \cup {NoImage}]

\* the device writes into the image file itself
OnHdf(s) == s.blkdev # NoImage /\ s.blkdev.kind = "hdf"

\* an image that is not written to
Clean(c) == c.torn \/ (c.bm = Range(c.files) /\ IsInjective(c.files))

\* what the open device shows, below a volume or none
Fits(c, v) ==
    IF v = NoImage THEN Clean(c)
    ELSE c.torn \/ /\ IsInjective(c.files)
                   /\ v.bm = Range(c.files)
                   /\ ~v.dirty => c.bm = v.bm

\* The objects of a session.  A volume's bitmap is ahead of the device's only while it is
\* dirty, and an image that the device does not write into is always clean.
Good(s) ==
    /\ s \in States
    /\ s.blkdev = NoImage => s.volume = NoImage
    /\ OnHdf(s) => s.image # NoImage
    /\ s.image # NoImage /\ ~OnHdf(s) => Clean(s.image)
    /\ s.blkdev # NoImage => Fits(Data(s), s.volume)

(***************************************************************************)
(* The inductive invariant.                                                *)
(***************************************************************************)
XdfInv == Good(Now) /\ (session = "none" => blkdev = NoImage)

-----------------------------------------------------------------------------
(* Images.                                                                 *)

Tables == UNION {[names -> XBlocks] : names \in SUBSET XFiles}

\* No entries: the table of a new volume.
LEMMA NoEntries == <<>> \in Tables /\ DOMAIN <<>> = {} /\ Range(<<>>) = {} /\ IsInjective(<<>>)
<1>1. DOMAIN <<>> = {}
  OBVIOUS
<1>2. <<>> = [n \in {} |-> NoImage]
  BY <1>1
<1>3. <<>> \in [{} -> XBlocks]
  BY <1>1
<1>4. {} \in SUBSET XFiles
  OBVIOUS
<1>5. <<>> \in Tables
  BY <1>3, <1>4 DEF Tables
<1>6. Range(<<>>) = {}
  BY <1>1 DEF Range
<1>7. IsInjective(<<>>)
  BY <1>1 DEF IsInjective
<1> QED BY <1>1, <1>5, <1>6, <1>7

\* A table is a function from some of the names into the blocks.
LEMMA TableFacts ==
    ASSUME NEW f \in Tables
    PROVE  DOMAIN f \in SUBSET XFiles /\ f \in [DOMAIN f -> XBlocks]
BY DEF Tables

\* More entries take more blocks, and stay apart if the new ones take blocks of their own.
LEMMA TableGrows ==
    ASSUME NEW f \in Tables, NEW g \in Tables, DOMAIN g \subseteq XFiles \ DOMAIN f
    PROVE  /\ With(f, g) \in Tables
           /\ Range(With(f, g)) = Range(f) \cup Range(g)
           /\ IsInjective(f) /\ IsInjective(g) /\ Range(f) \cap Range(g) = {} => IsInjective(With(f, g))
<1> DEFINE h == With(f, g)
<1>1. f \in [DOMAIN f -> XBlocks] /\ g \in [DOMAIN g -> XBlocks] /\ DOMAIN f \subseteq XFiles
  BY TableFacts
<1>2. DOMAIN h = DOMAIN f \cup DOMAIN g /\ \A n \in DOMAIN f \cup DOMAIN g : h[n] = IF n \in DOMAIN g THEN g[n] ELSE f[n]
  BY DEF With
<1>3. h \in [DOMAIN f \cup DOMAIN g -> XBlocks]
  BY <1>1 DEF With
<1>4. DOMAIN f \cup DOMAIN g \in SUBSET XFiles
  BY <1>1
<1>5. h \in Tables
  BY <1>3, <1>4 DEF Tables
<1>6. (\A n \in DOMAIN f : h[n] = f[n]) /\ (\A n \in DOMAIN g : h[n] = g[n])
  BY <1>2
<1> HIDE DEF h
<1>7. Range(h) = Range(f) \cup Range(g)
  BY <1>2, <1>6 DEF Range
<1>8. ASSUME IsInjective(f), IsInjective(g), Range(f) \cap Range(g) = {}
      PROVE  IsInjective(h)
  <2> SUFFICES ASSUME NEW m \in DOMAIN h, NEW n \in DOMAIN h, h[m] = h[n] PROVE m = n
    BY DEF IsInjective
  <2>1. \A x \in DOMAIN f, y \in DOMAIN g : f[x] # g[y]
    BY <1>8 DEF Range
  <2>2. CASE m \in DOMAIN f /\ n \in DOMAIN f
    BY <2>2, <1>6, <1>8 DEF IsInjective
  <2>3. CASE m \in DOMAIN g /\ n \in DOMAIN g
    BY <2>3, <1>6, <1>8 DEF IsInjective
  <2> QED BY <2>1, <2>2, <2>3, <1>2, <1>6
<1> QED BY <1>5, <1>7, <1>8 DEF h

\* Without an entry its block is free.
LEMMA TableShrinks ==
    ASSUME NEW f \in Tables, NEW n \in DOMAIN f
    PROVE  /\ Restrict(f, DOMAIN f \ {n}) \in Tables
           /\ IsInjective(f) => /\ IsInjective(Restrict(f, DOMAIN f \ {n}))
                                /\ Range(Restrict(f, DOMAIN f \ {n})) = Range(f) \ {f[n]}
<1> DEFINE D == DOMAIN f \ {n}
           h == Restrict(f, D)
<1>1. f \in [DOMAIN f -> XBlocks] /\ DOMAIN f \subseteq XFiles
  BY TableFacts
<1>2. DOMAIN h = D /\ \A m \in D : h[m] = f[m]
  BY DEF Restrict
<1>3. h \in [D -> XBlocks]
  BY <1>1 DEF Restrict
<1>4. D \in SUBSET XFiles
  BY <1>1
<1>5. h \in Tables
  BY <1>3, <1>4 DEF Tables
<1> HIDE DEF h
<1>6. ASSUME IsInjective(f)
      PROVE  IsInjective(h) /\ Range(h) = Range(f) \ {f[n]}
  <2>1. IsInjective(h)
    BY <1>2, <1>6 DEF IsInjective
  <2>2. Range(h) = Range(f) \ {f[n]}
    BY <1>2, <1>6 DEF IsInjective, Range
  <2> QED BY <2>1, <2>2
<1> QED BY <1>5, <1>6 DEF h

-----------------------------------------------------------------------------
(* The steps of commands.                                                  *)

\* Another object in a session.
LEMMA RecordPart ==
    ASSUME NEW s \in States, NEW e
    PROVE  /\ [s EXCEPT !.image = e] = [image |-> e, blkdev |-> s.blkdev, volume |-> s.volume]
           /\ [s EXCEPT !.blkdev = e] = [image |-> s.image, blkdev |-> e, volume |-> s.volume]
           /\ [s EXCEPT !.volume = e] = [image |-> s.image, blkdev |-> s.blkdev, volume |-> e]
<1> DEFINE x == s.image
           y == s.blkdev
           z == s.volume
<1>1. s = [image |-> x, blkdev |-> y, volume |-> z]
  BY DEF States
<1> HIDE DEF x, y, z
<1>2. [s EXCEPT !.image = e] = [image |-> e, blkdev |-> y, volume |-> z]
  BY <1>1
<1>3. [s EXCEPT !.blkdev = e] = [image |-> x, blkdev |-> e, volume |-> z]
  BY <1>1
<1>4. [s EXCEPT !.volume = e] = [image |-> x, blkdev |-> y, volume |-> e]
  BY <1>1
<1> QED BY <1>2, <1>3, <1>4 DEF x, y, z

\* Another object, and then another volume.
LEMMA RecordVolume ==
    ASSUME NEW s \in States, NEW e, NEW v
    PROVE  /\ [[s EXCEPT !.image = e] EXCEPT !.volume = v] = [image |-> e, blkdev |-> s.blkdev, volume |-> v]
           /\ [[s EXCEPT !.blkdev = e] EXCEPT !.volume = v] = [image |-> s.image, blkdev |-> e, volume |-> v]
<1> DEFINE r == [s EXCEPT !.image = e]
           q == [s EXCEPT !.blkdev = e]
           x == s.image
           y == s.blkdev
           z == s.volume
<1>1. r = [image |-> e, blkdev |-> y, volume |-> z]
  BY RecordPart
<1>2. q = [image |-> x, blkdev |-> e, volume |-> z]
  BY RecordPart
<1> HIDE DEF r, q, x, y, z
<1>3. [r EXCEPT !.volume = v] = [image |-> e, blkdev |-> y, volume |-> v]
  BY <1>1
<1>4. [q EXCEPT !.volume = v] = [image |-> x, blkdev |-> e, volume |-> v]
  BY <1>2
<1> QED BY <1>3, <1>4 DEF r, q, x, y

\* Another image and another device.
LEMMA RecordBoth ==
    ASSUME NEW s \in States, NEW i, NEW d
    PROVE  /\ [s EXCEPT !.image = i, !.blkdev = d] = [image |-> i, blkdev |-> d, volume |-> s.volume]
           /\ [s EXCEPT !.blkdev = d, !.image = i] = [image |-> i, blkdev |-> d, volume |-> s.volume]
<1> DEFINE r == [s EXCEPT !.image = i, !.blkdev = d]
           q == [s EXCEPT !.blkdev = d, !.image = i]
           z == s.volume
<1>1. DOMAIN s = {"image", "blkdev", "volume"}
  BY DEF States
<1>2. DOMAIN r = {"image", "blkdev", "volume"} /\ DOMAIN q = {"image", "blkdev", "volume"}
  BY <1>1
<1>3. r.image = i /\ r.blkdev = d /\ r.volume = z
  BY <1>1
<1>4. q.image = i /\ q.blkdev = d /\ q.volume = z
  BY <1>1
<1>5. r = [k \in DOMAIN r |-> r[k]] /\ q = [k \in DOMAIN q |-> q[k]]
  OBVIOUS
<1> HIDE DEF r, q, z
<1>6. r = [image |-> i, blkdev |-> d, volume |-> z]
  BY <1>2, <1>3, <1>5
<1>7. q = [image |-> i, blkdev |-> d, volume |-> z]
  BY <1>2, <1>4, <1>5
<1> QED BY <1>6, <1>7 DEF r, q, z

\* The device shows an image.
LEMMA DataImage ==
    ASSUME NEW s, Good(s), s.blkdev # NoImage
    PROVE  Data(s) \in XImages
BY DEF Good, States, OnHdf, Data, XDevices, Kinds

\* Writing an image below a volume that it fits.
LEMMA PutGood ==
    ASSUME NEW s, Good(s), s.blkdev # NoImage, NEW c \in XImages,
           NEW v \in XVolumes \cup {NoImage}, Fits(c, v)
    PROVE  LET t == [Put(s, c) EXCEPT !.volume = v] IN
           Good(t) /\ t.blkdev # NoImage /\ t.volume = v /\ Data(t) = c
<1> DEFINE t == [Put(s, c) EXCEPT !.volume = v]
<1>1. s \in States /\ s.blkdev \in XDevices /\ s.blkdev.kind \in Kinds
  BY DEF Good, States, XDevices
<1>2. CASE s.blkdev.kind = "adf"
  <2> DEFINE d == [s.blkdev EXCEPT !.data = c, !.dirty = TRUE]
  <2>1. d \in XDevices /\ d.kind = "adf" /\ d.data = c
    BY <1>1, <1>2 DEF XDevices
  <2>2. t = [image |-> s.image, blkdev |-> d, volume |-> v]
    <3>1. Put(s, c) = [s EXCEPT !.blkdev = d]
      BY <1>1, <1>2 DEF Put, XDevices
    <3> HIDE DEF d
    <3>2. t = [[s EXCEPT !.blkdev = d] EXCEPT !.volume = v]
      BY <3>1
    <3> HIDE DEF t
    <3> QED BY <3>2, <1>1, RecordVolume
  <2> HIDE DEF d, t
  <2>3. t \in States /\ t.blkdev = d /\ t.volume = v /\ t.image = s.image
    BY <1>1, <2>1, <2>2 DEF States
  <2>4. d # NoImage
    BY <2>1, NoImageAssumption
  <2>5. Data(t) = c
    BY <2>1, <2>3 DEF Data
  <2>6. ~OnHdf(t) /\ ~OnHdf(s)
    BY <1>2, <2>1, <2>3 DEF OnHdf
  <2>7. s.image # NoImage => Clean(s.image)
    BY <2>6 DEF Good
  <2>8. Good(t)
    BY <2>3, <2>4, <2>5, <2>6, <2>7 DEF Good
  <2> QED BY <2>3, <2>4, <2>5, <2>8 DEF t
<1>3. CASE s.blkdev.kind # "adf"
  <2>1. t = [image |-> c, blkdev |-> s.blkdev, volume |-> v]
    <3>1. Put(s, c) = [s EXCEPT !.image = c]
      BY <1>3 DEF Put
    <3>2. t = [[s EXCEPT !.image = c] EXCEPT !.volume = v]
      BY <3>1
    <3> HIDE DEF t
    <3> QED BY <3>2, <1>1, RecordVolume
  <2> HIDE DEF t
  <2>2. t \in States /\ t.blkdev = s.blkdev /\ t.volume = v /\ t.image = c
    BY <1>1, <2>1 DEF States
  <2>3. OnHdf(t)
    BY <1>1, <1>3, <2>2 DEF OnHdf, Kinds
  <2>4. Data(t) = c
    BY <1>3, <2>2 DEF Data
  <2>5. c # NoImage
    BY NoImageAssumption
  <2>6. Good(t)
    BY <2>2, <2>3, <2>4, <2>5 DEF Good
  <2> QED BY <2>2, <2>4, <2>6 DEF t
<1> QED BY <1>2, <1>3

\* Writing an image and leaving the volume.
LEMMA PutSame ==
    ASSUME NEW s, Good(s), s.blkdev # NoImage, NEW c \in XImages, Fits(c, s.volume)
    PROVE  Good(Put(s, c)) /\ Put(s, c).blkdev # NoImage /\ Put(s, c).volume = s.volume
<1> DEFINE r == Put(s, c)
           t == [r EXCEPT !.volume = s.volume]
<1>1. s \in States /\ s.volume \in XVolumes \cup {NoImage} /\ s.blkdev \in XDevices
  BY DEF Good, States
<1>2. Good(t) /\ t.blkdev # NoImage /\ t.volume = s.volume
  BY <1>1, PutGood
<1>3. r.volume = s.volume /\ r = [image |-> r.image, blkdev |-> r.blkdev, volume |-> r.volume]
  <2>1. CASE s.blkdev.kind = "adf"
    <3> DEFINE d == [s.blkdev EXCEPT !.data = c, !.dirty = TRUE]
    <3>1. r = [s EXCEPT !.blkdev = d]
      BY <1>1, <2>1 DEF Put, XDevices
    <3> HIDE DEF d, r
    <3>2. r = [image |-> s.image, blkdev |-> d, volume |-> s.volume]
      BY <3>1, <1>1, RecordPart
    <3> QED BY <3>2
  <2>2. CASE s.blkdev.kind # "adf"
    <3>1. r = [s EXCEPT !.image = c]
      BY <2>2 DEF Put
    <3> HIDE DEF r
    <3>2. r = [image |-> c, blkdev |-> s.blkdev, volume |-> s.volume]
      BY <3>1, <1>1, RecordPart
    <3> QED BY <3>2
  <2> QED BY <2>1, <2>2
<1> HIDE DEF r
<1>4. t = r
  <2> DEFINE x == r.image
             y == r.blkdev
             z == s.volume
  <2>1. r = [image |-> x, blkdev |-> y, volume |-> z]
    BY <1>3
  <2> HIDE DEF x, y, z
  <2>2. [r EXCEPT !.volume = z] = [image |-> x, blkdev |-> y, volume |-> z]
    BY <2>1
  <2> QED BY <2>1, <2>2 DEF z
<1> QED BY <1>2, <1>4 DEF r

\* Another volume on the device.
LEMMA VolumeGood ==
    ASSUME NEW s, Good(s), s.blkdev # NoImage,
           NEW v \in XVolumes \cup {NoImage}, Fits(Data(s), v)
    PROVE  LET t == [s EXCEPT !.volume = v] IN
           Good(t) /\ t.blkdev = s.blkdev /\ t.image = s.image /\ t.volume = v /\ Data(t) = Data(s)
<1> DEFINE t == [s EXCEPT !.volume = v]
<1>1. s \in States
  BY DEF Good
<1>2. t = [image |-> s.image, blkdev |-> s.blkdev, volume |-> v]
  BY <1>1, RecordPart
<1> HIDE DEF t
<1>3. t \in States /\ t.image = s.image /\ t.blkdev = s.blkdev /\ t.volume = v
  BY <1>1, <1>2 DEF States
<1>4. Data(t) = Data(s) /\ (OnHdf(t) <=> OnHdf(s))
  BY <1>3 DEF Data, OnHdf
<1>5. Good(t)
  BY <1>3, <1>4 DEF Good
<1> QED BY <1>3, <1>4, <1>5 DEF t

\* A device without a volume on it.
LEMMA DeviceGood ==
    ASSUME NEW i \in XImages \cup {NoImage}, NEW d \in XDevices,
           d.kind = "hdf" => i # NoImage /\ Clean(i),
           d.kind = "adf" => (i # NoImage => Clean(i)) /\ Clean(d.data)
    PROVE  LET t == [image |-> i, blkdev |-> d, volume |-> NoImage] IN
           Good(t) /\ t.blkdev # NoImage /\ t.volume = NoImage
<1> DEFINE t == [image |-> i, blkdev |-> d, volume |-> NoImage]
<1>1. t.image = i /\ t.blkdev = d /\ t.volume = NoImage /\ t \in States
  BY DEF States
<1> HIDE DEF t
<1>2. d # NoImage
  BY NoImageAssumption
<1>3. d.kind \in {"adf", "hdf"}
  BY DEF XDevices, Kinds
<1>4. Data(t) = IF d.kind = "adf" THEN d.data ELSE i
  BY <1>1 DEF Data
<1>5. Fits(Data(t), t.volume)
  BY <1>1, <1>3, <1>4 DEF Fits
<1>6. OnHdf(t) <=> d.kind = "hdf"
  BY <1>1, <1>2 DEF OnHdf
<1>7. Good(t)
  BY <1>1, <1>2, <1>3, <1>5, <1>6 DEF Good
<1> QED BY <1>1, <1>2, <1>7 DEF t

\* A device on an image that is not in use.
LEMMA BlkdevOpenGood ==
    ASSUME NEW s, Good(s), s.blkdev = NoImage, s.image # NoImage, NEW ro \in BOOLEAN
    PROVE  LET t == blkdev_open(s, ro) IN
           Good(t) /\ t.blkdev # NoImage /\ t.volume = NoImage /\ t.blkdev.ro = ro
<1> DEFINE i == s.image
           d == [kind |-> i.kind, ro |-> ro, data |-> i, dirty |-> FALSE]
           t == blkdev_open(s, ro)
<1>1. s \in States /\ i \in XImages /\ s.volume = NoImage
  BY DEF Good, States
<1>2. Clean(i)
  BY DEF Good, OnHdf
<1>3. t = [s EXCEPT !.blkdev = d]
  BY DEF blkdev_open
<1>4. d \in XDevices /\ d.data = i /\ d.ro = ro
  BY <1>1 DEF XDevices, XImages
<1> HIDE DEF t, d, i
<1>5. t = [image |-> s.image, blkdev |-> d, volume |-> s.volume]
  BY <1>1, <1>3, RecordPart
<1>6. t = [image |-> i, blkdev |-> d, volume |-> NoImage]
  BY <1>1, <1>5 DEF i
<1>7. i # NoImage
  BY DEF i
<1>8. Good(t) /\ t.blkdev # NoImage /\ t.volume = NoImage
  BY <1>1, <1>2, <1>4, <1>6, <1>7, DeviceGood
<1>9. t.blkdev = d
  BY <1>6
<1> QED BY <1>4, <1>8, <1>9 DEF t

\* A new image.
LEMMA UnformattedClean ==
    ASSUME NEW kind \in Kinds
    PROVE  Unformatted(kind) \in XImages /\ Clean(Unformatted(kind))
<1> DEFINE u == Unformatted(kind)
<1>1. u.files = <<>> /\ u.bm = {}
  BY DEF Unformatted
<1>2. Clean(u)
  BY <1>1, NoEntries DEF Clean
<1>3. <<>> \in UNION {[names -> XBlocks] : names \in SUBSET XFiles}
  BY NoEntries DEF Tables
<1>4. u \in XImages
  BY <1>3 DEF Unformatted, XImages
<1> QED BY <1>2, <1>4

\* A new image and a device on it.
LEMMA BlkdevCreateGood ==
    ASSUME NEW s, Good(s), s.blkdev = NoImage, NEW kind \in Kinds
    PROVE  LET t == blkdev_create(s, kind) IN
           Good(t) /\ t.blkdev # NoImage /\ t.volume = NoImage /\ t.blkdev.ro = FALSE
<1> DEFINE u == Unformatted(kind)
           i == IF kind = "adf" THEN s.image ELSE u
           d == [kind |-> kind, ro |-> FALSE, data |-> u, dirty |-> TRUE]
           t == blkdev_create(s, kind)
<1>1. s \in States /\ s.image \in XImages \cup {NoImage} /\ s.volume = NoImage
  BY DEF Good, States
<1>2. s.image # NoImage => Clean(s.image)
  BY DEF Good, OnHdf
<1>3. t = [s EXCEPT !.blkdev = d, !.image = i]
  BY <1>1 DEF blkdev_create, States
<1>4. u \in XImages /\ Clean(u)
  BY UnformattedClean
<1> HIDE DEF u, t
<1>5. d \in XDevices /\ d.data = u /\ d.ro = FALSE /\ d.kind = kind
  BY <1>4 DEF XDevices
<1>6. i \in XImages \cup {NoImage} /\ (i # NoImage => Clean(i)) /\ (kind = "hdf" => i # NoImage)
  BY <1>1, <1>2, <1>4, NoImageAssumption
<1> HIDE DEF d, i
<1>7. t = [image |-> i, blkdev |-> d, volume |-> s.volume]
  BY <1>1, <1>3, RecordBoth
<1>8. t = [image |-> i, blkdev |-> d, volume |-> NoImage]
  BY <1>1, <1>7
<1>9. Good(t) /\ t.blkdev # NoImage /\ t.volume = NoImage
  BY <1>4, <1>5, <1>6, <1>8, DeviceGood
<1>10. t.blkdev = d
  BY <1>8
<1> QED BY <1>5, <1>9, <1>10 DEF t

\* A volume that reads its bitmap from the device.
LEMMA VolumeOpenGood ==
    ASSUME NEW s, Good(s), s.blkdev # NoImage, s.volume = NoImage
    PROVE  LET t == volume_open(s) IN
           Good(t) /\ t.blkdev = s.blkdev /\ t.volume # NoImage
<1> DEFINE c == Data(s)
           v == [bm |-> c.bm, dirty |-> FALSE]
<1>1. c \in XImages
  BY DataImage
<1>2. Clean(c)
  BY DEF Good, Fits
<1> HIDE DEF c
<1>3. v \in XVolumes /\ v.bm = c.bm /\ v.dirty = FALSE
  BY <1>1 DEF XImages, XVolumes
<1> HIDE DEF v
<1>4. v # NoImage
  BY <1>3, NoImageAssumption
<1>5. Fits(c, v)
  BY <1>2, <1>3, <1>4 DEF Fits, Clean
<1>6. volume_open(s) = [s EXCEPT !.volume = v]
  BY DEF volume_open, v, c
<1> HIDE DEF volume_open
<1> QED BY <1>3, <1>4, <1>5, <1>6, VolumeGood DEF c

\* A new volume: no entries and nothing taken.
LEMMA VolumeCreateGood ==
    ASSUME NEW s, Good(s), s.blkdev # NoImage, NEW label \in Labels
    PROVE  LET t == volume_create(s, label) IN
           Good(t) /\ t.blkdev # NoImage /\ t.volume # NoImage
<1> DEFINE c0 == Data(s)
           c == [c0 EXCEPT !.label = label, !.files = <<>>, !.bm = {}, !.torn = FALSE]
           v == [bm |-> {}, dirty |-> FALSE]
<1>1. c0 \in XImages
  BY DataImage
<1> HIDE DEF c0
<1>2. <<>> \in UNION {[names -> XBlocks] : names \in SUBSET XFiles}
  BY NoEntries DEF Tables
<1>3. c \in XImages /\ c.files = <<>> /\ c.bm = {}
  BY <1>1, <1>2 DEF XImages
<1>4. v \in XVolumes /\ v.bm = {} /\ v.dirty = FALSE
  BY DEF XVolumes
<1>5. volume_create(s, label) = [Put(s, c) EXCEPT !.volume = v]
  BY DEF volume_create, c0
<1> HIDE DEF v, c
<1>6. v # NoImage
  BY <1>4, NoImageAssumption
<1>7. Fits(c, v)
  BY <1>3, <1>4, <1>6, NoEntries DEF Fits
<1> HIDE DEF volume_create
<1> QED BY <1>3, <1>4, <1>5, <1>6, <1>7, PutGood

\* close() of the volume writes the bitmap that it changed.
LEMMA VolumeCloseGood ==
    ASSUME NEW s, Good(s), s.volume # NoImage
    PROVE  LET t == volume_close(s) IN
           Good(t) /\ t.blkdev # NoImage /\ t.volume = NoImage
<1> DEFINE c == Data(s)
           v == s.volume
<1>1. s.blkdev # NoImage /\ s \in States /\ v \in XVolumes /\ v # NoImage
  BY DEF Good, States
<1>2. c \in XImages /\ Fits(c, v)
  BY <1>1, DataImage DEF Good
<1>3. CASE v.dirty
  <2> DEFINE e == [c EXCEPT !.bm = v.bm]
  <2>1. v.bm \in SUBSET XBlocks
    BY <1>1 DEF XVolumes
  <2> HIDE DEF c
  <2>2. e \in XImages /\ e.bm = v.bm /\ e.files = c.files /\ e.torn = c.torn
    BY <1>2, <2>1 DEF XImages
  <2>3. volume_close(s) = [Put(s, e) EXCEPT !.volume = NoImage]
    BY <1>3 DEF volume_close, c
  <2> HIDE DEF e, v
  <2>4. Fits(e, NoImage)
    BY <1>1, <1>2, <2>2 DEF Fits, Clean
  <2> HIDE DEF volume_close
  <2> QED BY <1>1, <2>2, <2>3, <2>4, PutGood
<1>4. CASE ~v.dirty
  <2>1. volume_close(s) = [s EXCEPT !.volume = NoImage]
    BY <1>4 DEF volume_close
  <2> HIDE DEF volume_close, v, c
  <2>2. Fits(c, NoImage)
    BY <1>1, <1>2, <1>4 DEF Fits, Clean
  <2>3. Good([s EXCEPT !.volume = NoImage]) /\ [s EXCEPT !.volume = NoImage].blkdev = s.blkdev
        /\ [s EXCEPT !.volume = NoImage].volume = NoImage
    BY <1>1, <2>2, VolumeGood DEF c
  <2> QED BY <1>1, <2>1, <2>3
<1> QED BY <1>3, <1>4

\* close() of the device writes an ADF that was changed.
LEMMA BlkdevCloseGood ==
    ASSUME NEW s, Good(s), s.blkdev # NoImage, s.volume = NoImage
    PROVE  LET t == blkdev_close(s) IN
           Good(t) /\ t.blkdev = NoImage
<1> DEFINE i == IF s.blkdev.kind = "adf" /\ s.blkdev.dirty /\ ~s.blkdev.ro THEN s.blkdev.data ELSE s.image
           t == blkdev_close(s)
<1>1. s \in States /\ s.image \in XImages \cup {NoImage} /\ s.blkdev \in XDevices
      /\ s.blkdev.data \in XImages /\ s.blkdev.kind \in {"adf", "hdf"}
  BY DEF Good, States, XDevices, Kinds
<1>2. Clean(Data(s))
  BY DEF Good, Fits
<1>5. i \in XImages \cup {NoImage} /\ (i # NoImage => Clean(i))
  <2>1. i # NoImage => Clean(i)
    <3>1. CASE s.blkdev.kind = "adf"
      <4>1. s.image # NoImage => Clean(s.image)
        BY <3>1 DEF Good, OnHdf
      <4> QED BY <1>1, <1>2, <3>1, <4>1 DEF Data
    <3>2. CASE s.blkdev.kind = "hdf"
      BY <1>1, <1>2, <3>2 DEF Data
    <3> QED BY <1>1, <3>1, <3>2
  <2> QED BY <1>1, <2>1
<1>6. t = [s EXCEPT !.image = i, !.blkdev = NoImage]
  BY <1>1 DEF blkdev_close, States
<1> HIDE DEF i, t
<1>7. t = [image |-> i, blkdev |-> NoImage, volume |-> s.volume]
  BY <1>1, <1>6, RecordBoth
<1>8. t.image = i /\ t.blkdev = NoImage /\ t.volume = NoImage /\ t \in States
  BY <1>5, <1>7 DEF States
<1>9. Good(t)
  BY <1>5, <1>8 DEF Good, OnHdf
<1> QED BY <1>8, <1>9 DEF t

\* The end of a session leaves the image alone with what it keeps.
LEMMA CloseAllGood ==
    ASSUME NEW s, Good(s)
    PROVE  Good(close_all(s)) /\ close_all(s).blkdev = NoImage
<1> DEFINE t == IF s.volume # NoImage THEN volume_close(s) ELSE s
<1>1. Good(t) /\ t.volume = NoImage
  BY VolumeCloseGood
<1>2. close_all(s) = IF t.blkdev # NoImage THEN blkdev_close(t) ELSE t
  BY DEF close_all
<1> HIDE DEF t, close_all
<1> QED BY <1>1, <1>2, BlkdevCloseGood

\* The device of a command.
LEMMA HasDevGood ==
    ASSUME NEW s, Good(s), CanDev(s)
    PROVE  Good(HasDev(s)) /\ HasDev(s).blkdev # NoImage
<1>1. CASE s.blkdev # NoImage
  BY <1>1 DEF HasDev
<1>2. CASE s.blkdev = NoImage
  <2>1. s.image # NoImage
    BY <1>2 DEF CanDev
  <2>2. HasDev(s) = blkdev_open(s, session = "ro") /\ (session = "ro") \in BOOLEAN
    BY <1>2 DEF HasDev
  <2> QED BY <1>2, <2>1, <2>2, BlkdevOpenGood
<1> QED BY <1>1, <1>2

\* The volume of a command.
LEMMA HasVolGood ==
    ASSUME NEW s, Good(s), s.blkdev # NoImage, CanVol(s)
    PROVE  Good(HasVol(s)) /\ HasVol(s).blkdev # NoImage /\ HasVol(s).volume # NoImage
<1>1. CASE s.volume # NoImage
  BY <1>1 DEF HasVol
<1>2. CASE s.volume = NoImage /\ init_vol = "open"
  <2>1. HasVol(s) = volume_open(s)
    BY <1>2 DEF HasVol
  <2> QED BY <1>2, <2>1, VolumeOpenGood
<1>3. CASE s.volume = NoImage /\ init_vol # "open"
  <2>1. HasVol(s) = volume_create(s, init_vol) /\ init_vol \in Labels
    BY <1>3 DEF HasVol, CanVol
  <2> QED BY <2>1, VolumeCreateGood
<1> QED BY <1>1, <1>2, <1>3

\* Writing leaves the volume as it is.
LEMMA PutVolume ==
    ASSUME NEW s \in States, s.blkdev # NoImage, NEW c
    PROVE  Put(s, c).volume = s.volume
<1>1. s.blkdev \in XDevices
  BY DEF States
<1>2. CASE s.blkdev.kind = "adf"
  <2> DEFINE d == [s.blkdev EXCEPT !.data = c, !.dirty = TRUE]
  <2>1. Put(s, c) = [s EXCEPT !.blkdev = d]
    BY <1>1, <1>2 DEF Put, XDevices
  <2> HIDE DEF d
  <2>2. Put(s, c) = [image |-> s.image, blkdev |-> d, volume |-> s.volume]
    BY <2>1, RecordPart
  <2> QED BY <2>2
<1>3. CASE s.blkdev.kind # "adf"
  <2>1. Put(s, c) = [s EXCEPT !.image = c]
    BY <1>3 DEF Put
  <2>2. Put(s, c) = [image |-> c, blkdev |-> s.blkdev, volume |-> s.volume]
    BY <2>1, RecordPart
  <2> QED BY <2>2
<1> QED BY <1>2, <1>3

\* The volume of a session, and what it says of the image.
LEMMA OpenVolume ==
    ASSUME NEW s, Good(s), s.blkdev # NoImage, s.volume # NoImage
    PROVE  /\ s \in States /\ s.volume \in XVolumes /\ Data(s) \in XImages
           /\ s.volume.bm \in SUBSET XBlocks /\ s.volume.dirty \in BOOLEAN
           /\ Data(s).files \in Tables
           /\ Fits(Data(s), s.volume)
<1>1. s \in States /\ s.volume \in XVolumes
  BY DEF Good, States
<1>2. Data(s) \in XImages
  BY DataImage
<1>3. s.volume.bm \in SUBSET XBlocks /\ s.volume.dirty \in BOOLEAN
  BY <1>1 DEF XVolumes
<1>4. Data(s).files \in Tables
  BY <1>2 DEF XImages, Tables
<1>5. Fits(Data(s), s.volume)
  BY DEF Good
<1> QED BY <1>1, <1>2, <1>3, <1>4, <1>5

\* New entries on blocks that the volume's bitmap has free.
LEMMA GrowGood ==
    ASSUME NEW s, Good(s), s.blkdev # NoImage, s.volume # NoImage,
           NEW new \in Tables, DOMAIN new \subseteq XFiles \ DOMAIN Data(s).files,
           IsInjective(new), Range(new) \cap s.volume.bm = {},
           NEW d \in BOOLEAN, d \/ (~s.volume.dirty /\ new = <<>>)
    PROVE  LET c == [Data(s) EXCEPT !.files = With(@, new)]
               v == [bm |-> s.volume.bm \cup Range(new), dirty |-> d]
               t == [Put(s, c) EXCEPT !.volume = v]
           IN  Good(t) /\ t.blkdev # NoImage
<1> DEFINE c0 == Data(s)
           v0 == s.volume
           h == With(c0.files, new)
           c == [c0 EXCEPT !.files = With(@, new)]
           v == [bm |-> v0.bm \cup Range(new), dirty |-> d]
<1>1. /\ s \in States /\ v0 \in XVolumes /\ c0 \in XImages
      /\ v0.bm \in SUBSET XBlocks /\ c0.files \in Tables
      /\ Fits(c0, v0)
  BY OpenVolume
<1> HIDE DEF c0, v0
<1>2. DOMAIN new \subseteq XFiles \ DOMAIN c0.files
  BY DEF c0
<1>3. h \in Tables /\ Range(h) = Range(c0.files) \cup Range(new)
  BY <1>1, <1>2, TableGrows
<1>4. IsInjective(c0.files) /\ Range(c0.files) \cap Range(new) = {} => IsInjective(h)
  BY <1>1, <1>2, TableGrows
<1> HIDE DEF h
<1>5. c \in XImages /\ c.files = h /\ c.bm = c0.bm /\ c.torn = c0.torn
  <2>1. h \in UNION {[names -> XBlocks] : names \in SUBSET XFiles}
    BY <1>3 DEF Tables
  <2>2. c = [c0 EXCEPT !.files = h]
    BY DEF h
  <2> HIDE DEF c
  <2> QED BY <1>1, <2>1, <2>2 DEF XImages
<1>6. Range(new) \subseteq XBlocks
  BY TableFacts DEF Range
<1>7. v \in XVolumes /\ v.bm = v0.bm \cup Range(new) /\ v.dirty = d
  BY <1>1, <1>6 DEF XVolumes
<1>8. v # NoImage /\ v0 # NoImage
  BY <1>7, NoImageAssumption DEF v0
<1>9. Range(new) \cap v0.bm = {} /\ (d \/ (~v0.dirty /\ new = <<>>))
  BY DEF v0
<1> HIDE DEF c, v
<1>10. Fits(c, v)
  <2>1. CASE c0.torn
    BY <1>5, <1>8, <2>1 DEF Fits
  <2>2. CASE ~c0.torn
    <3>1. IsInjective(c0.files) /\ v0.bm = Range(c0.files) /\ (~v0.dirty => c0.bm = v0.bm)
      BY <1>1, <1>8, <2>2 DEF Fits
    <3>2. IsInjective(c.files)
      BY <1>4, <1>5, <1>9, <3>1
    <3>3. v.bm = Range(c.files)
      BY <1>3, <1>5, <1>7, <3>1
    <3>4. ASSUME ~v.dirty PROVE c.bm = v.bm
      <4>1. ~v0.dirty /\ new = <<>>
        BY <1>7, <1>9, <3>4
      <4>2. Range(new) = {}
        BY <4>1, NoEntries
      <4> QED BY <1>5, <1>7, <3>1, <4>1, <4>2
    <3> QED BY <1>8, <3>2, <3>3, <3>4 DEF Fits
  <2> QED BY <2>1, <2>2
<1>11. Good([Put(s, c) EXCEPT !.volume = v]) /\ [Put(s, c) EXCEPT !.volume = v].blkdev # NoImage
  BY <1>5, <1>7, <1>10, PutGood
<1> QED BY <1>11 DEF c, v, c0, v0

\* A new entry on a free block.
LEMMA AddedGood ==
    ASSUME NEW s, Good(s), s.blkdev # NoImage, s.volume # NoImage,
           NEW f \in XFiles \ DOMAIN Data(s).files, NEW b \in XBlocks \ s.volume.bm
    PROVE  Good(Added(s, f, b))
<1> DEFINE new == [n \in {f} |-> b]
           c == [Data(s) EXCEPT !.files = With(@, new)]
           v == [bm |-> s.volume.bm \cup Range(new), dirty |-> TRUE]
<1>1. new \in [{f} -> XBlocks] /\ {f} \in SUBSET XFiles /\ DOMAIN new = {f}
  OBVIOUS
<1>2. new \in Tables
  BY <1>1 DEF Tables
<1>3. Range(new) = {b}
  BY DEF Range
<1>4. IsInjective(new)
  BY DEF IsInjective
<1>5. s \in States
  BY OpenVolume
<1>6. Put(s, c).volume = s.volume
  BY <1>5, PutVolume
<1>7. Added(s, f, b) = [Put(s, c) EXCEPT !.volume = v]
  BY <1>3, <1>6 DEF Added
<1>8. DOMAIN new \subseteq XFiles \ DOMAIN Data(s).files /\ Range(new) \cap s.volume.bm = {}
  BY <1>1, <1>3
<1> HIDE DEF new, Added
<1>9. Good([Put(s, c) EXCEPT !.volume = v])
  BY <1>2, <1>4, <1>8, GrowGood
<1> QED BY <1>7, <1>9

\* An entry less, and its block free.
LEMMA RemovedGood ==
    ASSUME NEW s, Good(s), s.blkdev # NoImage, s.volume # NoImage,
           NEW f \in DOMAIN Data(s).files
    PROVE  Good(Removed(s, f))
<1> DEFINE c0 == Data(s)
           v0 == s.volume
           h == Restrict(c0.files, DOMAIN c0.files \ {f})
           c == [c0 EXCEPT !.files = Restrict(@, DOMAIN @ \ {f})]
           v == [bm |-> v0.bm \ {c0.files[f]}, dirty |-> TRUE]
<1>1. /\ s \in States /\ v0 \in XVolumes /\ c0 \in XImages
      /\ v0.bm \in SUBSET XBlocks /\ c0.files \in Tables
      /\ Fits(c0, v0)
  BY OpenVolume
<1>2. Put(s, c).volume = v0
  BY <1>1, PutVolume
<1>3. Removed(s, f) = [Put(s, c) EXCEPT !.volume = v]
  BY <1>2 DEF Removed
<1>4. v0 # NoImage
  OBVIOUS
<1> HIDE DEF c0, v0
<1>5. f \in DOMAIN c0.files
  BY DEF c0
<1>6. h \in Tables
  BY <1>1, <1>5, TableShrinks
<1>7. IsInjective(c0.files) => IsInjective(h) /\ Range(h) = Range(c0.files) \ {c0.files[f]}
  BY <1>1, <1>5, TableShrinks
<1> HIDE DEF h
<1>8. c \in XImages /\ c.files = h /\ c.torn = c0.torn
  <2>1. h \in UNION {[names -> XBlocks] : names \in SUBSET XFiles}
    BY <1>6 DEF Tables
  <2>2. c = [c0 EXCEPT !.files = h]
    BY DEF h
  <2> HIDE DEF c
  <2> QED BY <1>1, <2>1, <2>2 DEF XImages
<1>9. v \in XVolumes /\ v.bm = v0.bm \ {c0.files[f]} /\ v.dirty = TRUE
  BY <1>1 DEF XVolumes
<1>10. v # NoImage
  BY <1>9, NoImageAssumption
<1> HIDE DEF c, v
<1>11. Fits(c, v)
  BY <1>1, <1>4, <1>7, <1>8, <1>9, <1>10 DEF Fits
<1>12. Good([Put(s, c) EXCEPT !.volume = v])
  BY <1>8, <1>9, <1>11, PutGood
<1> QED BY <1>3, <1>12

\* What is written over a block of its own changes no entry.
LEMMA LabelGood ==
    ASSUME NEW s, Good(s), s.blkdev # NoImage, NEW label \in Labels
    PROVE  Good(Put(s, [Data(s) EXCEPT !.label = label])) /\ Good(Put(s, Data(s)))
<1> DEFINE c0 == Data(s)
           c == [c0 EXCEPT !.label = label]
<1>1. c0 \in XImages /\ Fits(c0, s.volume)
  BY DataImage DEF Good
<1> HIDE DEF c0
<1>2. c \in XImages /\ c.files = c0.files /\ c.bm = c0.bm /\ c.torn = c0.torn
  BY <1>1 DEF XImages
<1> HIDE DEF c
<1>3. Fits(c, s.volume)
  BY <1>1, <1>2 DEF Fits, Clean
<1> QED BY <1>1, <1>2, <1>3, PutSame DEF c, c0

-----------------------------------------------------------------------------
(* The actions.                                                            *)

\* The variables after a command.
LEMMA BecomeGood ==
    ASSUME NEW s, Good(s), Become(s)
    PROVE  Good(Now)'
<1>1. s \in States
  BY DEF Good
<1>2. s = [image |-> s.image, blkdev |-> s.blkdev, volume |-> s.volume]
  BY <1>1 DEF States
<1>3. Now' = s
  BY <1>2 DEF Become, Now
<1> QED BY <1>3

\* A session starts with no volume, no device and no image.
LEMMA XdfInvInit == XdfInit => XdfInv
<1> SUFFICES ASSUME XdfInit PROVE XdfInv
  OBVIOUS
<1>1. Now.image = NoImage /\ Now.blkdev = NoImage /\ Now.volume = NoImage /\ Now \in States
  BY DEF XdfInit, Now, States
<1>2. Good(Now)
  BY <1>1 DEF Good, OnHdf
<1> QED BY <1>2 DEF XdfInv, XdfInit

\* The objects of the variables.
LEMMA NowParts == Now.image = image /\ Now.blkdev = blkdev /\ Now.volume = volume
BY DEF Now

\* OpenCmd starts over.
LEMMA OpenKeeps == XdfInv /\ OpenCmd => XdfInv'
<1> SUFFICES ASSUME XdfInv, OpenCmd PROVE XdfInv'
  OBVIOUS
<1> DEFINE s == close_all(Now)
           t == blkdev_open(s, session = "ro")
<1>1. Good(s) /\ s.blkdev = NoImage
  BY CloseAllGood DEF XdfInv
<1>2. s.image # NoImage /\ Become(t) /\ session # "none" /\ session' = session
  BY DEF OpenCmd, Running
<1>3. (session = "ro") \in BOOLEAN
  OBVIOUS
<1>4. Good(t)
  BY <1>1, <1>2, <1>3, BlkdevOpenGood
<1> HIDE DEF t
<1>5. Good(Now)'
  BY <1>2, <1>4, BecomeGood
<1> QED BY <1>2, <1>5 DEF XdfInv

\* CreateCmd starts a new image.
LEMMA CreateKeeps == XdfInv /\ CreateCmd => XdfInv'
<1> SUFFICES ASSUME XdfInv, CreateCmd PROVE XdfInv'
  OBVIOUS
<1>1. PICK kind \in Kinds : Become(blkdev_create(Now, kind))
  BY DEF CreateCmd
<1>2. Good(Now) /\ Now.blkdev = NoImage /\ session' = "rw"
  BY NowParts DEF XdfInv, CreateCmd
<1>3. Good(blkdev_create(Now, kind))
  BY <1>2, BlkdevCreateGood
<1>4. Good(Now)'
  BY <1>1, <1>3, BecomeGood
<1> QED BY <1>2, <1>4 DEF XdfInv

\* FormatCmd makes a volume if none is open, on a new device if none is open.
LEMMA FormatKeeps == XdfInv /\ FormatCmd => XdfInv'
<1> SUFFICES ASSUME XdfInv, FormatCmd PROVE XdfInv'
  OBVIOUS
<1> DEFINE dev(kind) == IF blkdev # NoImage THEN Now
                        ELSE IF image # NoImage THEN blkdev_open(Now, FALSE) ELSE blkdev_create(Now, kind)
<1>1. PICK label \in Labels, kind \in Kinds :
           Become(IF volume # NoImage THEN dev(kind) ELSE volume_create(dev(kind), label))
  BY DEF FormatCmd
<1>2. Good(Now) /\ session # "none" /\ session' = session
  BY DEF XdfInv, FormatCmd, Running
<1>3. Good(dev(kind)) /\ dev(kind).blkdev # NoImage
  <2>1. CASE blkdev # NoImage
    BY <1>2, <2>1, NowParts
  <2>2. CASE blkdev = NoImage /\ image # NoImage
    BY <1>2, <2>2, NowParts, BlkdevOpenGood
  <2>3. CASE blkdev = NoImage /\ image = NoImage
    BY <1>2, <2>3, NowParts, BlkdevCreateGood
  <2> QED BY <2>1, <2>2, <2>3
<1> HIDE DEF dev
<1>4. Good(volume_create(dev(kind), label))
  BY <1>3, VolumeCreateGood
<1>5. Good(Now)'
  BY <1>1, <1>3, <1>4, BecomeGood
<1> QED BY <1>2, <1>5 DEF XdfInv

\* PackCmd adds entries to a new volume or to the one that is open, and may end there.
LEMMA PackKeeps == XdfInv /\ PackCmd => XdfInv'
<1> SUFFICES ASSUME XdfInv, PackCmd PROVE XdfInv'
  OBVIOUS
<1> DEFINE dev(kind) == IF blkdev # NoImage THEN Now ELSE blkdev_create(Now, kind)
           vol(kind, label) == IF volume # NoImage THEN dev(kind) ELSE volume_create(dev(kind), label)
           all(s, new) == [Put(s, [Data(s) EXCEPT !.files = With(@, new)])
                             EXCEPT !.volume = [bm |-> @.bm \cup Range(new), dirty |-> @.dirty \/ new # <<>>]]
<1>1. PICK label \in Labels, kind \in Kinds : \E new \in Packed(vol(kind, label)) :
           \/ Become(all(vol(kind, label), new)) /\ init_vol' = label /\ UNCHANGED session
           \/ Become(close_all(all(vol(kind, label), new))) /\ init_vol' = "none" /\ session' = "none"
  BY Zenon DEF PackCmd
<1>2. Good(Now) /\ session = "rw"
  BY DEF XdfInv, PackCmd
<1>3. Good(dev(kind)) /\ dev(kind).blkdev # NoImage
  BY <1>2, NowParts, BlkdevCreateGood
<1> DEFINE s == vol(kind, label)
<1>4. Good(s) /\ s.blkdev # NoImage /\ s.volume # NoImage
  <2>1. CASE volume # NoImage
    <3>1. blkdev # NoImage
      BY <1>2, <2>1, NowParts DEF Good
    <3> QED BY <1>3, <2>1, <3>1, NowParts
  <2>2. CASE volume = NoImage
    <3>1. s = volume_create(dev(kind), label)
      BY <2>2
    <3> HIDE DEF dev
    <3> QED BY <1>3, <3>1, VolumeCreateGood
  <2> QED BY <2>1, <2>2
<1>5. PICK new \in Packed(s) :
           \/ Become(all(s, new)) /\ UNCHANGED session
           \/ Become(close_all(all(s, new))) /\ session' = "none"
  BY <1>1
<1> HIDE DEF s
<1>6. Good(all(s, new))
  <2> DEFINE d == s.volume.dirty \/ new # <<>>
             c == [Data(s) EXCEPT !.files = With(@, new)]
             v == [bm |-> s.volume.bm \cup Range(new), dirty |-> d]
  <2>1. PICK names \in SUBSET (XFiles \ DOMAIN Data(s).files) : new \in [names -> XBlocks \ s.volume.bm]
    BY DEF Packed
  <2>2. IsInjective(new)
    BY DEF Packed
  <2>3. DOMAIN new = names /\ new \in [names -> XBlocks] /\ names \in SUBSET XFiles
    BY <2>1
  <2>4. new \in Tables
    BY <2>3 DEF Tables
  <2>5. Range(new) \cap s.volume.bm = {}
    BY <2>1 DEF Range
  <2>6. s \in States /\ s.volume.dirty \in BOOLEAN
    BY <1>4, OpenVolume
  <2>7. d \in BOOLEAN
    BY <2>6
  <2>8. d \/ (~s.volume.dirty /\ new = <<>>)
    OBVIOUS
  <2>9. all(s, new) = [Put(s, c) EXCEPT !.volume = v]
    BY <1>4, <2>6, PutVolume
  <2>10. DOMAIN new \subseteq XFiles \ DOMAIN Data(s).files
    BY <2>1, <2>3
  <2> HIDE DEF d, all
  <2>11. Good([Put(s, c) EXCEPT !.volume = v])
    BY <1>4, <2>2, <2>4, <2>5, <2>7, <2>8, <2>10, GrowGood DEF d
  <2> QED BY <2>9, <2>11
<1> HIDE DEF all
<1>7. CASE Become(all(s, new)) /\ UNCHANGED session
  <2>1. Good(Now)'
    BY <1>6, <1>7, BecomeGood
  <2> QED BY <1>2, <1>7, <2>1 DEF XdfInv
<1>8. CASE Become(close_all(all(s, new))) /\ session' = "none"
  <2> DEFINE e == close_all(all(s, new))
  <2>1. Good(e) /\ e.blkdev = NoImage
    BY <1>6, CloseAllGood
  <2> HIDE DEF e
  <2>2. Good(Now)'
    BY <1>8, <2>1, BecomeGood DEF e
  <2>3. blkdev' = NoImage
    BY <1>8, <2>1 DEF Become, e
  <2> QED BY <2>2, <2>3 DEF XdfInv
<1> QED BY <1>5, <1>7, <1>8

\* The set up of a command that works on a volume.
LEMMA SetUpGood ==
    ASSUME XdfInv, CanDev(Now), CanVol(HasDev(Now))
    PROVE  LET s == HasVol(HasDev(Now)) IN
           Good(s) /\ s.blkdev # NoImage /\ s.volume # NoImage
<1>1. Good(Now)
  BY DEF XdfInv
<1>2. Good(HasDev(Now)) /\ HasDev(Now).blkdev # NoImage
  BY <1>1, HasDevGood
<1> QED BY <1>2, HasVolGood

\* Commands that keep the session and leave the objects in a good state.
LEMMA CommandKeeps ==
    ASSUME XdfInv, session # "none", session' = session, NEW s, Good(s), Become(s)
    PROVE  XdfInv'
<1>1. Good(Now)'
  BY BecomeGood
<1> QED BY <1>1 DEF XdfInv

\* Commands that read set the volume up.
LEMMA QueryKeeps == XdfInv /\ Query => XdfInv'
<1> SUFFICES ASSUME XdfInv, Query PROVE XdfInv'
  OBVIOUS
<1>1. CanDev(Now) /\ CanVol(HasDev(Now)) /\ Become(HasVol(HasDev(Now)))
  BY DEF Query
<1>2. session # "none" /\ session' = session
  BY DEF Query, Running
<1>3. Good(HasVol(HasDev(Now)))
  BY <1>1, SetUpGood
<1> QED BY <1>1, <1>2, <1>3, CommandKeeps

\* Commands that change entries.
LEMMA EditKeeps == XdfInv /\ (WriteCmd \/ DeleteCmd \/ ProtectCmd \/ RelabelCmd) => XdfInv'
<1> SUFFICES ASSUME XdfInv, WriteCmd \/ DeleteCmd \/ ProtectCmd \/ RelabelCmd PROVE XdfInv'
  OBVIOUS
<1> DEFINE s == HasVol(HasDev(Now))
<1>1. Editable /\ session' = session
  BY DEF WriteCmd, DeleteCmd, ProtectCmd, RelabelCmd
<1>2. session # "none" /\ CanDev(Now) /\ CanVol(HasDev(Now))
  BY <1>1 DEF Editable
<1>3. Good(s) /\ s.blkdev # NoImage /\ s.volume # NoImage
  BY <1>2, SetUpGood
<1>4. CASE WriteCmd
  <2>1. PICK f \in XFiles \ DOMAIN Data(s).files, b \in XBlocks \ s.volume.bm : Become(Added(s, f, b))
    BY <1>4 DEF WriteCmd
  <2> HIDE DEF s
  <2>2. Good(Added(s, f, b))
    BY <1>3, AddedGood
  <2> QED BY <1>1, <1>2, <2>1, <2>2, CommandKeeps
<1>5. CASE DeleteCmd
  <2>1. PICK f \in DOMAIN Data(s).files : Become(Removed(s, f))
    BY <1>5 DEF DeleteCmd
  <2> HIDE DEF s
  <2>2. Good(Removed(s, f))
    BY <1>3, RemovedGood
  <2> QED BY <1>1, <1>2, <2>1, <2>2, CommandKeeps
<1>6. CASE ProtectCmd
  <2>1. Become(Put(s, Data(s))) /\ Fits(Data(s), s.volume) /\ Data(s) \in XImages
    BY <1>3, <1>6, OpenVolume DEF ProtectCmd
  <2> HIDE DEF s
  <2>2. Good(Put(s, Data(s)))
    BY <1>3, <2>1, PutSame
  <2> QED BY <1>1, <1>2, <2>1, <2>2, CommandKeeps
<1>7. CASE RelabelCmd
  <2>1. PICK label \in Labels : Become(Put(s, [Data(s) EXCEPT !.label = label]))
    BY <1>7 DEF RelabelCmd
  <2> HIDE DEF s
  <2>2. Good(Put(s, [Data(s) EXCEPT !.label = label]))
    BY <1>3, LabelGood
  <2> QED BY <1>1, <1>2, <2>1, <2>2, CommandKeeps
<1> QED BY <1>4, <1>5, <1>6, <1>7

\* boot and root write to the device.
LEMMA BootKeeps == XdfInv /\ BootCmd => XdfInv'
<1> SUFFICES ASSUME XdfInv, BootCmd PROVE XdfInv'
  OBVIOUS
<1> DEFINE s == HasDev(Now)
<1>1. PICK label \in Labels : Become(Put(s, [Data(s) EXCEPT !.label = label]))
  BY DEF BootCmd
<1>2. session # "none" /\ session' = session /\ CanDev(Now)
  BY DEF BootCmd, Running
<1>3. Good(s) /\ s.blkdev # NoImage
  BY <1>2, HasDevGood DEF XdfInv
<1> HIDE DEF s
<1>4. Good(Put(s, [Data(s) EXCEPT !.label = label]))
  BY <1>3, LabelGood
<1> QED BY <1>1, <1>2, <1>4, CommandKeeps

\* The end of the list closes what is open.
LEMMA EndKeeps == XdfInv /\ End => XdfInv'
<1> SUFFICES ASSUME XdfInv, End PROVE XdfInv'
  OBVIOUS
<1> DEFINE s == close_all(Now)
<1>1. Become(s)
  BY DEF End
<1>2. Good(s) /\ s.blkdev = NoImage
  BY CloseAllGood DEF XdfInv
<1> HIDE DEF s
<1>3. Good(Now)'
  BY <1>1, <1>2, BecomeGood
<1>4. blkdev' = NoImage
  BY <1>1, <1>2 DEF Become
<1> QED BY <1>3, <1>4 DEF XdfInv

\* A killed session leaves the file as it is: an ADF, which was not written to, or an HDF
\* that is clean unless its volume had changes in memory.
LEMMA KillKeeps == XdfInv /\ Kill => XdfInv'
<1> SUFFICES ASSUME XdfInv, Kill PROVE XdfInv'
  OBVIOUS
<1>1. blkdev' = NoImage /\ volume' = NoImage
  BY DEF Kill
<1>2. Good(Now) /\ image \in XImages \cup {NoImage} /\ blkdev \in XDevices \cup {NoImage}
  <2>1. Good(Now) /\ Now \in States
    BY DEF XdfInv, Good
  <2> QED BY <2>1, NowParts DEF States
<1>3. image' \in XImages \cup {NoImage} /\ (image' # NoImage => Clean(image'))
  <2>1. CASE volume # NoImage /\ volume.dirty /\ blkdev.kind = "hdf"
    <3>1. blkdev # NoImage /\ image # NoImage
      BY <1>2, <2>1, NowParts DEF Good, OnHdf
    <3>2. image' = [image EXCEPT !.torn = TRUE] /\ image \in XImages
      BY <1>2, <2>1, <3>1 DEF Kill
    <3>3. image' \in XImages /\ image'.torn = TRUE
      BY <3>2 DEF XImages
    <3> QED BY <3>3 DEF Clean
  <2>2. CASE ~(volume # NoImage /\ volume.dirty /\ blkdev.kind = "hdf")
    <3>1. image' = image
      BY <2>2 DEF Kill
    <3>2. CASE OnHdf(Now)
      <4>1. blkdev # NoImage /\ blkdev.kind = "hdf" /\ Data(Now) = image
        BY <3>2, NowParts DEF OnHdf, Data
      <4>2. Fits(image, volume)
        BY <1>2, <4>1, NowParts DEF Good
      <4>3. Clean(image)
        BY <2>2, <4>1, <4>2 DEF Fits, Clean
      <4> QED BY <1>2, <3>1, <4>3
    <3>3. CASE ~OnHdf(Now)
      <4>1. image # NoImage => Clean(image)
        BY <1>2, <3>3, NowParts DEF Good
      <4> QED BY <1>2, <3>1, <4>1
    <3> QED BY <3>2, <3>3
  <2> QED BY <2>1, <2>2
<1> DEFINE s == [image |-> image', blkdev |-> NoImage, volume |-> NoImage]
<1>4. s.image = image' /\ s.blkdev = NoImage /\ s.volume = NoImage /\ s \in States
  BY <1>3 DEF States
<1>5. Become(s)
  BY <1>1, <1>4 DEF Become
<1> HIDE DEF s
<1>6. Good(s)
  BY <1>3, <1>4 DEF Good, OnHdf
<1>7. Good(Now)'
  BY <1>5, <1>6, BecomeGood
<1> QED BY <1>1, <1>7 DEF XdfInv

\* Every step keeps the invariant.
LEMMA XdfInvStep == XdfInv /\ [XdfNext]_xdf_vars => XdfInv'
<1> SUFFICES ASSUME XdfInv, [XdfNext]_xdf_vars PROVE XdfInv'
  OBVIOUS
<1>1. CASE Start
  <2>1. session' # "none" /\ Now' = Now
    BY <1>1 DEF Start, Now
  <2>2. Good(Now)'
    BY <2>1 DEF XdfInv
  <2> QED BY <2>1, <2>2 DEF XdfInv
<1>2. CASE UNCHANGED xdf_vars
  <2>1. Now' = Now /\ session' = session /\ blkdev' = blkdev
    BY <1>2 DEF xdf_vars, Now
  <2> QED BY <2>1 DEF XdfInv
<1>3. CASE ListCmd \/ BlockCmd
  BY <1>3, QueryKeeps DEF ListCmd, BlockCmd
<1> QED BY <1>1, <1>2, <1>3, OpenKeeps, CreateKeeps, FormatKeeps, PackKeeps, EditKeeps,
           BootKeeps, EndKeeps, KillKeeps DEF XdfNext

\* What the invariant says of an image that no session works on, and of the files.
LEMMA XdfInvSound == XdfInv => XdfSound
<1> SUFFICES ASSUME XdfInv PROVE XdfSound
  OBVIOUS
<1>1. Good(Now)
  BY DEF XdfInv
<1>2. XdfBitmapRight
  <2> SUFFICES ASSUME session = "none", image # NoImage
               PROVE  image.torn \/ image.bm = Range(image.files)
    BY DEF XdfBitmapRight
  <2>1. ~OnHdf(Now)
    BY NowParts DEF XdfInv, OnHdf
  <2>2. Clean(image)
    BY <1>1, <2>1, NowParts DEF Good
  <2> QED BY <2>2 DEF Clean
<1>3. blkdev # NoImage => Data(Now).torn \/ IsInjective(Data(Now).files)
  BY <1>1, NowParts DEF Good, Fits, Clean
<1>4. image # NoImage => image.torn \/ IsInjective(image.files)
  <2>1. CASE OnHdf(Now)
    <3>1. Data(Now) = image /\ blkdev # NoImage
      BY <2>1, NowParts DEF OnHdf, Data
    <3> QED BY <1>3, <3>1
  <2>2. CASE ~OnHdf(Now)
    BY <1>1, <2>2, NowParts DEF Good, Clean
  <2> QED BY <2>1, <2>2
<1> QED BY <1>2, <1>3, <1>4 DEF XdfSound, XdfFilesApart

\* In every state of every session of xdftool, the image that no session works on has a
\* bitmap that tells the blocks of its entries, unless it is an HDF whose session was
\* killed with changes in memory; entries never share a block (_close_all(), ADFSVolume).
THEOREM SessionsAreSound == XdfSpec => []XdfSound
<1>1. XdfSpec => []XdfInv
  BY XdfInvInit, XdfInvStep, PTL DEF XdfSpec
<1> QED BY <1>1, XdfInvSound, PTL

(***************************************************************************)
(* Programs of vamos run inside the calls that started them, so that the   *)
(* runs are a stack and what is allocated belongs to a run on it.  One     *)
(* lemma for each way a run starts or ends shows that this stays so.       *)
(***************************************************************************)
-----------------------------------------------------------------------------
(* Processes.                                                              *)

ProcFields == {"shell", "own_cwd", "lower", "upper", "cis", "cos", "dir", "cli", "packet"}
CliFields == {"std_in", "cur_in", "std_out", "cur_out", "background", "module"}

\* the fields of a Process
ProcRight(pr) ==
    /\ DOMAIN pr = ProcFields /\ DOMAIN pr.cli = CliFields
    /\ pr.shell \in BOOLEAN /\ pr.own_cwd \in BOOLEAN /\ pr.packet \in BOOLEAN

\* what a run below a shell keeps of its process
SaveRight(fr) == fr.kind = "system" => DOMAIN fr.save.cli = CliFields

\* a stack
IsRuns(runs) == runs \in Seq({runs[i] : i \in DOMAIN runs})

\* A run of a process is below all runs in it, a command runs in the process of the run
\* below it.
RunsNested(runs) ==
    /\ IsRuns(runs)
    /\ \A i \in DOMAIN runs : runs[i].proc \in Nat /\ SaveRight(runs[i])
    /\ \A i, j \in DOMAIN runs : i < j => /\ runs[i].proc <= runs[j].proc
                                          /\ runs[j].kind = "proc" => runs[i].proc < runs[j].proc
    /\ \A j \in DOMAIN runs : runs[j].kind # "proc" => j > 1 /\ runs[j - 1].proc = runs[j].proc

\* Only the first process can be a shell.
ProcsRight(procs, count) ==
    /\ count \in Nat
    /\ \A p \in DOMAIN procs : p \in 1..count /\ ProcRight(procs[p]) /\ (procs[p].shell => p = 1)

\* the processes are those that run
ProcsOf(runs) == {runs[i].proc : i \in DOMAIN runs}
ProcsRun(runs, procs) == DOMAIN procs = ProcsOf(runs)

\* memory belongs to a command that runs, to a process that runs, or to a child
MemRight(mem, runs, procs) ==
    \A m \in mem :
        \/ \E k \in 1..(Len(runs) - 1) : m = <<k, "cmd_stack">> /\ runs[k + 1].kind # "proc"
        \/ \E p \in DOMAIN procs : m \in MemOf(p, procs[p].shell) \/ (m = <<p, "packet">> /\ procs[p].packet)
        \/ m \in {Child} \X {"stack", "process", "name"}

\* a lock of a process
LockOf(l, p, pr) ==
    \/ l = <<p, "home">> \/ (l = <<p, "cwd">> /\ pr.own_cwd)
    \/ pr.shell /\ l \in {p} \X {"dup"} \X (1..MaxDepth)

\* locks belong to a process that runs, or are those of a shell that ended
OwnersRight(locks, runs, procs, count) ==
    \A l \in locks : \/ \E p \in DOMAIN procs : LockOf(l, p, procs[p])
                     \/ runs = <<>> /\ count # 0 /\ l \in ShellLocks

SegsRight(segs, procs) ==
    \A s \in segs : (\E p \in DOMAIN procs : s = <<p, "bin">>) \/ s[1] = DosLib

\* dp_Port leads away from the port the packet is at, and from who holds it
PktRight(pkt) ==
    /\ DOMAIN pkt = {"at", "holder", "dp_Port", "replies"}
    /\ pkt.at \in Parties => pkt.dp_Port = OtherParty(pkt.at)
    /\ pkt.holder \in Parties => pkt.dp_Port = OtherParty(pkt.holder)

PathsRight(phase, paths) ==
    IF phase \in InTry THEN paths = "up" ELSE IF phase = "ended" THEN paths \in {"none", "down"} ELSE paths = "none"

AllRight(runs, procs, count, mem, locks, segs) ==
    /\ RunsNested(runs) /\ ProcsRight(procs, count) /\ ProcsRun(runs, procs)
    /\ MemRight(mem, runs, procs) /\ OwnersRight(locks, runs, procs, count) /\ SegsRight(segs, procs)

(***************************************************************************)
(* The inductive invariant.                                                *)
(***************************************************************************)
TidyInv ==
    /\ PathsRight(dp_phase, dp_paths) /\ PktRight(dp_pkt)
    /\ dp_phase # "ended" => AllRight(dp_runs, dp_proc, dp_count, dp_mem, dp_locks, dp_segs)

-----------------------------------------------------------------------------
(* Runs.                                                                   *)

\* A new run.
LEMMA RunAdded ==
    ASSUME NEW runs, RunsNested(runs), NEW fr
    PROVE  /\ IsRuns(Append(runs, fr))
           /\ Len(runs) \in Nat /\ DOMAIN runs = 1..Len(runs)
           /\ Len(Append(runs, fr)) = Len(runs) + 1
           /\ DOMAIN Append(runs, fr) = 1..(Len(runs) + 1)
           /\ \A i \in 1..Len(runs) : Append(runs, fr)[i] = runs[i]
           /\ Append(runs, fr)[Len(runs) + 1] = fr
<1> DEFINE T == {runs[i] : i \in DOMAIN runs} \cup {fr}
           new == Append(runs, fr)
<1>1. runs \in Seq({runs[i] : i \in DOMAIN runs})
  BY DEF RunsNested, IsRuns
<1>2. runs \in Seq(T)
  BY <1>1
<1>3. fr \in T
  OBVIOUS
<1> HIDE DEF T
<1>4. /\ Len(runs) \in Nat /\ DOMAIN runs = 1..Len(runs)
      /\ new \in Seq(T) /\ Len(new) = Len(runs) + 1
      /\ \A i \in 1..Len(runs) : new[i] = runs[i]
      /\ new[Len(runs) + 1] = fr
  BY <1>2, <1>3
<1> HIDE DEF new
<1>5. DOMAIN new = 1..Len(new) /\ new = [i \in 1..Len(new) |-> new[i]] /\ Len(new) \in Nat
  BY <1>4
<1>6. IsRuns(new)
  BY <1>5 DEF IsRuns
<1> QED BY <1>4, <1>5, <1>6 DEF new

\* A run less.
LEMMA RunGone ==
    ASSUME NEW runs, RunsNested(runs), runs # <<>>
    PROVE  /\ IsRuns(Front(runs))
           /\ Len(runs) \in Nat \ {0} /\ DOMAIN runs = 1..Len(runs)
           /\ Len(Front(runs)) = Len(runs) - 1
           /\ DOMAIN Front(runs) = 1..(Len(runs) - 1)
           /\ \A i \in 1..(Len(runs) - 1) : Front(runs)[i] = runs[i]
<1> DEFINE T == {runs[i] : i \in DOMAIN runs}
           new == Front(runs)
<1>1. runs \in Seq(T)
  BY DEF RunsNested, IsRuns
<1>2. Len(runs) \in Nat \ {0} /\ DOMAIN runs = 1..Len(runs)
  BY <1>1
<1>3. \A i \in 1..(Len(runs) - 1) : runs[i] \in T
  BY <1>2
<1> HIDE DEF T
<1>4. new = SubSeq(runs, 1, Len(runs) - 1)
  BY DEF Front
<1> DEFINE m == Len(runs) - 1
<1>5. m \in Nat
  BY <1>2
<1> HIDE DEF m
<1>6. /\ new \in Seq(T)
      /\ Len(new) = IF 1 <= m THEN m - 1 + 1 ELSE 0
      /\ \A i \in 1..(m - 1 + 1) : new[i] = runs[1 + i - 1]
  <2>1. \A i \in 1..m : runs[i] \in T
    BY <1>3 DEF m
  <2>2. new = SubSeq(runs, 1, m)
    BY <1>4 DEF m
  <2>3. 1 \in Int /\ m \in Int
    BY <1>5
  <2> QED BY <2>1, <2>2, <2>3, SubSeqProperties
<1>7. Len(new) = m /\ Len(new) = Len(runs) - 1
  <2>1. Len(new) = m
    BY <1>5, <1>6
  <2> QED BY <2>1 DEF m
<1>8. \A i \in 1..(Len(runs) - 1) : new[i] = runs[i]
  BY <1>5, <1>6 DEF m
<1>9. DOMAIN new = 1..Len(new) /\ new = [i \in 1..Len(new) |-> new[i]] /\ Len(new) \in Nat
  BY <1>6
<1>10. IsRuns(new)
  BY <1>9 DEF IsRuns
<1> QED BY <1>2, <1>7, <1>8, <1>9, <1>10 DEF new

\* A command below a run, in its process.
LEMMA CommandNested ==
    ASSUME NEW runs, RunsNested(runs), runs # <<>>, NEW fr,
           fr.kind # "proc", fr.proc = runs[Len(runs)].proc, SaveRight(fr)
    PROVE  /\ RunsNested(Append(runs, fr))
           /\ ProcsOf(Append(runs, fr)) = ProcsOf(runs)
<1> DEFINE new == Append(runs, fr)
           n == Len(runs)
<1>1. /\ IsRuns(new)
      /\ n \in Nat /\ DOMAIN runs = 1..n /\ DOMAIN new = 1..(n + 1)
      /\ \A i \in 1..n : new[i] = runs[i]
      /\ new[n + 1] = fr
  BY RunAdded
<1>2. n \in DOMAIN runs /\ n > 0 /\ fr.proc = runs[n].proc
  <2>1. runs \in Seq({runs[i] : i \in DOMAIN runs})
    BY DEF RunsNested, IsRuns
  <2>2. n # 0
    BY <2>1
  <2> QED BY <1>1, <2>2
<1> HIDE DEF new, n
<1>3. \A i \in DOMAIN new : new[i].proc \in Nat /\ SaveRight(new[i])
  BY <1>1, <1>2 DEF RunsNested
<1>4. \A i \in DOMAIN runs : runs[i].proc <= runs[n].proc
  BY <1>1, <1>2 DEF RunsNested
<1>5. ASSUME NEW i \in DOMAIN new, NEW j \in DOMAIN new, i < j
      PROVE  new[i].proc <= new[j].proc /\ (new[j].kind = "proc" => new[i].proc < new[j].proc)
  <2>1. CASE j = n + 1
    <3>1. i \in DOMAIN runs /\ new[i] = runs[i] /\ new[j] = fr
      BY <1>1, <1>5, <2>1
    <3> QED BY <1>2, <1>4, <3>1
  <2>2. CASE j # n + 1
    <3>1. i \in DOMAIN runs /\ new[i] = runs[i] /\ j \in DOMAIN runs /\ new[j] = runs[j]
      BY <1>1, <1>5, <2>2
    <3> QED BY <1>5, <3>1 DEF RunsNested
  <2> QED BY <2>1, <2>2
<1>6. ASSUME NEW j \in DOMAIN new, new[j].kind # "proc"
      PROVE  j > 1 /\ new[j - 1].proc = new[j].proc
  <2>1. CASE j = n + 1
    <3>1. j > 1 /\ j - 1 = n /\ new[j] = fr
      BY <1>1, <1>2, <2>1
    <3> QED BY <1>1, <1>2, <3>1
  <2>2. CASE j # n + 1
    <3>1. j \in DOMAIN runs /\ new[j] = runs[j] /\ j \in Int
      BY <1>1, <2>2
    <3>2. j > 1 /\ runs[j - 1].proc = runs[j].proc
      BY <1>6, <3>1 DEF RunsNested
    <3>3. new[j - 1] = runs[j - 1]
      BY <1>1, <3>1, <3>2
    <3> QED BY <3>1, <3>2, <3>3
  <2> QED BY <2>1, <2>2
<1>7. RunsNested(new)
  BY <1>1, <1>3, <1>5, <1>6 DEF RunsNested
<1>8. ProcsOf(new) = ProcsOf(runs)
  <2>1. ASSUME NEW i \in DOMAIN new PROVE \E j \in DOMAIN runs : runs[j].proc = new[i].proc
    BY <1>1, <1>2
  <2>2. ASSUME NEW j \in DOMAIN runs PROVE j \in DOMAIN new /\ new[j].proc = runs[j].proc
    BY <1>1
  <2> QED BY <2>1, <2>2 DEF ProcsOf
<1> QED BY <1>7, <1>8 DEF new

\* A new process on top.
LEMMA ProcessNested ==
    ASSUME NEW runs, RunsNested(runs), NEW fr, fr.kind = "proc", fr.proc \in Nat,
           \A i \in DOMAIN runs : runs[i].proc < fr.proc
    PROVE  /\ RunsNested(Append(runs, fr))
           /\ ProcsOf(Append(runs, fr)) = ProcsOf(runs) \cup {fr.proc}
<1> DEFINE new == Append(runs, fr)
           n == Len(runs)
           p == fr.proc
<1>1. /\ IsRuns(new)
      /\ n \in Nat /\ DOMAIN runs = 1..n /\ DOMAIN new = 1..(n + 1)
      /\ \A i \in 1..n : new[i] = runs[i]
      /\ new[n + 1] = fr
  BY RunAdded
<1> HIDE DEF new, n
<1>2. \A i \in DOMAIN new : new[i].proc \in Nat /\ SaveRight(new[i])
  BY <1>1 DEF RunsNested, SaveRight
<1>3. ASSUME NEW i \in DOMAIN new, NEW j \in DOMAIN new, i < j
      PROVE  new[i].proc <= new[j].proc /\ (new[j].kind = "proc" => new[i].proc < new[j].proc)
  <2>1. CASE j = n + 1
    <3>1. i \in DOMAIN runs /\ new[i] = runs[i] /\ new[j] = fr /\ runs[i].proc \in Nat
      BY <1>1, <1>3, <2>1 DEF RunsNested
    <3> QED BY <3>1
  <2>2. CASE j # n + 1
    <3>1. i \in DOMAIN runs /\ new[i] = runs[i] /\ j \in DOMAIN runs /\ new[j] = runs[j]
      BY <1>1, <1>3, <2>2
    <3> QED BY <1>3, <3>1 DEF RunsNested
  <2> QED BY <2>1, <2>2
<1>4. ASSUME NEW j \in DOMAIN new, new[j].kind # "proc"
      PROVE  j > 1 /\ new[j - 1].proc = new[j].proc
  <2>1. j # n + 1
    BY <1>1, <1>4
  <2>2. j \in DOMAIN runs /\ new[j] = runs[j] /\ j \in Int
    BY <1>1, <2>1
  <2>3. j > 1 /\ runs[j - 1].proc = runs[j].proc
    BY <1>4, <2>2 DEF RunsNested
  <2>4. new[j - 1] = runs[j - 1]
    BY <1>1, <2>2, <2>3
  <2> QED BY <2>2, <2>3, <2>4
<1>5. RunsNested(new)
  BY <1>1, <1>2, <1>3, <1>4 DEF RunsNested
<1>6. ProcsOf(new) = ProcsOf(runs) \cup {p}
  <2>1. ASSUME NEW i \in DOMAIN new PROVE new[i].proc \in ProcsOf(runs) \cup {p}
    BY <1>1 DEF ProcsOf
  <2>2. ASSUME NEW j \in DOMAIN runs PROVE j \in DOMAIN new /\ new[j].proc = runs[j].proc
    BY <1>1
  <2>3. n + 1 \in DOMAIN new /\ new[n + 1].proc = p
    BY <1>1
  <2> QED BY <2>1, <2>2, <2>3 DEF ProcsOf
<1> QED BY <1>5, <1>6 DEF new

\* The end of a run.
LEMMA FrontNested ==
    ASSUME NEW runs, RunsNested(runs), runs # <<>>
    PROVE  LET new == Front(runs)
               top == runs[Len(runs)]
           IN  /\ RunsNested(new)
               /\ top.kind # "proc" => ProcsOf(new) = ProcsOf(runs)
               /\ top.kind = "proc" => ProcsOf(new) = ProcsOf(runs) \ {top.proc}
<1> DEFINE new == Front(runs)
           n == Len(runs)
           top == runs[n]
<1>1. /\ IsRuns(new)
      /\ n \in Nat \ {0} /\ DOMAIN runs = 1..n /\ DOMAIN new = 1..(n - 1)
      /\ \A i \in 1..(n - 1) : new[i] = runs[i]
  BY RunGone
<1> HIDE DEF new, n
<1>2. n \in DOMAIN runs /\ \A i \in DOMAIN new : i \in DOMAIN runs /\ i < n /\ new[i] = runs[i] /\ i \in Int
  BY <1>1
<1>3. \A i \in DOMAIN new : new[i].proc \in Nat /\ SaveRight(new[i])
  BY <1>2 DEF RunsNested
<1>4. \A i, j \in DOMAIN new : i < j => new[i].proc <= new[j].proc /\ (new[j].kind = "proc" => new[i].proc < new[j].proc)
  BY <1>2 DEF RunsNested
<1>5. ASSUME NEW j \in DOMAIN new, new[j].kind # "proc"
      PROVE  j > 1 /\ new[j - 1].proc = new[j].proc
  <2>1. j > 1 /\ runs[j - 1].proc = runs[j].proc /\ new[j] = runs[j] /\ j \in Int
    BY <1>2, <1>5 DEF RunsNested
  <2>2. new[j - 1] = runs[j - 1]
    BY <1>1, <1>5, <2>1
  <2> QED BY <2>1, <2>2
<1>6. RunsNested(new)
  BY <1>1, <1>3, <1>4, <1>5 DEF RunsNested
<1>7. ASSUME top.kind # "proc"
      PROVE  ProcsOf(new) = ProcsOf(runs)
  <2>1. n > 1 /\ runs[n - 1].proc = runs[n].proc
    BY <1>2, <1>7 DEF RunsNested
  <2>2. ASSUME NEW j \in DOMAIN runs PROVE \E i \in DOMAIN new : new[i].proc = runs[j].proc
    <3>1. CASE j = n
      <4>1. n - 1 \in DOMAIN new /\ new[n - 1] = runs[n - 1]
        BY <1>1, <2>1
      <4> QED BY <2>1, <3>1, <4>1
    <3>2. CASE j # n
      <4>1. j \in DOMAIN new
        BY <1>1, <3>2
      <4> QED BY <1>2, <4>1
    <3> QED BY <3>1, <3>2
  <2> QED BY <1>2, <2>2 DEF ProcsOf
<1>8. ASSUME top.kind = "proc"
      PROVE  ProcsOf(new) = ProcsOf(runs) \ {top.proc}
  <2>1. \A i \in DOMAIN new : new[i].proc < top.proc /\ new[i].proc \in Nat
    BY <1>2, <1>3, <1>8 DEF RunsNested
  <2>2. top.proc \in Nat
    BY <1>2 DEF RunsNested
  <2>3. \A i \in DOMAIN new : new[i].proc # top.proc
    BY <2>1, <2>2
  <2>4. \A j \in DOMAIN runs : runs[j].proc # top.proc => j \in DOMAIN new /\ new[j] = runs[j]
    BY <1>1
  <2> QED BY <1>2, <2>3, <2>4 DEF ProcsOf
<1> QED BY <1>6, <1>7, <1>8 DEF new, n

-----------------------------------------------------------------------------
(* What processes own.                                                     *)

\* the same process, which may have been given a packet
SameProc(a, b) == b.shell = a.shell /\ b.own_cwd = a.own_cwd /\ (a.packet => b.packet)

\* A process that changes its fields.
LEMMA ProcChanges ==
    ASSUME NEW procs, NEW count, ProcsRight(procs, count), NEW c \in DOMAIN procs, NEW b,
           ProcRight(b), SameProc(procs[c], b)
    PROVE  LET new == [procs EXCEPT ![c] = b] IN
           /\ ProcsRight(new, count) /\ DOMAIN new = DOMAIN procs
           /\ \A p \in DOMAIN procs : SameProc(procs[p], new[p])
<1> DEFINE new == [procs EXCEPT ![c] = b]
<1>1. DOMAIN new = DOMAIN procs /\ \A p \in DOMAIN procs : new[p] = IF p = c THEN b ELSE procs[p]
  OBVIOUS
<1> HIDE DEF new
<1>2. \A p \in DOMAIN procs : SameProc(procs[p], new[p])
  BY <1>1 DEF SameProc
<1>3. \A p \in DOMAIN procs : ProcRight(new[p]) /\ new[p].shell = procs[p].shell
  BY <1>1, <1>2 DEF ProcsRight, SameProc
<1>4. ProcsRight(new, count)
  BY <1>1, <1>3 DEF ProcsRight
<1> QED BY <1>1, <1>2, <1>4 DEF new

\* Memory has its owner as long as processes and commands stay.
LEMMA MemStays ==
    ASSUME NEW mem, NEW runs, NEW procs, MemRight(mem, runs, procs), NEW runs1, NEW procs1,
           \A k \in 1..(Len(runs) - 1) : k \in 1..(Len(runs1) - 1) /\ runs1[k + 1] = runs[k + 1],
           \A p \in DOMAIN procs : p \in DOMAIN procs1 /\ SameProc(procs[p], procs1[p])
    PROVE  MemRight(mem, runs1, procs1)
<1> SUFFICES ASSUME NEW m \in mem
             PROVE  \/ \E k \in 1..(Len(runs1) - 1) : m = <<k, "cmd_stack">> /\ runs1[k + 1].kind # "proc"
                    \/ \E p \in DOMAIN procs1 : m \in MemOf(p, procs1[p].shell) \/ (m = <<p, "packet">> /\ procs1[p].packet)
                    \/ m \in {Child} \X {"stack", "process", "name"}
  BY DEF MemRight
<1>1. CASE \E k \in 1..(Len(runs) - 1) : m = <<k, "cmd_stack">> /\ runs[k + 1].kind # "proc"
  BY <1>1
<1>2. CASE \E p \in DOMAIN procs : m \in MemOf(p, procs[p].shell) \/ (m = <<p, "packet">> /\ procs[p].packet)
  <2>1. PICK p \in DOMAIN procs : m \in MemOf(p, procs[p].shell) \/ (m = <<p, "packet">> /\ procs[p].packet)
    BY <1>2
  <2>2. p \in DOMAIN procs1 /\ procs1[p].shell = procs[p].shell /\ (procs[p].packet => procs1[p].packet)
    BY DEF SameProc
  <2>3. m \in MemOf(p, procs1[p].shell) \/ (m = <<p, "packet">> /\ procs1[p].packet)
    BY <2>1, <2>2
  <2> QED BY <2>2, <2>3
<1>3. CASE m \in {Child} \X {"stack", "process", "name"}
  BY <1>3
<1> QED BY <1>1, <1>2, <1>3 DEF MemRight

\* Locks and segments have their owners as long as processes stay.
LEMMA OwnersStay ==
    ASSUME NEW locks, NEW segs, NEW runs, NEW procs, NEW count,
           OwnersRight(locks, runs, procs, count), SegsRight(segs, procs), NEW runs1, NEW procs1, NEW count1,
           \A p \in DOMAIN procs : p \in DOMAIN procs1 /\ SameProc(procs[p], procs1[p]),
           runs # <<>> \/ (count = 0 /\ runs1 # <<>>) \/ (runs1 = <<>> /\ count1 # 0)
    PROVE  OwnersRight(locks, runs1, procs1, count1) /\ SegsRight(segs, procs1)
<1>1. ASSUME NEW l \in locks
      PROVE  \/ \E p \in DOMAIN procs1 : LockOf(l, p, procs1[p])
             \/ runs1 = <<>> /\ count1 # 0 /\ l \in ShellLocks
  <2>1. CASE \E p \in DOMAIN procs : LockOf(l, p, procs[p])
    <3>1. PICK p \in DOMAIN procs : LockOf(l, p, procs[p])
      BY <2>1
    <3>2. LockOf(l, p, procs1[p])
      BY <3>1 DEF LockOf, SameProc
    <3> QED BY <3>2
  <2>2. CASE runs = <<>> /\ count # 0 /\ l \in ShellLocks
    BY <2>2
  <2> QED BY <2>1, <2>2 DEF OwnersRight
<1>2. SegsRight(segs, procs1)
  BY DEF SegsRight
<1> QED BY <1>1, <1>2 DEF OwnersRight

\* A command starts in the process of the run on top.
LEMMA CommandStarts ==
    ASSUME NEW runs, NEW procs, NEW count, NEW mem, NEW locks, NEW segs,
           AllRight(runs, procs, count, mem, locks, segs), runs # <<>>,
           NEW fr, fr.kind # "proc", fr.proc = runs[Len(runs)].proc, SaveRight(fr),
           NEW b, ProcRight(b), SameProc(procs[fr.proc], b)
    PROVE  LET new == [procs EXCEPT ![fr.proc] = b] IN
           /\ AllRight(Append(runs, fr), new, count, mem \cup {<<Len(runs), "cmd_stack">>}, locks, segs)
           /\ fr.proc \in DOMAIN new /\ new[fr.proc] = b
<1> DEFINE new == [procs EXCEPT ![fr.proc] = b]
           runs1 == Append(runs, fr)
           n == Len(runs)
<1>1. RunsNested(runs) /\ ProcsRight(procs, count) /\ ProcsRun(runs, procs)
  BY DEF AllRight
<1>2. MemRight(mem, runs, procs) /\ OwnersRight(locks, runs, procs, count) /\ SegsRight(segs, procs)
  BY DEF AllRight
<1>3. n \in Nat /\ DOMAIN runs = 1..n /\ Len(runs1) = n + 1 /\ runs1[n + 1] = fr
      /\ \A i \in 1..n : runs1[i] = runs[i]
  BY <1>1, RunAdded
<1>4. n # 0
  <2>1. runs \in Seq({runs[i] : i \in DOMAIN runs})
    BY <1>1 DEF RunsNested, IsRuns
  <2> QED BY <2>1
<1>5. fr.proc \in DOMAIN procs
  <2>1. n \in DOMAIN runs
    BY <1>3, <1>4
  <2> QED BY <1>1, <2>1 DEF ProcsRun, ProcsOf
<1>6. RunsNested(runs1) /\ ProcsOf(runs1) = ProcsOf(runs)
  BY <1>1, CommandNested
<1>7. ProcsRight(new, count) /\ DOMAIN new = DOMAIN procs /\ \A p \in DOMAIN procs : SameProc(procs[p], new[p])
  BY <1>1, <1>5, ProcChanges
<1>8. new[fr.proc] = b
  BY <1>5
<1>9. runs1 # <<>>
  BY <1>3
<1> HIDE DEF new, runs1, n
<1>10. ProcsRun(runs1, new)
  BY <1>1, <1>6, <1>7 DEF ProcsRun
<1>11. MemRight(mem, runs1, new)
  <2>1. \A k \in 1..(n - 1) : k \in 1..(Len(runs1) - 1) /\ runs1[k + 1] = runs[k + 1]
    BY <1>3
  <2> QED BY <1>2, <1>7, <2>1, MemStays DEF n
<1>12. MemRight(mem \cup {<<n, "cmd_stack">>}, runs1, new)
  <2>1. n \in 1..(Len(runs1) - 1) /\ runs1[n + 1].kind # "proc"
    BY <1>3, <1>4
  <2> QED BY <1>11, <2>1 DEF MemRight
<1>13. OwnersRight(locks, runs1, new, count) /\ SegsRight(segs, new)
  BY <1>2, <1>7, OwnersStay
<1>14. AllRight(runs1, new, count, mem \cup {<<n, "cmd_stack">>}, locks, segs)
  BY <1>6, <1>7, <1>10, <1>12, <1>13 DEF AllRight
<1> QED BY <1>5, <1>7, <1>8, <1>14 DEF new, runs1, n

\* A command returns to the run below it.
LEMMA CommandEnds ==
    ASSUME NEW runs, NEW procs, NEW count, NEW mem, NEW locks, NEW segs,
           AllRight(runs, procs, count, mem, locks, segs), runs # <<>>, runs[Len(runs)].kind # "proc",
           NEW b, ProcRight(b), SameProc(procs[runs[Len(runs)].proc], b)
    PROVE  AllRight(Front(runs), [procs EXCEPT ![runs[Len(runs)].proc] = b], count,
                    mem \ {<<Len(runs) - 1, "cmd_stack">>}, locks, segs)
<1> DEFINE n == Len(runs)
           c == runs[n].proc
           new == [procs EXCEPT ![c] = b]
           runs1 == Front(runs)
<1>1. RunsNested(runs) /\ ProcsRight(procs, count) /\ ProcsRun(runs, procs)
  BY DEF AllRight
<1>2. MemRight(mem, runs, procs) /\ OwnersRight(locks, runs, procs, count) /\ SegsRight(segs, procs)
  BY DEF AllRight
<1>3. n \in Nat \ {0} /\ DOMAIN runs = 1..n /\ Len(runs1) = n - 1
      /\ \A i \in 1..(n - 1) : runs1[i] = runs[i]
  BY <1>1, RunGone
<1>4. c \in DOMAIN procs
  <2>1. n \in DOMAIN runs
    BY <1>3
  <2> QED BY <1>1, <2>1 DEF ProcsRun, ProcsOf
<1>5. RunsNested(runs1) /\ ProcsOf(runs1) = ProcsOf(runs)
  BY <1>1, FrontNested
<1>6. ProcsRight(new, count) /\ DOMAIN new = DOMAIN procs /\ \A p \in DOMAIN procs : SameProc(procs[p], new[p])
  BY <1>1, <1>4, ProcChanges
<1> DEFINE mem1 == mem \ {<<n - 1, "cmd_stack">>}
<1> HIDE DEF new, runs1, c, n
<1>7. ProcsRun(runs1, new)
  BY <1>1, <1>5, <1>6 DEF ProcsRun
<1>8. MemRight(mem1, runs1, new)
  <2> SUFFICES ASSUME NEW m \in mem1
               PROVE  \/ \E k \in 1..(Len(runs1) - 1) : m = <<k, "cmd_stack">> /\ runs1[k + 1].kind # "proc"
                      \/ \E p \in DOMAIN new : m \in MemOf(p, new[p].shell) \/ (m = <<p, "packet">> /\ new[p].packet)
                      \/ m \in {Child} \X {"stack", "process", "name"}
    BY DEF MemRight
  <2>1. m \in mem /\ m # <<n - 1, "cmd_stack">>
    OBVIOUS
  <2>2. CASE \E k \in 1..(n - 1) : m = <<k, "cmd_stack">> /\ runs[k + 1].kind # "proc"
    <3>1. PICK k \in 1..(n - 1) : m = <<k, "cmd_stack">> /\ runs[k + 1].kind # "proc"
      BY <2>2
    <3>2. k # n - 1
      BY <2>1, <3>1
    <3>3. k \in 1..(Len(runs1) - 1) /\ runs1[k + 1] = runs[k + 1]
      BY <1>3, <3>2
    <3> QED BY <3>1, <3>3
  <2>3. CASE \E p \in DOMAIN procs : m \in MemOf(p, procs[p].shell) \/ (m = <<p, "packet">> /\ procs[p].packet)
    <3>1. PICK p \in DOMAIN procs : m \in MemOf(p, procs[p].shell) \/ (m = <<p, "packet">> /\ procs[p].packet)
      BY <2>3
    <3>2. p \in DOMAIN new /\ new[p].shell = procs[p].shell /\ (procs[p].packet => new[p].packet)
      BY <1>6 DEF SameProc
    <3> QED BY <3>1, <3>2
  <2> QED BY <1>2, <2>1, <2>2, <2>3 DEF MemRight, n
<1>9. OwnersRight(locks, runs1, new, count) /\ SegsRight(segs, new)
  BY <1>2, <1>6, OwnersStay
<1>10. AllRight(runs1, new, count, mem1, locks, segs)
  BY <1>5, <1>6, <1>7, <1>8, <1>9 DEF AllRight
<1> QED BY <1>10 DEF new, runs1, c, n

\* A process starts below all that runs.
LEMMA ProcessStarts ==
    ASSUME NEW runs, NEW procs, NEW count, NEW mem, NEW locks, NEW segs,
           AllRight(runs, procs, count, mem, locks, segs), runs # <<>> \/ count = 0,
           NEW fr, fr.kind = "proc", fr.proc = count + 1,
           NEW b, ProcRight(b), b.shell => count = 0
    PROVE  LET p == count + 1
               new == [q \in DOMAIN procs \union {p} |-> IF q = p THEN b ELSE procs[q]]
           IN  AllRight(Append(runs, fr), new, p, mem \union MemOf(p, b.shell),
                        locks \union CwdLock(p, b.own_cwd) \union {<<p, "home">>}, segs \union {<<p, "bin">>})
<1> DEFINE p == count + 1
           new == [q \in DOMAIN procs \union {p} |-> IF q = p THEN b ELSE procs[q]]
           runs1 == Append(runs, fr)
           n == Len(runs)
<1>1. RunsNested(runs) /\ ProcsRight(procs, count) /\ ProcsRun(runs, procs)
  BY DEF AllRight
<1>2. MemRight(mem, runs, procs) /\ OwnersRight(locks, runs, procs, count) /\ SegsRight(segs, procs)
  BY DEF AllRight
<1>3. n \in Nat /\ DOMAIN runs = 1..n /\ Len(runs1) = n + 1 /\ runs1[n + 1] = fr
      /\ \A i \in 1..n : runs1[i] = runs[i]
  BY <1>1, RunAdded
<1>4. count \in Nat /\ p \in Nat /\ p \in 1..p /\ \A q \in DOMAIN procs : q \in 1..p /\ q # p
  BY <1>1 DEF ProcsRight
<1>5. DOMAIN new = DOMAIN procs \cup {p} /\ new[p] = b /\ \A q \in DOMAIN procs : new[q] = procs[q]
  BY <1>4
<1>6. ASSUME NEW i \in DOMAIN runs PROVE runs[i].proc < fr.proc
  <2> DEFINE q == runs[i].proc
  <2>1. q \in DOMAIN procs
    BY <1>1 DEF ProcsRun, ProcsOf
  <2> HIDE DEF q
  <2>2. q \in 1..count
    BY <1>1, <2>1 DEF ProcsRight
  <2>3. q < count + 1
    BY <1>4, <2>2
  <2> QED BY <2>3 DEF q
<1>7. fr.proc = p /\ fr.proc \in Nat
  BY <1>4
<1> HIDE DEF p
<1>8. RunsNested(runs1) /\ ProcsOf(runs1) = ProcsOf(runs) \cup {fr.proc}
  BY <1>1, <1>6, <1>7, ProcessNested
<1>9. runs1 # <<>>
  BY <1>3
<1> HIDE DEF new, runs1, n
<1>10. ProcsRun(runs1, new)
  BY <1>1, <1>5, <1>7, <1>8 DEF ProcsRun
<1>11. ProcsRight(new, p)
  <2>1. b.shell => p = 1
    BY DEF p
  <2> QED BY <1>1, <1>4, <1>5, <2>1 DEF ProcsRight
<1>12. \A q \in DOMAIN procs : q \in DOMAIN new /\ SameProc(procs[q], new[q])
  BY <1>5 DEF SameProc
<1>13. MemRight(mem, runs1, new)
  <2>1. \A k \in 1..(n - 1) : k \in 1..(Len(runs1) - 1) /\ runs1[k + 1] = runs[k + 1]
    BY <1>3
  <2> QED BY <1>2, <1>12, <2>1, MemStays DEF n
<1>14. MemRight(mem \union MemOf(p, b.shell), runs1, new)
  BY <1>5, <1>13 DEF MemRight
<1>15. OwnersRight(locks, runs1, new, p) /\ SegsRight(segs, new)
  BY <1>2, <1>9, <1>12, OwnersStay
<1>16. OwnersRight(locks \union CwdLock(p, b.own_cwd) \union {<<p, "home">>}, runs1, new, p)
  <2>1. \A l \in CwdLock(p, b.own_cwd) \union {<<p, "home">>} : LockOf(l, p, b)
    BY DEF CwdLock, LockOf
  <2> QED BY <1>5, <1>15, <2>1 DEF OwnersRight
<1>17. SegsRight(segs \union {<<p, "bin">>}, new)
  BY <1>5, <1>15 DEF SegsRight
<1>18. AllRight(runs1, new, p, mem \union MemOf(p, b.shell),
                locks \union CwdLock(p, b.own_cwd) \union {<<p, "home">>}, segs \union {<<p, "bin">>})
  BY <1>8, <1>10, <1>11, <1>14, <1>16, <1>17 DEF AllRight
<1> QED BY <1>18 DEF new, runs1, p

\* A process ends: a shell is the first process, and nothing runs after it.
LEMMA ProcessEnds ==
    ASSUME NEW runs, NEW procs, NEW count, NEW mem, NEW locks, NEW segs,
           AllRight(runs, procs, count, mem, locks, segs), runs # <<>>, runs[Len(runs)].kind = "proc"
    PROVE  LET c == runs[Len(runs)].proc
               pr == procs[c]
           IN  AllRight(Front(runs), [q \in DOMAIN procs \ {c} |-> procs[q]], count,
                        mem \ (MemOf(c, pr.shell) \union IF pr.packet THEN {<<c, "packet">>} ELSE {}),
                        locks \ ({<<c, "home">>} \union IF pr.shell THEN {} ELSE CwdLock(c, pr.own_cwd)),
                        segs \ {<<c, "bin">>})
<1> DEFINE n == Len(runs)
           c == runs[n].proc
           pr == procs[c]
           new == [q \in DOMAIN procs \ {c} |-> procs[q]]
           runs1 == Front(runs)
           mem1 == mem \ (MemOf(c, pr.shell) \union IF pr.packet THEN {<<c, "packet">>} ELSE {})
           locks1 == locks \ ({<<c, "home">>} \union IF pr.shell THEN {} ELSE CwdLock(c, pr.own_cwd))
           segs1 == segs \ {<<c, "bin">>}
<1>1. RunsNested(runs) /\ ProcsRight(procs, count) /\ ProcsRun(runs, procs)
  BY DEF AllRight
<1>2. MemRight(mem, runs, procs) /\ OwnersRight(locks, runs, procs, count) /\ SegsRight(segs, procs)
  BY DEF AllRight
<1>3. n \in Nat \ {0} /\ DOMAIN runs = 1..n /\ Len(runs1) = n - 1 /\ IsRuns(runs1)
      /\ \A i \in 1..(n - 1) : runs1[i] = runs[i]
  BY <1>1, RunGone
<1>4. n \in DOMAIN runs /\ c \in DOMAIN procs
  <2>1. n \in DOMAIN runs
    BY <1>3
  <2> QED BY <1>1, <2>1 DEF ProcsRun, ProcsOf
<1>5. RunsNested(runs1) /\ ProcsOf(runs1) = ProcsOf(runs) \ {c}
  BY <1>1, FrontNested
<1>6. DOMAIN new = DOMAIN procs \ {c} /\ \A q \in DOMAIN new : new[q] = procs[q]
  OBVIOUS
<1>7. runs[n].kind = "proc" /\ runs[n].proc = c
  OBVIOUS
<1>8. ASSUME NEW m \in mem1
      PROVE  m \in mem /\ m \notin MemOf(c, pr.shell) /\ ~(m = <<c, "packet">> /\ pr.packet)
  OBVIOUS
<1>9. ASSUME NEW l \in locks1
      PROVE  l \in locks /\ l # <<c, "home">> /\ (~pr.shell => l \notin CwdLock(c, pr.own_cwd))
  OBVIOUS
<1>10. ASSUME NEW s \in segs1 PROVE s \in segs /\ s # <<c, "bin">>
  OBVIOUS
<1> HIDE DEF new, runs1, mem1, locks1, segs1, n, c
<1>11. ProcsRun(runs1, new)
  BY <1>1, <1>5, <1>6 DEF ProcsRun
<1>12. ProcsRight(new, count)
  BY <1>1, <1>6 DEF ProcsRight
<1>13. MemRight(mem1, runs1, new)
  <2> SUFFICES ASSUME NEW m \in mem1
               PROVE  \/ \E k \in 1..(Len(runs1) - 1) : m = <<k, "cmd_stack">> /\ runs1[k + 1].kind # "proc"
                      \/ \E p \in DOMAIN new : m \in MemOf(p, new[p].shell) \/ (m = <<p, "packet">> /\ new[p].packet)
                      \/ m \in {Child} \X {"stack", "process", "name"}
    BY DEF MemRight
  <2>1. CASE \E k \in 1..(n - 1) : m = <<k, "cmd_stack">> /\ runs[k + 1].kind # "proc"
    <3>1. PICK k \in 1..(n - 1) : m = <<k, "cmd_stack">> /\ runs[k + 1].kind # "proc"
      BY <2>1
    <3>2. k + 1 # n
      BY <1>7, <3>1
    <3>3. k \in 1..(Len(runs1) - 1) /\ runs1[k + 1] = runs[k + 1]
      BY <1>3, <3>2
    <3> QED BY <3>1, <3>3
  <2>2. CASE \E p \in DOMAIN procs : m \in MemOf(p, procs[p].shell) \/ (m = <<p, "packet">> /\ procs[p].packet)
    <3>1. PICK p \in DOMAIN procs : m \in MemOf(p, procs[p].shell) \/ (m = <<p, "packet">> /\ procs[p].packet)
      BY <2>2
    <3>2. p # c
      BY <1>8, <3>1
    <3>3. p \in DOMAIN new /\ new[p] = procs[p]
      BY <1>6, <3>2
    <3> QED BY <3>1, <3>3
  <2>3. m \in mem
    BY <1>8
  <2> QED BY <1>2, <2>1, <2>2, <2>3 DEF MemRight, n
<1>14. ASSUME pr.shell PROVE c = 1 /\ runs1 = <<>> /\ count # 0
  <2>1. c = 1 /\ c \in 1..count /\ count \in Nat
    BY <1>1, <1>4, <1>14 DEF ProcsRight
  <2>2. n = 1
    <3> SUFFICES ASSUME n # 1 PROVE FALSE
      OBVIOUS
    <3>1. 1 \in DOMAIN runs /\ 1 < n
      BY <1>3
    <3>2. runs[1].proc < c
      BY <1>1, <1>4, <1>7, <3>1 DEF RunsNested
    <3> DEFINE q == runs[1].proc
    <3>3. q \in DOMAIN procs
      BY <1>1, <3>1 DEF ProcsRun, ProcsOf
    <3> HIDE DEF q
    <3>4. q \in 1..count
      BY <1>1, <3>3 DEF ProcsRight
    <3>5. q < 1
      BY <2>1, <3>2 DEF q
    <3> QED BY <2>1, <3>4, <3>5
  <2>3. runs1 = <<>>
    <3>1. runs1 \in Seq({runs1[i] : i \in DOMAIN runs1})
      BY <1>3 DEF IsRuns
    <3>2. Len(runs1) = 0
      BY <1>3, <2>2
    <3> QED BY <3>1, <3>2, EmptySeq
  <2>4. count # 0
    BY <2>1
  <2> QED BY <2>1, <2>3, <2>4
<1>15. OwnersRight(locks1, runs1, new, count)
  <2> SUFFICES ASSUME NEW l \in locks1
               PROVE  \/ \E p \in DOMAIN new : LockOf(l, p, new[p])
                      \/ runs1 = <<>> /\ count # 0 /\ l \in ShellLocks
    BY DEF OwnersRight
  <2>1. l \in locks
    BY <1>9
  <2>2. PICK p \in DOMAIN procs : LockOf(l, p, procs[p])
    BY <1>2, <2>1 DEF OwnersRight
  <2>3. CASE p # c
    <3>1. p \in DOMAIN new /\ new[p] = procs[p]
      BY <1>6, <2>3
    <3> QED BY <2>2, <3>1
  <2>4. CASE p = c
    <3>1. LockOf(l, c, pr)
      BY <2>2, <2>4
    <3> HIDE DEF pr
    <3>2. pr.shell
      BY <1>9, <3>1 DEF LockOf, CwdLock
    <3>3. l = <<1, "cwd">> \/ l \in {1} \X {"dup"} \X (1..MaxDepth)
      BY <1>9, <1>14, <3>1, <3>2 DEF LockOf
    <3> QED BY <1>14, <3>2, <3>3 DEF ShellLocks
  <2> QED BY <2>3, <2>4
<1>16. SegsRight(segs1, new)
  <2> SUFFICES ASSUME NEW s \in segs1
               PROVE  (\E p \in DOMAIN new : s = <<p, "bin">>) \/ s[1] = DosLib
    BY DEF SegsRight
  <2>1. s \in segs /\ s # <<c, "bin">>
    BY <1>10
  <2> QED BY <1>2, <1>6, <2>1 DEF SegsRight
<1>17. AllRight(runs1, new, count, mem1, locks1, segs1)
  BY <1>5, <1>11, <1>12, <1>13, <1>15, <1>16 DEF AllRight
<1> QED BY <1>17 DEF new, runs1, mem1, locks1, segs1, n, c

\* A process that runs changes its fields.
LEMMA ProcessWorks ==
    ASSUME NEW runs, NEW procs, NEW count, NEW mem, NEW locks, NEW segs,
           AllRight(runs, procs, count, mem, locks, segs), runs # <<>>,
           NEW c \in DOMAIN procs, NEW b, ProcRight(b), SameProc(procs[c], b)
    PROVE  AllRight(runs, [procs EXCEPT ![c] = b], count, mem, locks, segs)
<1> DEFINE new == [procs EXCEPT ![c] = b]
<1>1. RunsNested(runs) /\ ProcsRight(procs, count) /\ ProcsRun(runs, procs)
  BY DEF AllRight
<1>2. MemRight(mem, runs, procs) /\ OwnersRight(locks, runs, procs, count) /\ SegsRight(segs, procs)
  BY DEF AllRight
<1>3. ProcsRight(new, count) /\ DOMAIN new = DOMAIN procs /\ \A p \in DOMAIN procs : SameProc(procs[p], new[p])
  BY <1>1, ProcChanges
<1> HIDE DEF new
<1>4. ProcsRun(runs, new)
  BY <1>1, <1>3 DEF ProcsRun
<1>5. MemRight(mem, runs, new)
  BY <1>2, <1>3, MemStays
<1>6. OwnersRight(locks, runs, new, count) /\ SegsRight(segs, new)
  BY <1>2, <1>3, OwnersStay
<1>7. AllRight(runs, new, count, mem, locks, segs)
  BY <1>1, <1>3, <1>4, <1>5, <1>6 DEF AllRight
<1> QED BY <1>7 DEF new

-----------------------------------------------------------------------------
(* Fields of a process.                                                    *)

\* Fields that say nothing of what the process owns.
LEMMA FieldsKept ==
    ASSUME NEW pr, ProcRight(pr), NEW b, DOMAIN b = ProcFields, DOMAIN b.cli = CliFields,
           b.shell = pr.shell, b.own_cwd = pr.own_cwd, b.packet \in BOOLEAN, pr.packet => b.packet
    PROVE  ProcRight(b) /\ SameProc(pr, b)
  BY DEF ProcRight, SameProc

\* What begin_command() and end_command() make of a process.
CommandOf(pr, b) ==
    /\ DOMAIN b = ProcFields /\ ProcRight(b) /\ SameProc(pr, b)
    /\ b.cli = pr.cli /\ b.shell = pr.shell /\ b.own_cwd = pr.own_cwd /\ b.packet = pr.packet
    /\ b.cis = pr.cis /\ b.cos = pr.cos /\ b.dir = pr.dir

\* Stack bounds.
LEMMA BoundsChange ==
    ASSUME NEW pr, ProcRight(pr), NEW x, NEW y
    PROVE  CommandOf(pr, [pr EXCEPT !.lower = x, !.upper = y])
<1> DEFINE a == [pr EXCEPT !.lower = x]
           b == [a EXCEPT !.upper = y]
<1>1. DOMAIN pr = ProcFields
  BY DEF ProcRight
<1>2. DOMAIN a = ProcFields /\ \A g \in ProcFields \ {"lower"} : a[g] = pr[g]
  BY <1>1 DEF ProcFields
<1> HIDE DEF a
<1>3. DOMAIN b = ProcFields /\ \A g \in ProcFields \ {"upper"} : b[g] = a[g]
  BY <1>2 DEF ProcFields
<1> HIDE DEF b
<1>4. /\ b.cli = pr.cli /\ b.shell = pr.shell /\ b.own_cwd = pr.own_cwd /\ b.packet = pr.packet
      /\ b.cis = pr.cis /\ b.cos = pr.cos /\ b.dir = pr.dir
  BY <1>2, <1>3 DEF ProcFields
<1>5. DOMAIN b.cli = CliFields /\ b.packet \in BOOLEAN
  BY <1>4 DEF ProcRight
<1>6. ProcRight(b) /\ SameProc(pr, b)
  BY <1>3, <1>4, <1>5, FieldsKept
<1>7. b = [pr EXCEPT !.lower = x, !.upper = y]
  BY DEF a, b
<1>8. CommandOf(pr, b)
  BY <1>3, <1>4, <1>6 DEF CommandOf
<1> QED BY <1>7, <1>8

\* begin_command() and end_command().
LEMMA CommandFields ==
    ASSUME NEW pr, ProcRight(pr)
    PROVE  /\ CommandOf(pr, begin_command(pr))
           /\ \A save : CommandOf(pr, end_command(pr, save))
<1>1. CommandOf(pr, begin_command(pr))
  <2>1. CommandOf(pr, [pr EXCEPT !.lower = <<Len(dp_runs), "high">>, !.upper = <<Len(dp_runs), "low">>])
    BY BoundsChange
  <2> QED BY <2>1 DEF begin_command
<1>2. ASSUME NEW save PROVE CommandOf(pr, end_command(pr, save))
  <2>1. CommandOf(pr, [pr EXCEPT !.lower = save.upper, !.upper = save.lower])
    BY BoundsChange
  <2> QED BY <2>1 DEF end_command
<1> QED BY <1>1, <1>2

\* The end of SystemTagList().
LEMMA SystemFields ==
    ASSUME NEW pr, ProcRight(pr), NEW save, DOMAIN save.cli = CliFields
    PROVE  LET b == end_system(pr, save) IN
           /\ ProcRight(b) /\ SameProc(pr, b)
           /\ b.dir = save.dir /\ b.cos = save.cos /\ b.cis = save.cli.cur_in
           /\ b.cli.cur_in = save.cli.cur_in /\ b.cli.std_in = save.cli.std_in
<1> DEFINE e == end_command(pr, save)
           cli == cli_back(pr, save)
           e1 == [e EXCEPT !.cli = cli]
           e2 == [e1 EXCEPT !.cis = save.cli.cur_in]
           e3 == [e2 EXCEPT !.cos = save.cos]
           e4 == [e3 EXCEPT !.dir = save.dir]
<1>1. DOMAIN e = ProcFields /\ e.shell = pr.shell /\ e.own_cwd = pr.own_cwd /\ e.packet = pr.packet
  BY CommandFields DEF CommandOf
<1>2. end_system(pr, save) = e4
  BY DEF end_system
<1>3. DOMAIN cli = CliFields /\ cli.cur_in = save.cli.cur_in /\ cli.std_in = save.cli.std_in
  BY DEF cli_back, CliFields
<1> HIDE DEF e, cli
<1>4. DOMAIN e1 = ProcFields /\ e1.cli = cli /\ \A g \in ProcFields \ {"cli"} : e1[g] = e[g]
  BY <1>1 DEF ProcFields
<1> HIDE DEF e1
<1>5. DOMAIN e2 = ProcFields /\ e2.cis = save.cli.cur_in /\ \A g \in ProcFields \ {"cis"} : e2[g] = e1[g]
  BY <1>4 DEF ProcFields
<1> HIDE DEF e2
<1>6. DOMAIN e3 = ProcFields /\ e3.cos = save.cos /\ \A g \in ProcFields \ {"cos"} : e3[g] = e2[g]
  BY <1>5 DEF ProcFields
<1> HIDE DEF e3
<1>7. DOMAIN e4 = ProcFields /\ e4.dir = save.dir /\ \A g \in ProcFields \ {"dir"} : e4[g] = e3[g]
  BY <1>6 DEF ProcFields
<1> HIDE DEF e4
<1>8. /\ e4.shell = pr.shell /\ e4.own_cwd = pr.own_cwd /\ e4.packet = pr.packet /\ e4.cli = cli
      /\ e4.cos = save.cos /\ e4.cis = save.cli.cur_in
  BY <1>1, <1>4, <1>5, <1>6, <1>7 DEF ProcFields
<1>9. e4.packet \in BOOLEAN
  BY <1>8 DEF ProcRight
<1>10. ProcRight(e4) /\ SameProc(pr, e4)
  BY <1>3, <1>7, <1>8, <1>9, FieldsKept
<1> QED BY <1>2, <1>3, <1>7, <1>8, <1>10

-----------------------------------------------------------------------------
(* main().                                                                 *)

\* A phase follows the other.
LEMMA PhaseFollows ==
    ASSUME NEW i \in 1..11
    PROVE  NextPhase(Phases[i]) = Phases[i + 1]
<1> DEFINE k == CHOOSE j \in DOMAIN Phases : Phases[j] = Phases[i]
<1>1. i \in DOMAIN Phases /\ DOMAIN Phases = 1..12
  BY DEF Phases
<1>2. k \in DOMAIN Phases /\ Phases[k] = Phases[i]
  BY <1>1
<1> HIDE DEF k
<1>3. k = i
  BY <1>1, <1>2 DEF Phases
<1>4. NextPhase(Phases[i]) = Phases[k + 1]
  BY DEF NextPhase, k
<1> QED BY <1>3, <1>4

\* The phases that MainStep leaves.
LEMMA StepPhases ==
    ASSUME NEW ph \in {"config", "log", "machine", "memmap", "trace", "path_config", "path_setup", "lib_config", "open_libs"}
    PROVE  /\ ph \in {"config", "log", "machine", "memmap"} => NextPhase(ph) \in {"log", "machine", "memmap", "trace"}
           /\ ph \notin {"config", "log", "machine", "memmap"} => NextPhase(ph) \in InTry
<1> DEFINE P(i) == Phases[i]
<1>1. \A i \in 1..11 : NextPhase(P(i)) = P(i + 1)
  BY PhaseFollows
<1>2. /\ P(1) = "config" /\ P(2) = "log" /\ P(3) = "machine" /\ P(4) = "memmap" /\ P(5) = "trace"
      /\ P(6) = "path_config" /\ P(7) = "path_setup" /\ P(8) = "lib_config" /\ P(9) = "open_libs" /\ P(10) = "mode"
  BY DEF Phases
<1> HIDE DEF P
<1>3. /\ NextPhase("config") = "log" /\ NextPhase("log") = "machine" /\ NextPhase("machine") = "memmap"
      /\ NextPhase("memmap") = "trace" /\ NextPhase("trace") = "path_config"
  BY <1>1, <1>2
<1>4. /\ NextPhase("path_config") = "path_setup" /\ NextPhase("path_setup") = "lib_config"
      /\ NextPhase("lib_config") = "open_libs" /\ NextPhase("open_libs") = "mode"
  BY <1>1, <1>2
<1> QED BY <1>3, <1>4 DEF InTry

\* What runs, and what is allocated for it, as a step leaves it.
LEMMA RestStays ==
    ASSUME TidyInv, dp_pkt' = dp_pkt, PathsRight(dp_phase', dp_paths'),
           dp_phase # "ended", dp_runs' = dp_runs, dp_proc' = dp_proc, dp_count' = dp_count,
           dp_mem' = dp_mem, dp_locks' = dp_locks, dp_segs' = dp_segs
    PROVE  TidyInv'
  BY DEF TidyInv

\* A step of main(), done or failed.
LEMMA MainTidy ==
    ASSUME TidyInv, MainStep \/ MainFails \/ LibsDown
    PROVE  TidyInv'
<1>1. dp_phase # "ended" /\ MainRest
  BY DEF MainStep, MainFails, LibsDown, CanFail
<1>2. PathsRight(dp_phase, dp_paths)
  BY DEF TidyInv
<1>3. PathsRight(dp_phase', dp_paths')
  <2>1. CASE MainStep
    <3>1. dp_phase \in {"config", "log", "machine", "memmap", "trace", "path_config", "path_setup", "lib_config", "open_libs"}
          /\ dp_phase' = NextPhase(dp_phase) /\ dp_paths' = IF dp_phase = "trace" THEN "up" ELSE dp_paths
      BY <2>1 DEF MainStep
    <3>2. CASE dp_phase \in {"config", "log", "machine", "memmap"}
      <4>1. dp_phase' \in {"log", "machine", "memmap", "trace"}
        BY <3>1, <3>2, StepPhases
      <4>2. dp_paths' = "none"
        BY <1>2, <3>1, <3>2 DEF PathsRight, InTry
      <4> QED BY <4>1, <4>2 DEF PathsRight, InTry
    <3>3. CASE dp_phase \notin {"config", "log", "machine", "memmap"}
      <4>1. dp_phase' \in InTry
        BY <3>1, <3>3, StepPhases
      <4>2. dp_paths' = "up"
        BY <1>2, <3>1, <3>3 DEF PathsRight, InTry
      <4> QED BY <4>1, <4>2 DEF PathsRight
    <3> QED BY <3>2, <3>3
  <2>2. CASE MainFails \/ LibsDown
    <3>1. dp_phase' = "ended" /\ dp_paths' = IF dp_phase \in InTry THEN "down" ELSE dp_paths
      BY <2>2 DEF MainFails, LibsDown, paths_after
    <3>2. dp_paths' \in {"none", "down"}
      BY <1>1, <1>2, <3>1 DEF PathsRight
    <3> QED BY <3>1, <3>2 DEF PathsRight, InTry
  <2> QED BY <2>1, <2>2
<1> QED BY <1>1, <1>3, RestStays DEF MainRest

\* An exception of a program that runs.
LEMMA RaiseTidy ==
    ASSUME TidyInv, Running_, ProcRaise
    PROVE  TidyInv'
  BY DEF TidyInv, Running_, ProcRaise, paths_after, PathsRight, InTry

\* What holds while a program runs.
LEMMA OnTop ==
    ASSUME TidyInv, Running_
    PROVE  /\ dp_phase = "mode" /\ dp_runs # <<>> /\ PathsRight(dp_phase, dp_paths) /\ PktRight(dp_pkt)
           /\ AllRight(dp_runs, dp_proc, dp_count, dp_mem, dp_locks, dp_segs)
           /\ Len(dp_runs) \in Nat \ {0} /\ Top = dp_runs[Len(dp_runs)] /\ Cur = dp_runs[Len(dp_runs)].proc
           /\ Cur \in DOMAIN dp_proc /\ ProcRight(dp_proc[Cur]) /\ SaveRight(Top)
<1>1. dp_phase = "mode" /\ dp_runs # <<>> /\ PathsRight(dp_phase, dp_paths) /\ PktRight(dp_pkt)
      /\ AllRight(dp_runs, dp_proc, dp_count, dp_mem, dp_locks, dp_segs)
  BY DEF TidyInv, Running_
<1>2. RunsNested(dp_runs) /\ ProcsRight(dp_proc, dp_count) /\ ProcsRun(dp_runs, dp_proc)
  BY <1>1 DEF AllRight
<1>3. Len(dp_runs) \in Nat \ {0} /\ DOMAIN dp_runs = 1..Len(dp_runs)
  BY <1>1, <1>2, RunGone
<1>4. Len(dp_runs) \in DOMAIN dp_runs
  BY <1>3
<1>5. Top = dp_runs[Len(dp_runs)] /\ Cur = dp_runs[Len(dp_runs)].proc
  BY DEF Top, Cur
<1>6. SaveRight(Top)
  BY <1>2, <1>4, <1>5 DEF RunsNested
<1>7. Cur \in DOMAIN dp_proc
  BY <1>2, <1>4, <1>5 DEF ProcsRun, ProcsOf
<1>8. ProcRight(dp_proc[Cur])
  BY <1>2, <1>7 DEF ProcsRight
<1> QED BY <1>1, <1>3, <1>5, <1>6, <1>7, <1>8

\* A step after which all is right.
LEMMA StepTidy ==
    ASSUME TidyInv, dp_pkt' = dp_pkt, PathsRight(dp_phase', dp_paths'),
           AllRight(dp_runs', dp_proc', dp_count', dp_mem', dp_locks', dp_segs')
    PROVE  TidyInv'
  BY DEF TidyInv

-----------------------------------------------------------------------------
(* Processes start and end.                                                *)

\* The fields of a new process.
LEMMA NewFields ==
    ASSUME NEW p, NEW shell \in BOOLEAN, NEW own_cwd \in BOOLEAN
    PROVE  LET b == NewProc(p, shell, own_cwd) IN ProcRight(b) /\ b.shell = shell /\ b.own_cwd = own_cwd
  BY DEF NewProc, ProcRight, ProcFields, CliFields, Cli0

\* A process starts in a mode that runs.
LEMMA StartTidy ==
    ASSUME TidyInv, dp_phase = "mode", NEW shell \in BOOLEAN, NEW own_cwd \in BOOLEAN, ProcStarts(shell, own_cwd),
           dp_runs # <<>> \/ dp_count = 0, shell => dp_count = 0,
           UNCHANGED <<dp_phase, dp_paths, dp_pkt>>
    PROVE  TidyInv'
<1> DEFINE q == dp_count + 1
           b == NewProc(q, shell, own_cwd)
           fr == [kind |-> "proc", proc |-> q, save |-> <<>>]
<1>1. AllRight(dp_runs, dp_proc, dp_count, dp_mem, dp_locks, dp_segs)
  BY DEF TidyInv
<1>2. ProcRight(b) /\ b.shell = shell /\ b.own_cwd = own_cwd
  BY NewFields
<1>3. /\ dp_count' = q /\ dp_runs' = Append(dp_runs, fr)
      /\ dp_locks' = dp_locks \union CwdLock(q, own_cwd) \union {<<q, "home">>}
      /\ dp_segs' = dp_segs \union {<<q, "bin">>}
      /\ dp_mem' = dp_mem \union MemOf(q, shell)
      /\ dp_proc' = [r \in DOMAIN dp_proc \union {q} |-> IF r = q THEN b ELSE dp_proc[r]]
  BY DEF ProcStarts, Run
<1>4. fr.kind = "proc" /\ fr.proc = dp_count + 1
  OBVIOUS
<1> HIDE DEF b, fr
<1>5. AllRight(Append(dp_runs, fr), [r \in DOMAIN dp_proc \union {q} |-> IF r = q THEN b ELSE dp_proc[r]], q,
               dp_mem \union MemOf(q, b.shell),
               dp_locks \union CwdLock(q, b.own_cwd) \union {<<q, "home">>}, dp_segs \union {<<q, "bin">>})
  BY <1>1, <1>2, <1>4, ProcessStarts
<1>6. AllRight(dp_runs', dp_proc', dp_count', dp_mem', dp_locks', dp_segs')
  BY <1>2, <1>3, <1>5
<1>7. PathsRight(dp_phase', dp_paths')
  BY DEF TidyInv
<1> QED BY <1>6, <1>7, StepTidy

\* A process that cannot be started.
LEMMA FailTidy ==
    ASSUME TidyInv, dp_phase = "mode", ProcFails, dp_phase' \in {"mode", "libs_down"},
           dp_runs # <<>> \/ dp_count = 0,
           UNCHANGED <<dp_paths, dp_runs, dp_proc, dp_mem, dp_segs, dp_pkt>>
    PROVE  TidyInv'
<1>1. /\ RunsNested(dp_runs) /\ ProcsRight(dp_proc, dp_count) /\ ProcsRun(dp_runs, dp_proc)
      /\ MemRight(dp_mem, dp_runs, dp_proc) /\ OwnersRight(dp_locks, dp_runs, dp_proc, dp_count)
      /\ SegsRight(dp_segs, dp_proc)
  BY DEF TidyInv, AllRight
<1>2. dp_count' = dp_count + 1 /\ dp_locks' = dp_locks
  BY DEF ProcFails
<1>3. ProcsRight(dp_proc, dp_count')
  <2>1. dp_count \in Nat /\ \A q \in 1..dp_count : q \in 1..(dp_count + 1)
    BY <1>1 DEF ProcsRight
  <2> QED BY <1>1, <1>2, <2>1 DEF ProcsRight
<1>4. OwnersRight(dp_locks, dp_runs, dp_proc, dp_count')
  <2>1. dp_count' # 0
    BY <1>1, <1>2 DEF ProcsRight
  <2> QED BY <1>1, <2>1 DEF OwnersRight
<1>5. AllRight(dp_runs', dp_proc', dp_count', dp_mem', dp_locks', dp_segs')
  BY <1>1, <1>2, <1>3, <1>4 DEF AllRight
<1>6. PathsRight(dp_phase', dp_paths')
  BY DEF TidyInv, PathsRight, InTry
<1> QED BY <1>5, <1>6, StepTidy

\* The main process starts, or is not found.
LEMMA MainStartTidy ==
    ASSUME TidyInv, MainNotFound \/ \E s \in BOOLEAN : StartMain(s)
    PROVE  TidyInv'
<1>1. CASE MainNotFound
  BY <1>1, FailTidy DEF MainNotFound
<1>2. ASSUME NEW s \in BOOLEAN, StartMain(s) PROVE TidyInv'
  BY <1>2, StartTidy DEF StartMain
<1> QED BY <1>1, <1>2

\* A program starts a sub process.
LEMMA SystemProcTidy ==
    ASSUME TidyInv, NEW found \in BOOLEAN, SystemProc(found)
    PROVE  TidyInv'
<1>1. dp_phase = "mode" /\ dp_runs # <<>> /\ UNCHANGED <<dp_phase, dp_paths, dp_pkt>>
      /\ (found => ProcStarts(FALSE, FALSE))
      /\ (~found => ProcFails /\ UNCHANGED <<dp_segs, dp_mem, dp_proc, dp_runs>>)
  BY DEF SystemProc, Deeper, Running_
<1>2. CASE found
  BY <1>1, <1>2, StartTidy
<1>3. CASE ~found
  BY <1>1, <1>3, FailTidy
<1> QED BY <1>2, <1>3

\* A program returns.
LEMMA ExitTidy ==
    ASSUME TidyInv, ProcExit
    PROVE  TidyInv'
<1> DEFINE c == dp_runs[Len(dp_runs)].proc
           pr == dp_proc[c]
<1>1. /\ Running_ /\ Top.kind = "proc" /\ ProcFree(Cur) /\ dp_runs' = Front(dp_runs)
      /\ dp_phase' = IF Len(dp_runs) = 1 THEN "libs_down" ELSE dp_phase
      /\ UNCHANGED <<dp_paths, dp_count, dp_seg_lists, dp_err, dp_children, dp_pkt>>
  BY DEF ProcExit
<1>2. /\ dp_phase = "mode" /\ dp_runs # <<>> /\ PathsRight(dp_phase, dp_paths)
      /\ AllRight(dp_runs, dp_proc, dp_count, dp_mem, dp_locks, dp_segs)
      /\ Top = dp_runs[Len(dp_runs)] /\ Cur = c
  BY <1>1, OnTop
<1>3. /\ dp_locks' = dp_locks \ ({<<c, "home">>} \union IF pr.shell THEN {} ELSE CwdLock(c, pr.own_cwd))
      /\ dp_segs' = dp_segs \ {<<c, "bin">>}
      /\ dp_mem' = dp_mem \ (MemOf(c, pr.shell) \union IF pr.packet THEN {<<c, "packet">>} ELSE {})
      /\ dp_proc' = [q \in DOMAIN dp_proc \ {c} |-> dp_proc[q]]
  BY <1>1, <1>2 DEF ProcFree
<1>4. AllRight(Front(dp_runs), [q \in DOMAIN dp_proc \ {c} |-> dp_proc[q]], dp_count,
               dp_mem \ (MemOf(c, pr.shell) \union IF pr.packet THEN {<<c, "packet">>} ELSE {}),
               dp_locks \ ({<<c, "home">>} \union IF pr.shell THEN {} ELSE CwdLock(c, pr.own_cwd)),
               dp_segs \ {<<c, "bin">>})
  BY <1>1, <1>2, ProcessEnds
<1>5. AllRight(dp_runs', dp_proc', dp_count', dp_mem', dp_locks', dp_segs')
  BY <1>1, <1>3, <1>4
<1>6. PathsRight(dp_phase', dp_paths')
  BY <1>1, <1>2 DEF PathsRight, InTry
<1> QED BY <1>1, <1>5, <1>6, StepTidy

-----------------------------------------------------------------------------
(* Commands.                                                               *)

\* A segment list is loaded or unloaded.
LEMMA SegTidy ==
    ASSUME TidyInv, NEW s, LoadSeg(s) \/ UnLoadSeg(s)
    PROVE  TidyInv'
<1>1. Running_
  BY DEF LoadSeg, UnLoadSeg
<1>2. CASE UnLoadSeg(s) /\ s \notin dp_seg_lists
  BY <1>1, <1>2, RaiseTidy DEF UnLoadSeg
<1>3. CASE LoadSeg(s) \/ (UnLoadSeg(s) /\ s \in dp_seg_lists)
  <2>1. /\ dp_segs' \in {dp_segs \union {<<DosLib, s>>}, dp_segs \ {<<DosLib, s>>}}
        /\ UNCHANGED <<dp_phase, dp_paths, dp_count, dp_runs, dp_proc, dp_mem, dp_locks, dp_pkt>>
    BY <1>3 DEF LoadSeg, UnLoadSeg
  <2>2. PathsRight(dp_phase, dp_paths) /\ AllRight(dp_runs, dp_proc, dp_count, dp_mem, dp_locks, dp_segs)
    BY <1>1, OnTop
  <2>3. SegsRight(dp_segs', dp_proc)
    BY <2>1, <2>2 DEF AllRight, SegsRight
  <2>4. AllRight(dp_runs', dp_proc', dp_count', dp_mem', dp_locks', dp_segs')
    BY <2>1, <2>2, <2>3 DEF AllRight
  <2> QED BY <2>1, <2>2, <2>4, StepTidy
<1> QED BY <1>2, <1>3

\* RunCommand() starts a command.
LEMMA RunCommandTidy ==
    ASSUME TidyInv, NEW s, RunCommand(s)
    PROVE  TidyInv'
<1> DEFINE c == dp_runs[Len(dp_runs)].proc
           b == begin_command(dp_proc[c])
           fr == [kind |-> "cmd", proc |-> c, save |-> Bounds(c, s)]
<1>1. Running_
  BY DEF RunCommand, Deeper
<1>2. CASE s \notin dp_seg_lists
  BY <1>1, <1>2, RaiseTidy DEF RunCommand
<1>3. CASE s \in dp_seg_lists
  <2>1. /\ dp_runs # <<>> /\ PathsRight(dp_phase, dp_paths)
        /\ AllRight(dp_runs, dp_proc, dp_count, dp_mem, dp_locks, dp_segs)
        /\ Cur = c /\ ProcRight(dp_proc[c])
    BY <1>1, OnTop
  <2>2. /\ dp_runs' = Append(dp_runs, fr) /\ dp_mem' = dp_mem \union {<<Len(dp_runs), "cmd_stack">>}
        /\ dp_proc' = [dp_proc EXCEPT ![c] = b]
        /\ UNCHANGED <<dp_phase, dp_paths, dp_count, dp_locks, dp_segs, dp_pkt>>
    BY <1>3, <2>1 DEF RunCommand, Run, CmdStack
  <2>3. ProcRight(b) /\ SameProc(dp_proc[c], b)
    BY <2>1, CommandFields DEF CommandOf
  <2>4. fr.kind # "proc" /\ fr.proc = c /\ SaveRight(fr)
    BY DEF SaveRight
  <2> HIDE DEF b, fr
  <2>5. AllRight(Append(dp_runs, fr), [dp_proc EXCEPT ![fr.proc] = b], dp_count,
                 dp_mem \union {<<Len(dp_runs), "cmd_stack">>}, dp_locks, dp_segs)
    BY <2>1, <2>3, <2>4, CommandStarts
  <2>6. AllRight(dp_runs', dp_proc', dp_count', dp_mem', dp_locks', dp_segs')
    BY <2>2, <2>4, <2>5
  <2> QED BY <2>1, <2>2, <2>6, StepTidy
<1> QED BY <1>2, <1>3

\* The command of RunCommand() returns.
LEMMA CommandReturnsTidy ==
    ASSUME TidyInv, CommandReturns
    PROVE  TidyInv'
<1> DEFINE c == dp_runs[Len(dp_runs)].proc
           b == end_command(dp_proc[c], Top.save)
<1>1. Running_ /\ Top.kind = "cmd"
  BY DEF CommandReturns
<1>2. /\ dp_runs # <<>> /\ PathsRight(dp_phase, dp_paths)
      /\ AllRight(dp_runs, dp_proc, dp_count, dp_mem, dp_locks, dp_segs)
      /\ Cur = c /\ ProcRight(dp_proc[c]) /\ dp_runs[Len(dp_runs)].kind # "proc"
  BY <1>1, OnTop
<1>3. /\ dp_runs' = Front(dp_runs) /\ dp_mem' = dp_mem \ {<<Len(dp_runs) - 1, "cmd_stack">>}
      /\ dp_proc' = [dp_proc EXCEPT ![c] = b]
      /\ UNCHANGED <<dp_phase, dp_paths, dp_count, dp_locks, dp_segs, dp_pkt>>
  BY <1>2 DEF CommandReturns
<1>4. ProcRight(b) /\ SameProc(dp_proc[c], b)
  BY <1>2, CommandFields DEF CommandOf
<1> HIDE DEF b
<1>5. AllRight(Front(dp_runs), [dp_proc EXCEPT ![c] = b], dp_count,
               dp_mem \ {<<Len(dp_runs) - 1, "cmd_stack">>}, dp_locks, dp_segs)
  BY <1>2, <1>4, CommandEnds
<1>6. AllRight(dp_runs', dp_proc', dp_count', dp_mem', dp_locks', dp_segs')
  BY <1>3, <1>5
<1> QED BY <1>2, <1>3, <1>6, StepTidy

\* The fields of a shell while a command runs in it.
ShellCli(cli, out) ==
    [cli EXCEPT !.cur_in = <<"new_in", Len(dp_runs) + 1>>, !.std_in = <<"new_std", Len(dp_runs) + 1>>,
                !.background = TRUE, !.module = "none", !.std_out = IF out \in {"none", "zero"} THEN @ ELSE <<out, 0>>]
ShellBegins(pr, cli1, dir) == [begin_command(pr) EXCEPT !.cli = cli1, !.packet = TRUE, !.dir = dir]

\* It is the same process, which has a packet and inputs of its own now.
ShellOf(pr, b, dir) ==
    /\ ProcRight(b) /\ SameProc(pr, b) /\ b.packet
    /\ b.cis = pr.cis /\ b.cos = pr.cos /\ b.dir = dir
    /\ b.cli.cur_in = <<"new_in", Len(dp_runs) + 1>> /\ b.cli.std_in = <<"new_std", Len(dp_runs) + 1>>
LEMMA ShellFields ==
    ASSUME NEW pr, ProcRight(pr), NEW out, NEW dir
    PROVE  ShellOf(pr, ShellBegins(pr, ShellCli(pr.cli, out), dir), dir)
<1> DEFINE e == begin_command(pr)
           cli1 == ShellCli(pr.cli, out)
           e1 == [e EXCEPT !.cli = cli1]
           e2 == [e1 EXCEPT !.packet = TRUE]
           e3 == [e2 EXCEPT !.dir = dir]
<1>1. DOMAIN e = ProcFields /\ e.shell = pr.shell /\ e.own_cwd = pr.own_cwd /\ e.cis = pr.cis /\ e.cos = pr.cos
  BY CommandFields DEF CommandOf
<1>2. ShellBegins(pr, cli1, dir) = e3
  BY DEF ShellBegins
<1>3. /\ DOMAIN cli1 = CliFields
      /\ cli1.cur_in = <<"new_in", Len(dp_runs) + 1>> /\ cli1.std_in = <<"new_std", Len(dp_runs) + 1>>
  BY DEF ShellCli, ProcRight, CliFields
<1> HIDE DEF e, cli1
<1>4. DOMAIN e1 = ProcFields /\ e1.cli = cli1 /\ \A g \in ProcFields \ {"cli"} : e1[g] = e[g]
  BY <1>1 DEF ProcFields
<1> HIDE DEF e1
<1>5. DOMAIN e2 = ProcFields /\ e2.packet = TRUE /\ \A g \in ProcFields \ {"packet"} : e2[g] = e1[g]
  BY <1>4 DEF ProcFields
<1> HIDE DEF e2
<1>6. DOMAIN e3 = ProcFields /\ e3.dir = dir /\ \A g \in ProcFields \ {"dir"} : e3[g] = e2[g]
  BY <1>5 DEF ProcFields
<1> HIDE DEF e3
<1>7. /\ e3.shell = pr.shell /\ e3.own_cwd = pr.own_cwd /\ e3.packet = TRUE /\ e3.cli = cli1
      /\ e3.cis = pr.cis /\ e3.cos = pr.cos
  BY <1>1, <1>4, <1>5, <1>6 DEF ProcFields
<1>8. e3.packet \in BOOLEAN /\ (pr.packet => e3.packet)
  BY <1>7
<1>9. ProcRight(e3) /\ SameProc(pr, e3)
  BY <1>3, <1>6, <1>7, <1>8, FieldsKept
<1>10. e3.packet
  BY <1>7
<1>11. ShellOf(pr, e3, dir)
  BY <1>3, <1>6, <1>7, <1>9, <1>10 DEF ShellOf
<1> QED BY <1>2, <1>11 DEF cli1

\* SystemTagList() in a shell.
LEMMA SystemShellTidy ==
    ASSUME TidyInv, NEW out, SystemShell(out)
    PROVE  TidyInv'
<1> DEFINE c == dp_runs[Len(dp_runs)].proc
           n == Len(dp_runs)
           pr == dp_proc[c]
           b == ShellBegins(pr, ShellCli(pr.cli, out), <<"dup", n + 1>>)
           sv == [cli |-> pr.cli, cos |-> pr.cos, dir |-> pr.dir, out |-> out, lower |-> pr.lower, upper |-> pr.upper]
           fr == [kind |-> "system", proc |-> c, save |-> sv]
           new == [dp_proc EXCEPT ![c] = b]
<1>1. Running_ /\ n < MaxDepth
  BY DEF SystemShell, Deeper
<1>2. /\ dp_runs # <<>> /\ PathsRight(dp_phase, dp_paths) /\ n \in Nat \ {0}
      /\ AllRight(dp_runs, dp_proc, dp_count, dp_mem, dp_locks, dp_segs)
      /\ Cur = c /\ c \in DOMAIN dp_proc /\ ProcRight(pr)
  BY <1>1, OnTop
<1>3. /\ pr.shell /\ dp_runs' = Append(dp_runs, fr)
      /\ dp_mem' = dp_mem \union {<<n, "cmd_stack">>, <<c, "packet">>}
      /\ dp_locks' = dp_locks \union {<<c, "dup", n>>}
      /\ dp_proc' = new
      /\ UNCHANGED <<dp_phase, dp_paths, dp_count, dp_segs, dp_pkt>>
  BY <1>2 DEF SystemShell, Run, CmdStack, ShellBegins, ShellCli
<1>4. ProcRight(b) /\ SameProc(pr, b) /\ b.packet
  <2> DEFINE dir == <<"dup", n + 1>>
             e == ShellBegins(pr, ShellCli(pr.cli, out), dir)
  <2>1. ProcRight(pr)
    BY <1>2
  <2> HIDE DEF pr, dir
  <2>2. ShellOf(pr, e, dir)
    BY <2>1, ShellFields
  <2>3. b = e
    BY DEF dir
  <2> HIDE DEF e, b
  <2> QED BY <2>2, <2>3 DEF ShellOf
<1>5. b.shell
  BY <1>3, <1>4 DEF SameProc
<1>6. fr.kind # "proc" /\ fr.proc = c /\ SaveRight(fr)
  <2>1. fr.save.cli = pr.cli
    OBVIOUS
  <2> QED BY <1>2, <2>1 DEF SaveRight, ProcRight
<1>7. new[c] = b /\ c \in DOMAIN new
  BY <1>2
<1> HIDE DEF b, fr
<1>8. AllRight(Append(dp_runs, fr), [dp_proc EXCEPT ![fr.proc] = b], dp_count,
               dp_mem \union {<<Len(dp_runs), "cmd_stack">>}, dp_locks, dp_segs)
  BY <1>2, <1>4, <1>6, CommandStarts
<1>9. AllRight(dp_runs', new, dp_count, dp_mem \union {<<n, "cmd_stack">>}, dp_locks, dp_segs)
  BY <1>3, <1>6, <1>8
<1> HIDE DEF new, n, c
<1>10. MemRight(dp_mem', dp_runs', new)
  <2>1. MemRight(dp_mem \union {<<n, "cmd_stack">>}, dp_runs', new)
    BY <1>9 DEF AllRight
  <2>2. \A m \in dp_mem' : m \in dp_mem \union {<<n, "cmd_stack">>} \/ m = <<c, "packet">>
    BY <1>3
  <2> QED BY <1>4, <1>7, <2>1, <2>2 DEF MemRight
<1>11. OwnersRight(dp_locks', dp_runs', new, dp_count)
  <2>1. OwnersRight(dp_locks, dp_runs', new, dp_count)
    BY <1>9 DEF AllRight
  <2>2. n \in 1..MaxDepth
    BY <1>1, <1>2, DosProcAssumption
  <2>3. <<c, "dup", n>> \in {c} \X {"dup"} \X (1..MaxDepth)
    BY <2>2
  <2>4. LockOf(<<c, "dup", n>>, c, new[c])
    BY <1>5, <1>7, <2>3 DEF LockOf
  <2> QED BY <1>3, <1>7, <2>1, <2>4 DEF OwnersRight
<1>12. AllRight(dp_runs', dp_proc', dp_count', dp_mem', dp_locks', dp_segs')
  BY <1>3, <1>9, <1>10, <1>11 DEF AllRight
<1> QED BY <1>2, <1>3, <1>12, StepTidy

\* The end of SystemTagList().
LEMMA SystemReturnsTidy ==
    ASSUME TidyInv, NEW rc, SystemReturns(rc)
    PROVE  TidyInv'
<1> DEFINE c == dp_runs[Len(dp_runs)].proc
           b == end_system(dp_proc[c], Top.save)
<1>1. Running_ /\ Top.kind = "system"
  BY DEF SystemReturns
<1>2. /\ dp_runs # <<>> /\ PathsRight(dp_phase, dp_paths)
      /\ AllRight(dp_runs, dp_proc, dp_count, dp_mem, dp_locks, dp_segs)
      /\ Cur = c /\ ProcRight(dp_proc[c]) /\ dp_runs[Len(dp_runs)].kind # "proc"
      /\ DOMAIN Top.save.cli = CliFields
  BY <1>1, OnTop DEF SaveRight
<1>3. CASE Top.save.out = "zero"
  BY <1>1, <1>3, RaiseTidy DEF SystemReturns
<1>4. CASE Top.save.out # "zero"
  <2>1. /\ dp_runs' = Front(dp_runs) /\ dp_mem' = dp_mem \ {<<Len(dp_runs) - 1, "cmd_stack">>}
        /\ dp_proc' = [dp_proc EXCEPT ![c] = b]
        /\ UNCHANGED <<dp_phase, dp_paths, dp_count, dp_locks, dp_segs, dp_pkt>>
    BY <1>2, <1>4 DEF SystemReturns
  <2>2. ProcRight(b) /\ SameProc(dp_proc[c], b)
    BY <1>2, SystemFields
  <2> HIDE DEF b
  <2>3. AllRight(Front(dp_runs), [dp_proc EXCEPT ![c] = b], dp_count,
                 dp_mem \ {<<Len(dp_runs) - 1, "cmd_stack">>}, dp_locks, dp_segs)
    BY <1>2, <2>2, CommandEnds
  <2>4. AllRight(dp_runs', dp_proc', dp_count', dp_mem', dp_locks', dp_segs')
    BY <2>1, <2>3
  <2> QED BY <1>2, <2>1, <2>4, StepTidy
<1> QED BY <1>3, <1>4

\* What a program does to its own process.
LEMMA WorksTidy ==
    ASSUME TidyInv, (\E f \in {"dir", "cis", "cos"} : \E v : ProgramWorks(f, v)) \/ \E n : CliInit(n)
    PROVE  TidyInv'
<1> DEFINE c == dp_runs[Len(dp_runs)].proc
           pr == dp_proc[c]
<1>1. Running_
  BY DEF ProgramWorks, CliInit
<1>2. /\ dp_runs # <<>> /\ PathsRight(dp_phase, dp_paths)
      /\ AllRight(dp_runs, dp_proc, dp_count, dp_mem, dp_locks, dp_segs)
      /\ Cur = c /\ c \in DOMAIN dp_proc /\ ProcRight(pr)
  BY <1>1, OnTop
<1>3. \E b : /\ ProcRight(b) /\ SameProc(pr, b) /\ dp_proc' = [dp_proc EXCEPT ![c] = b]
             /\ UNCHANGED <<dp_phase, dp_paths, dp_count, dp_runs, dp_mem, dp_locks, dp_segs, dp_pkt>>
  <2>1. ASSUME NEW f \in {"dir", "cis", "cos"}, NEW v, ProgramWorks(f, v)
        PROVE  /\ ProcRight([pr EXCEPT ![f] = v]) /\ SameProc(pr, [pr EXCEPT ![f] = v])
               /\ dp_proc' = [dp_proc EXCEPT ![c] = [pr EXCEPT ![f] = v]]
               /\ UNCHANGED <<dp_phase, dp_paths, dp_count, dp_runs, dp_mem, dp_locks, dp_segs, dp_pkt>>
    <3> DEFINE b == [pr EXCEPT ![f] = v]
    <3>1. DOMAIN pr = ProcFields /\ f \in ProcFields
      BY <1>2 DEF ProcRight, ProcFields
    <3>2. DOMAIN b = ProcFields /\ \A g \in ProcFields \ {f} : b[g] = pr[g]
      BY <3>1
    <3>3. dp_proc' = [dp_proc EXCEPT ![c] = b]
          /\ UNCHANGED <<dp_phase, dp_paths, dp_count, dp_runs, dp_mem, dp_locks, dp_segs, dp_pkt>>
      BY <1>2, <2>1 DEF ProgramWorks
    <3> HIDE DEF b
    <3>4. b.cli = pr.cli /\ b.shell = pr.shell /\ b.own_cwd = pr.own_cwd /\ b.packet = pr.packet
      BY <3>2 DEF ProcFields
    <3>5. DOMAIN b.cli = CliFields /\ b.packet \in BOOLEAN
      BY <1>2, <3>4 DEF ProcRight
    <3>6. ProcRight(b) /\ SameProc(pr, b)
      BY <1>2, <3>2, <3>4, <3>5, FieldsKept
    <3> QED BY <3>3, <3>6 DEF b
  <2>2. ASSUME NEW n, CliInit(n)
        PROVE  \E b : /\ ProcRight(b) /\ SameProc(pr, b) /\ dp_proc' = [dp_proc EXCEPT ![c] = b]
                      /\ UNCHANGED <<dp_phase, dp_paths, dp_count, dp_runs, dp_mem, dp_locks, dp_segs, dp_pkt>>
    <3>0. PICK in : /\ dp_proc' = [dp_proc EXCEPT ![c].cli = cli_init(pr, in)]
                    /\ UNCHANGED <<dp_phase, dp_paths, dp_count, dp_runs, dp_mem, dp_locks, dp_segs, dp_pkt>>
      BY <1>2, <2>2 DEF CliInit
    <3> DEFINE cli1 == cli_init(pr, in)
               b == [pr EXCEPT !.cli = cli1]
    <3>1. dp_proc' = [dp_proc EXCEPT ![c] = b]
          /\ UNCHANGED <<dp_phase, dp_paths, dp_count, dp_runs, dp_mem, dp_locks, dp_segs, dp_pkt>>
      BY <3>0
    <3>2. DOMAIN pr = ProcFields /\ DOMAIN cli1 = CliFields
      BY <1>2 DEF ProcRight, cli_init
    <3> HIDE DEF cli1
    <3>3. DOMAIN b = ProcFields /\ b.cli = cli1 /\ \A g \in ProcFields \ {"cli"} : b[g] = pr[g]
      BY <3>2 DEF ProcFields
    <3> HIDE DEF b
    <3>4. b.shell = pr.shell /\ b.own_cwd = pr.own_cwd /\ b.packet = pr.packet
      BY <3>3 DEF ProcFields
    <3>5. DOMAIN b.cli = CliFields /\ b.packet \in BOOLEAN
      BY <1>2, <3>2, <3>3, <3>4 DEF ProcRight
    <3>6. ProcRight(b) /\ SameProc(pr, b)
      BY <1>2, <3>3, <3>4, <3>5, FieldsKept
    <3> QED BY <3>1, <3>6
  <2> QED BY <2>1, <2>2
<1>4. PICK b : /\ ProcRight(b) /\ SameProc(pr, b) /\ dp_proc' = [dp_proc EXCEPT ![c] = b]
               /\ UNCHANGED <<dp_phase, dp_paths, dp_count, dp_runs, dp_mem, dp_locks, dp_segs, dp_pkt>>
  BY <1>3
<1>5. AllRight(dp_runs, [dp_proc EXCEPT ![c] = b], dp_count, dp_mem, dp_locks, dp_segs)
  BY <1>2, <1>4, ProcessWorks
<1>6. AllRight(dp_runs', dp_proc', dp_count', dp_mem', dp_locks', dp_segs')
  BY <1>4, <1>5
<1> QED BY <1>2, <1>4, <1>6, StepTidy

-----------------------------------------------------------------------------
(* Child processes and packets.                                            *)

\* CreateNewProc().
LEMMA ChildTidy ==
    ASSUME TidyInv, NEW entry, CreateNewProc(entry)
    PROVE  TidyInv'
<1>1. /\ Running_ /\ dp_mem' \in {dp_mem, dp_mem \union ({Child} \X {"stack", "process", "name"})}
      /\ UNCHANGED <<dp_phase, dp_paths, dp_count, dp_runs, dp_proc, dp_locks, dp_segs, dp_pkt>>
  BY DEF CreateNewProc
<1>2. PathsRight(dp_phase, dp_paths) /\ AllRight(dp_runs, dp_proc, dp_count, dp_mem, dp_locks, dp_segs)
  BY <1>1, OnTop
<1>3. MemRight(dp_mem', dp_runs, dp_proc)
  BY <1>1, <1>2 DEF AllRight, MemRight
<1>4. AllRight(dp_runs', dp_proc', dp_count', dp_mem', dp_locks', dp_segs')
  BY <1>1, <1>2, <1>3 DEF AllRight
<1> QED BY <1>1, <1>2, <1>4, StepTidy

\* Of two parties each is the other's other.
LEMMA OthersDiffer ==
    /\ \A x \in Parties : OtherParty(x) \in Parties /\ OtherParty(OtherParty(x)) = x
    /\ OtherParty("child") = "caller"
<1>1. OtherParty("child") = "caller" /\ OtherParty("caller") = "child"
  BY DEF OtherParty, Parties
<1> QED BY <1>1 DEF Parties

\* SendPkt(), WaitPkt() and ReplyPkt().
LEMMA PacketTidy ==
    ASSUME TidyInv, SendPkt \/ \E x \in Parties : WaitPkt(x) \/ ReplyPkt(x)
    PROVE  TidyInv'
<1>1. Running_
  BY DEF SendPkt, WaitPkt, ReplyPkt
<1>2. PktRight(dp_pkt)
  BY <1>1, OnTop
<1>3. ASSUME PktRight(dp_pkt'), PktRest PROVE TidyInv'
  BY <1>3 DEF TidyInv, PktRest
<1>4. CASE SendPkt
  <2>1. dp_pkt' = [at |-> "child", holder |-> "none", dp_Port |-> "caller", replies |-> 0] /\ PktRest
    BY <1>4 DEF SendPkt
  <2>2. PktRight(dp_pkt')
    BY <2>1, OthersDiffer DEF PktRight, Parties
  <2> QED BY <1>3, <2>1, <2>2
<1>5. ASSUME NEW x \in Parties, WaitPkt(x) PROVE TidyInv'
  <2>1. CASE dp_pkt.at # x
    BY <1>1, <1>5, <2>1, RaiseTidy DEF WaitPkt
  <2>2. CASE dp_pkt.at = x
    <3>1. dp_pkt' = [dp_pkt EXCEPT !.at = "none2", !.holder = x] /\ PktRest
      BY <1>5, <2>2 DEF WaitPkt
    <3>2. dp_pkt.dp_Port = OtherParty(x)
      BY <1>2, <2>2 DEF PktRight
    <3>3. /\ DOMAIN dp_pkt' = {"at", "holder", "dp_Port", "replies"}
          /\ dp_pkt'.at = "none2" /\ dp_pkt'.holder = x /\ dp_pkt'.dp_Port = dp_pkt.dp_Port
      BY <1>2, <3>1 DEF PktRight
    <3>4. PktRight(dp_pkt')
      BY <3>2, <3>3 DEF PktRight, Parties
    <3> QED BY <1>3, <3>1, <3>4
  <2> QED BY <2>1, <2>2
<1>6. ASSUME NEW x \in Parties, ReplyPkt(x) PROVE TidyInv'
  <2>1. dp_pkt.holder = x /\ dp_pkt' = reply_port(dp_pkt, x) /\ PktRest
    BY <1>6 DEF ReplyPkt
  <2>2. dp_pkt.dp_Port = OtherParty(x)
    BY <1>2, <2>1 DEF PktRight
  <2>3. /\ DOMAIN dp_pkt' = {"at", "holder", "dp_Port", "replies"}
        /\ dp_pkt'.at = dp_pkt.dp_Port /\ dp_pkt'.holder = "none" /\ dp_pkt'.dp_Port = x
    BY <1>2, <2>1 DEF PktRight, reply_port
  <2>4. OtherParty(dp_pkt'.at) = x
    BY <2>2, <2>3, OthersDiffer
  <2>5. PktRight(dp_pkt')
    BY <2>3, <2>4 DEF PktRight, Parties
  <2> QED BY <1>3, <2>1, <2>5
<1> QED BY <1>4, <1>5, <1>6

-----------------------------------------------------------------------------
(* Every step keeps the invariant.                                         *)

\* vamos before main() did anything.
LEMMA ProcStart == ProcInit => TidyInv
<1> SUFFICES ASSUME ProcInit PROVE TidyInv
  OBVIOUS
<1>1. /\ dp_phase = "config" /\ dp_paths = "none" /\ dp_count = 0 /\ dp_runs = <<>> /\ dp_proc = <<>>
      /\ dp_mem = {} /\ dp_locks = {} /\ dp_segs = {} /\ dp_pkt = NoPkt
  BY DEF ProcInit
<1>2. DOMAIN dp_runs = {} /\ DOMAIN dp_proc = {}
  BY <1>1
<1>3. PathsRight(dp_phase, dp_paths)
  BY <1>1 DEF PathsRight, InTry
<1>4. PktRight(dp_pkt)
  BY <1>1 DEF PktRight, NoPkt, Parties
<1>5. IsRuns(dp_runs)
  BY <1>1 DEF IsRuns
<1>6. RunsNested(dp_runs)
  BY <1>2, <1>5 DEF RunsNested
<1>7. ProcsRight(dp_proc, dp_count) /\ ProcsRun(dp_runs, dp_proc)
  BY <1>1, <1>2 DEF ProcsRight, ProcsRun, ProcsOf
<1>8. MemRight(dp_mem, dp_runs, dp_proc) /\ OwnersRight(dp_locks, dp_runs, dp_proc, dp_count) /\ SegsRight(dp_segs, dp_proc)
  BY <1>1 DEF MemRight, OwnersRight, SegsRight
<1> QED BY <1>3, <1>4, <1>6, <1>7, <1>8 DEF TidyInv, AllRight

\* One step.
LEMMA ProcStep == TidyInv /\ [ProcNext]_dp_vars => TidyInv'
<1> SUFFICES ASSUME TidyInv, [ProcNext]_dp_vars PROVE TidyInv'
  OBVIOUS
<1>1. CASE MainStep \/ MainFails \/ LibsDown
  BY <1>1, MainTidy
<1>2. CASE MainNotFound \/ \E s \in BOOLEAN : StartMain(s)
  BY <1>2, MainStartTidy
<1>3. ASSUME NEW s \in BOOLEAN, SystemProc(s) \/ CreateNewProc(s) PROVE TidyInv'
  BY <1>3, SystemProcTidy, ChildTidy
<1>4. CASE ProcExit
  BY <1>4, ExitTidy
<1>5. ASSUME NEW s, LoadSeg(s) \/ UnLoadSeg(s) \/ RunCommand(s) PROVE TidyInv'
  BY <1>5, SegTidy, RunCommandTidy
<1>6. CASE CommandReturns \/ (\E o : SystemShell(o)) \/ SystemReturns(1)
  BY <1>6, CommandReturnsTidy, SystemShellTidy, SystemReturnsTidy
<1>7. CASE WorksNext
  BY <1>7, WorksTidy DEF WorksNext
<1>8. CASE SendPkt \/ \E x \in Parties : WaitPkt(x) \/ ReplyPkt(x)
  BY <1>8, PacketTidy
<1>9. CASE UNCHANGED dp_vars
  BY <1>9 DEF dp_vars, TidyInv
<1> QED BY <1>1, <1>2, <1>3, <1>4, <1>5, <1>6, <1>7, <1>8, <1>9 DEF ProcNext, RunsNext

\* What the invariant says.
LEMMA TidyShows == TidyInv => ProcessesTidy
<1> SUFFICES ASSUME TidyInv PROVE ProcessesTidy
  OBVIOUS
<1>1. PathsShutDown
  BY DEF TidyInv, PathsRight, InTry, PathsShutDown
<1>2. PacketReturns
  BY DEF TidyInv, PktRight, PacketReturns
<1>3. ASSUME dp_phase # "ended"
      PROVE  /\ \A m \in dp_mem : IF m[2] = "cmd_stack" THEN m[1] < Len(dp_runs) ELSE OwnedBy(m[1])
             /\ \A s \in dp_segs : OwnedBy(s[1])
             /\ \A l \in dp_locks : OwnedBy(l[1]) \/ (l[2] # "home" /\ dp_runs = <<>> /\ l \in ShellLocks)
  <2>1. /\ RunsNested(dp_runs) /\ MemRight(dp_mem, dp_runs, dp_proc)
        /\ OwnersRight(dp_locks, dp_runs, dp_proc, dp_count) /\ SegsRight(dp_segs, dp_proc)
    BY <1>3 DEF TidyInv, AllRight
  <2>2. ASSUME NEW m \in dp_mem
        PROVE  IF m[2] = "cmd_stack" THEN m[1] < Len(dp_runs) ELSE OwnedBy(m[1])
    <3>1. CASE \E k \in 1..(Len(dp_runs) - 1) : m = <<k, "cmd_stack">> /\ dp_runs[k + 1].kind # "proc"
      <4>1. PICK k \in 1..(Len(dp_runs) - 1) : m = <<k, "cmd_stack">>
        BY <3>1
      <4>2. Len(dp_runs) \in Nat
        <5>1. dp_runs \in Seq({dp_runs[i] : i \in DOMAIN dp_runs})
          BY <2>1 DEF RunsNested, IsRuns
        <5> QED BY <5>1
      <4>3. m[1] = k /\ m[2] = "cmd_stack" /\ k < Len(dp_runs)
        BY <4>1, <4>2
      <4> QED BY <4>3
    <3>2. CASE \E p \in DOMAIN dp_proc : m \in MemOf(p, dp_proc[p].shell) \/ (m = <<p, "packet">> /\ dp_proc[p].packet)
      <4>1. PICK p \in DOMAIN dp_proc : m \in MemOf(p, dp_proc[p].shell) \/ m = <<p, "packet">>
        BY <3>2
      <4>2. m[1] = p /\ m[2] # "cmd_stack"
        BY <4>1 DEF MemOf, ProcMem
      <4> QED BY <4>2 DEF OwnedBy
    <3>3. CASE m \in {Child} \X {"stack", "process", "name"}
      <4>1. m[1] = Child /\ m[2] # "cmd_stack"
        BY <3>3
      <4> QED BY <4>1 DEF OwnedBy
    <3> QED BY <2>1, <3>1, <3>2, <3>3 DEF MemRight
  <2>3. ASSUME NEW s \in dp_segs PROVE OwnedBy(s[1])
    BY <2>1 DEF SegsRight, OwnedBy
  <2>4. ASSUME NEW l \in dp_locks
        PROVE  OwnedBy(l[1]) \/ (l[2] # "home" /\ dp_runs = <<>> /\ l \in ShellLocks)
    <3>1. CASE \E p \in DOMAIN dp_proc : LockOf(l, p, dp_proc[p])
      <4>1. PICK p \in DOMAIN dp_proc : LockOf(l, p, dp_proc[p])
        BY <3>1
      <4>2. l[1] = p
        BY <4>1 DEF LockOf
      <4> QED BY <4>2 DEF OwnedBy
    <3>2. CASE dp_runs = <<>> /\ l \in ShellLocks
      <4>1. l[2] # "home"
        BY <3>2 DEF ShellLocks
      <4> QED BY <3>2, <4>1
    <3> QED BY <2>1, <3>1, <3>2 DEF OwnersRight
  <2> QED BY <2>2, <2>3, <2>4
<1>4. NothingLeft
  BY <1>3 DEF NothingLeft
<1> QED BY <1>1, <1>2, <1>4 DEF ProcessesTidy

\* Processes that end, nested as they may be and in whatever way, leave nothing allocated,
\* main() shuts down what it has set up, and a packet goes back to who sent it: for any
\* number of processes, nested runs and replies.
THEOREM ProcessesAreTidy == ProcSpec => []ProcessesTidy
<1>1. ProcInit => TidyInv
  BY ProcStart
<1>2. TidyInv /\ [ProcNext]_dp_vars => TidyInv'
  BY ProcStep
<1>3. TidyInv => ProcessesTidy
  BY TidyShows
<1> QED BY <1>1, <1>2, <1>3, PTL DEF ProcSpec

-----------------------------------------------------------------------------
(* What a process works with goes with the runs that are over.             *)

\* what SystemTagList() keeps to put back
Saved(save) == {save.cli.std_in, save.cli.cur_in, save.cos, save.dir}

\* What a run keeps is of the runs below it.
SavesLive(runs) ==
    \A i \in DOMAIN runs : runs[i].kind = "system" =>
        \A x \in Saved(runs[i].save) : Lives(x, runs[i].proc, runs) /\ (x[2] # 0 => x[2] < i)
ChannelsLive(procs, runs) == \A p \in DOMAIN procs : \A x \in Channels(procs[p]) : Lives(x, p, runs)
AllLive(runs, procs) == ChannelsLive(procs, runs) /\ SavesLive(runs)

(***************************************************************************)
(* The inductive invariant: a run that ends puts back what was there       *)
(* before it, so that what it kept may not be of itself either.            *)
(***************************************************************************)
LiveInv == TidyInv /\ (dp_phase # "ended" => AllLive(dp_runs, dp_proc))

\* Another run leaves what lives alive.
LEMMA LiveRunAdded ==
    ASSUME NEW runs, RunsNested(runs), NEW fr, NEW procs, AllLive(runs, procs),
           fr.kind = "system" => \A x \in Saved(fr.save) : Lives(x, fr.proc, runs)
    PROVE  /\ AllLive(Append(runs, fr), procs)
           /\ \A x, p : Lives(x, p, runs) => Lives(x, p, Append(runs, fr))
<1> DEFINE new == Append(runs, fr)
           n == Len(runs)
<1>1. /\ n \in Nat /\ DOMAIN runs = 1..n /\ DOMAIN new = 1..(n + 1)
      /\ \A i \in 1..n : new[i] = runs[i]
      /\ new[n + 1] = fr
  BY RunAdded
<1> HIDE DEF new, n
<1>2. ASSUME NEW x, NEW p, Lives(x, p, runs) PROVE Lives(x, p, new)
  BY <1>1, <1>2 DEF Lives
<1>3. ChannelsLive(procs, new)
  BY <1>2 DEF AllLive, ChannelsLive
<1>4. SavesLive(new)
  <2> SUFFICES ASSUME NEW i \in DOMAIN new, new[i].kind = "system", NEW x \in Saved(new[i].save)
               PROVE  Lives(x, new[i].proc, new) /\ (x[2] # 0 => x[2] < i)
    BY DEF SavesLive
  <2>1. CASE i \in 1..n
    BY <1>1, <1>2, <2>1 DEF AllLive, SavesLive
  <2>2. CASE i = n + 1
    <3>1. Lives(x, fr.proc, runs)
      BY <1>1, <2>2
    <3>2. x[2] # 0 => x[2] \in 1..n
      BY <1>1, <3>1 DEF Lives
    <3> QED BY <1>1, <1>2, <2>2, <3>1, <3>2
  <2> QED BY <1>1, <2>1, <2>2
<1> QED BY <1>2, <1>3, <1>4 DEF AllLive, new

\* The end of a run leaves what is not of it, and what the runs below keep.
LEMMA LiveRunGone ==
    ASSUME NEW runs, RunsNested(runs), runs # <<>>, SavesLive(runs)
    PROVE  /\ SavesLive(Front(runs))
           /\ \A x, p : Lives(x, p, runs) /\ (x[2] # 0 => x[2] # Len(runs)) => Lives(x, p, Front(runs))
<1> DEFINE new == Front(runs)
           n == Len(runs)
<1>1. /\ n \in Nat \ {0} /\ DOMAIN runs = 1..n /\ DOMAIN new = 1..(n - 1)
      /\ \A i \in 1..(n - 1) : new[i] = runs[i]
  BY RunGone
<1> HIDE DEF new, n
<1>2. ASSUME NEW x, NEW p, Lives(x, p, runs), x[2] # 0 => x[2] # n PROVE Lives(x, p, new)
  <2>1. ASSUME x[2] # 0 PROVE x[2] \in 1..(n - 1)
    BY <1>1, <1>2, <2>1 DEF Lives
  <2> QED BY <1>1, <1>2, <2>1 DEF Lives
<1>3. SavesLive(new)
  <2> SUFFICES ASSUME NEW i \in DOMAIN new, new[i].kind = "system", NEW x \in Saved(new[i].save)
               PROVE  Lives(x, new[i].proc, new) /\ (x[2] # 0 => x[2] < i)
    BY DEF SavesLive
  <2>1. i \in 1..n /\ i \in 1..(n - 1) /\ new[i] = runs[i]
    BY <1>1
  <2>2. Lives(x, runs[i].proc, runs) /\ (x[2] # 0 => x[2] < i)
    BY <1>1, <2>1 DEF SavesLive
  <2>3. x[2] # 0 => x[2] \in 1..n /\ x[2] # n
    BY <1>1, <2>1, <2>2 DEF Lives
  <2> QED BY <1>2, <2>1, <2>2, <2>3
<1> QED BY <1>2, <1>3 DEF new, n

\* One process changes.
LEMMA LiveChange ==
    ASSUME NEW runs, NEW procs, NEW c, NEW b, SavesLive(runs),
           \A p \in DOMAIN procs \ {c} : \A x \in Channels(procs[p]) : Lives(x, p, runs),
           \A x \in Channels(b) : Lives(x, c, runs)
    PROVE  AllLive(runs, [procs EXCEPT ![c] = b])
  BY DEF AllLive, ChannelsLive

\* A step that leaves runs and processes.
LEMMA LiveRests ==
    ASSUME LiveInv, TidyInv', dp_phase # "ended", dp_runs' = dp_runs, dp_proc' = dp_proc
    PROVE  LiveInv'
  BY DEF LiveInv

\* While a program runs.
LEMMA LiveOnTop ==
    ASSUME LiveInv, Running_
    PROVE  /\ dp_phase = "mode" /\ dp_runs # <<>> /\ RunsNested(dp_runs) /\ AllLive(dp_runs, dp_proc)
           /\ Cur = dp_runs[Len(dp_runs)].proc /\ Top = dp_runs[Len(dp_runs)]
           /\ Cur \in DOMAIN dp_proc /\ ProcRight(dp_proc[Cur]) /\ SaveRight(Top)
           /\ Len(dp_runs) \in DOMAIN dp_runs /\ Len(dp_runs) \in Nat
           /\ \A x \in Channels(dp_proc[Cur]) : Lives(x, Cur, dp_runs)
           /\ \A p \in DOMAIN dp_proc \ {Cur} : \A x \in Channels(dp_proc[p]) : Lives(x, p, dp_runs)
<1>1. TidyInv
  BY DEF LiveInv
<1>2. /\ dp_phase = "mode" /\ dp_runs # <<>> /\ RunsNested(dp_runs)
      /\ Cur = dp_runs[Len(dp_runs)].proc /\ Top = dp_runs[Len(dp_runs)]
      /\ Cur \in DOMAIN dp_proc /\ ProcRight(dp_proc[Cur]) /\ SaveRight(Top)
  BY <1>1, OnTop DEF AllRight
<1>3. Len(dp_runs) \in DOMAIN dp_runs /\ Len(dp_runs) \in Nat
  BY <1>2, RunGone
<1>4. AllLive(dp_runs, dp_proc)
  BY <1>2 DEF LiveInv
<1> QED BY <1>2, <1>3, <1>4 DEF AllLive, ChannelsLive

\* What is not of the process whose run ends, stays.
LEMMA OthersLive ==
    ASSUME LiveInv, Running_, NEW p, p # Cur, NEW x, Lives(x, p, dp_runs)
    PROVE  Lives(x, p, Front(dp_runs))
<1>1. /\ dp_runs # <<>> /\ RunsNested(dp_runs) /\ SavesLive(dp_runs) /\ Cur = dp_runs[Len(dp_runs)].proc
  BY LiveOnTop DEF AllLive
<1>2. x[2] # 0 => x[2] # Len(dp_runs)
  BY <1>1 DEF Lives
<1> QED BY <1>1, <1>2, LiveRunGone

\* A process starts in a run of its own, with what was there before.
LEMMA StartLive ==
    ASSUME LiveInv, TidyInv', dp_phase = "mode", NEW shell, NEW own_cwd, ProcStarts(shell, own_cwd)
    PROVE  LiveInv'
<1> DEFINE q == dp_count + 1
           b == NewProc(q, shell, own_cwd)
           fr == [kind |-> "proc", proc |-> q, save |-> <<>>]
<1>1. AllLive(dp_runs, dp_proc) /\ RunsNested(dp_runs)
  BY DEF LiveInv, TidyInv, AllRight
<1>2. /\ dp_runs' = Append(dp_runs, fr)
      /\ dp_proc' = [r \in DOMAIN dp_proc \union {q} |-> IF r = q THEN b ELSE dp_proc[r]]
  BY DEF ProcStarts, Run
<1>3. \A x \in Channels(b) : x[2] = 0
  BY DEF NewProc, Channels, Cli0, StdIn, StdOut
<1>4. fr.kind # "system"
  OBVIOUS
<1> HIDE DEF b, fr, q
<1>5. AllLive(dp_runs', dp_proc)
  BY <1>1, <1>2, <1>4, LiveRunAdded
<1>6. ChannelsLive(dp_proc', dp_runs')
  <2> SUFFICES ASSUME NEW p \in DOMAIN dp_proc', NEW x \in Channels(dp_proc'[p]) PROVE Lives(x, p, dp_runs')
    BY DEF ChannelsLive
  <2>1. CASE p = q
    BY <1>2, <1>3, <2>1 DEF Lives
  <2>2. CASE p # q
    <3>1. p \in DOMAIN dp_proc /\ dp_proc'[p] = dp_proc[p]
      BY <1>2, <2>2
    <3> QED BY <1>5, <3>1 DEF AllLive, ChannelsLive
  <2> QED BY <2>1, <2>2
<1> QED BY <1>5, <1>6 DEF LiveInv, AllLive

\* A program returns, and nothing of its process is left.
LEMMA ExitLive ==
    ASSUME LiveInv, TidyInv', ProcExit
    PROVE  LiveInv'
<1>1. Running_ /\ dp_runs' = Front(dp_runs) /\ dp_proc' = [q \in DOMAIN dp_proc \ {Cur} |-> dp_proc[q]]
  BY DEF ProcExit, ProcFree
<1>2. /\ dp_runs # <<>> /\ RunsNested(dp_runs) /\ SavesLive(dp_runs)
      /\ \A p \in DOMAIN dp_proc \ {Cur} : \A x \in Channels(dp_proc[p]) : Lives(x, p, dp_runs)
  BY <1>1, LiveOnTop DEF AllLive
<1>3. SavesLive(dp_runs')
  BY <1>1, <1>2, LiveRunGone
<1>4. ChannelsLive(dp_proc', dp_runs')
  <2> SUFFICES ASSUME NEW p \in DOMAIN dp_proc \ {Cur}, NEW x \in Channels(dp_proc[p]) PROVE Lives(x, p, Front(dp_runs))
    BY <1>1 DEF ChannelsLive
  <2> QED BY <1>1, <1>2, OthersLive
<1> QED BY <1>3, <1>4 DEF LiveInv, AllLive

\* RunCommand() starts a command, which works with what its caller does.
LEMMA RunCommandLive ==
    ASSUME LiveInv, TidyInv', NEW s, RunCommand(s)
    PROVE  LiveInv'
<1> DEFINE b == begin_command(dp_proc[Cur])
           fr == [kind |-> "cmd", proc |-> Cur, save |-> Bounds(Cur, s)]
<1>1. Running_
  BY DEF RunCommand, Deeper
<1>2. CASE s \notin dp_seg_lists
  BY <1>2 DEF RunCommand, ProcRaise, LiveInv
<1>3. CASE s \in dp_seg_lists
  <2>1. dp_runs' = Append(dp_runs, fr) /\ dp_proc' = [dp_proc EXCEPT ![Cur] = b]
    BY <1>3 DEF RunCommand, Run
  <2>2. /\ RunsNested(dp_runs) /\ AllLive(dp_runs, dp_proc) /\ Cur \in DOMAIN dp_proc /\ ProcRight(dp_proc[Cur])
    BY <1>1, LiveOnTop
  <2>3. Channels(b) = Channels(dp_proc[Cur])
    BY <2>2, CommandFields DEF CommandOf, Channels
  <2>4. fr.kind # "system"
    OBVIOUS
  <2> HIDE DEF b, fr
  <2>5. AllLive(dp_runs', dp_proc)
    BY <2>1, <2>2, <2>4, LiveRunAdded
  <2>6. AllLive(dp_runs', [dp_proc EXCEPT ![Cur] = b])
    BY <2>2, <2>3, <2>5, LiveChange DEF AllLive, ChannelsLive
  <2> QED BY <2>1, <2>6 DEF LiveInv
<1> QED BY <1>2, <1>3

\* The command returns: no stream is of its run.
LEMMA CommandReturnsLive ==
    ASSUME LiveInv, TidyInv', CommandReturns
    PROVE  LiveInv'
<1> DEFINE b == end_command(dp_proc[Cur], Top.save)
<1>1. Running_ /\ Top.kind = "cmd" /\ dp_runs' = Front(dp_runs) /\ dp_proc' = [dp_proc EXCEPT ![Cur] = b]
  BY DEF CommandReturns
<1>2. /\ dp_runs # <<>> /\ RunsNested(dp_runs) /\ SavesLive(dp_runs) /\ ProcRight(dp_proc[Cur])
      /\ Top = dp_runs[Len(dp_runs)]
      /\ \A x \in Channels(dp_proc[Cur]) : Lives(x, Cur, dp_runs)
      /\ \A p \in DOMAIN dp_proc \ {Cur} : \A x \in Channels(dp_proc[p]) : Lives(x, p, dp_runs)
  BY <1>1, LiveOnTop DEF AllLive
<1>3. Channels(b) = Channels(dp_proc[Cur])
  <2> DEFINE pr == dp_proc[Cur]
             sv == Top.save
  <2>1. ProcRight(pr)
    BY <1>2
  <2> HIDE DEF pr, sv
  <2>2. CommandOf(pr, end_command(pr, sv))
    BY <2>1, CommandFields
  <2>3. Channels(end_command(pr, sv)) = Channels(pr)
    BY <2>2 DEF CommandOf, Channels
  <2> QED BY <2>3 DEF pr, sv
<1> HIDE DEF b
<1>4. SavesLive(dp_runs')
  BY <1>1, <1>2, LiveRunGone
<1>5. ASSUME NEW x \in Channels(b) PROVE Lives(x, Cur, dp_runs')
  <2>1. Lives(x, Cur, dp_runs)
    BY <1>2, <1>3
  <2>2. x[2] # 0 => x[2] # Len(dp_runs)
    BY <1>1, <1>2, <2>1 DEF Lives
  <2> QED BY <1>1, <1>2, <2>1, <2>2, LiveRunGone
<1>6. \A p \in DOMAIN dp_proc \ {Cur} : \A x \in Channels(dp_proc[p]) : Lives(x, p, dp_runs')
  BY <1>1, <1>2, OthersLive
<1>7. AllLive(dp_runs', [dp_proc EXCEPT ![Cur] = b])
  BY <1>4, <1>5, <1>6, LiveChange
<1> QED BY <1>1, <1>7 DEF LiveInv

\* SystemTagList() in a shell: inputs and directory are the new run's, what is kept is
\* of the runs below.
LEMMA SystemShellLive ==
    ASSUME LiveInv, TidyInv', NEW out, SystemShell(out)
    PROVE  LiveInv'
<1> DEFINE pr == dp_proc[Cur]
           n == Len(dp_runs) + 1
           b == ShellBegins(pr, ShellCli(pr.cli, out), <<"dup", n>>)
           sv == [cli |-> pr.cli, cos |-> pr.cos, dir |-> pr.dir, out |-> out, lower |-> pr.lower, upper |-> pr.upper]
           fr == [kind |-> "system", proc |-> Cur, save |-> sv]
<1>1. Running_ /\ dp_runs' = Append(dp_runs, fr) /\ dp_proc' = [dp_proc EXCEPT ![Cur] = b]
  BY DEF SystemShell, Deeper, Run, ShellBegins, ShellCli
<1>2. /\ RunsNested(dp_runs) /\ AllLive(dp_runs, dp_proc) /\ ProcRight(pr)
      /\ \A x \in Channels(pr) : Lives(x, Cur, dp_runs)
  BY <1>1, LiveOnTop
<1>3. /\ b.cis = pr.cis /\ b.cos = pr.cos /\ b.dir = <<"dup", n>>
      /\ b.cli.cur_in = <<"new_in", n>> /\ b.cli.std_in = <<"new_std", n>>
  <2> DEFINE dir == <<"dup", n>>
             e == ShellBegins(pr, ShellCli(pr.cli, out), dir)
  <2>1. ProcRight(pr)
    BY <1>2
  <2> HIDE DEF pr, dir
  <2>2. ShellOf(pr, e, dir)
    BY <2>1, ShellFields
  <2>3. b = e
    BY DEF dir
  <2> HIDE DEF e, b
  <2> QED BY <2>2, <2>3 DEF dir, ShellOf
<1>4. fr.kind = "system" /\ fr.proc = Cur /\ Saved(fr.save) \subseteq Channels(pr)
  BY DEF Saved, Channels
<1> HIDE DEF b, fr, sv
<1>5. AllLive(dp_runs', dp_proc) /\ \A x, p : Lives(x, p, dp_runs) => Lives(x, p, dp_runs')
  <2>1. \A x \in Saved(fr.save) : Lives(x, fr.proc, dp_runs)
    BY <1>2, <1>4
  <2> QED BY <1>1, <1>2, <2>1, LiveRunAdded
<1>6. n \in DOMAIN dp_runs' /\ dp_runs'[n] = fr
  BY <1>1, <1>2, RunAdded
<1>7. ASSUME NEW x \in Channels(b) PROVE Lives(x, Cur, dp_runs')
  <2>1. x \in Channels(pr) \/ x[2] = n
    BY <1>3 DEF Channels
  <2>2. CASE x \in Channels(pr)
    BY <1>2, <1>5, <2>2
  <2>3. CASE x[2] = n
    BY <1>4, <1>6, <2>3 DEF Lives
  <2> QED BY <2>1, <2>2, <2>3
<1>8. AllLive(dp_runs', [dp_proc EXCEPT ![Cur] = b])
  BY <1>5, <1>7, LiveChange DEF AllLive, ChannelsLive
<1> QED BY <1>1, <1>8 DEF LiveInv

\* The end of SystemTagList() puts back what was kept, which is not of its own run.
LEMMA SystemReturnsLive ==
    ASSUME LiveInv, TidyInv', NEW rc, SystemReturns(rc)
    PROVE  LiveInv'
<1> DEFINE b == end_system(dp_proc[Cur], Top.save)
<1>1. Running_ /\ Top.kind = "system"
  BY DEF SystemReturns
<1>2. CASE Top.save.out = "zero"
  BY <1>2 DEF SystemReturns, ProcRaise, LiveInv
<1>3. CASE Top.save.out # "zero"
  <2>1. dp_runs' = Front(dp_runs) /\ dp_proc' = [dp_proc EXCEPT ![Cur] = b]
    BY <1>3 DEF SystemReturns
  <2>2. /\ dp_runs # <<>> /\ RunsNested(dp_runs) /\ SavesLive(dp_runs) /\ ProcRight(dp_proc[Cur])
        /\ Top = dp_runs[Len(dp_runs)] /\ Cur = dp_runs[Len(dp_runs)].proc /\ Len(dp_runs) \in DOMAIN dp_runs
        /\ DOMAIN Top.save.cli = CliFields /\ Len(dp_runs) \in Nat
        /\ \A p \in DOMAIN dp_proc \ {Cur} : \A x \in Channels(dp_proc[p]) : Lives(x, p, dp_runs)
    BY <1>1, LiveOnTop DEF AllLive, SaveRight
  <2>3. /\ b.dir = Top.save.dir /\ b.cos = Top.save.cos /\ b.cis = Top.save.cli.cur_in
        /\ b.cli.cur_in = Top.save.cli.cur_in /\ b.cli.std_in = Top.save.cli.std_in
    BY <2>2, SystemFields
  <2>4. Channels(b) \subseteq Saved(Top.save)
    BY <2>3 DEF Channels, Saved
  <2> HIDE DEF b
  <2>5. SavesLive(dp_runs')
    BY <2>1, <2>2, LiveRunGone
  <2>6. ASSUME NEW x \in Channels(b) PROVE Lives(x, Cur, dp_runs')
    <3>1. Lives(x, Cur, dp_runs) /\ (x[2] # 0 => x[2] < Len(dp_runs))
      BY <1>1, <2>2, <2>4 DEF SavesLive
    <3>2. x[2] # 0 => x[2] \in Int
      BY <2>2, <3>1, RunGone DEF Lives
    <3>3. x[2] # 0 => x[2] # Len(dp_runs)
      BY <2>2, <3>1, <3>2
    <3> QED BY <2>1, <2>2, <3>1, <3>3, LiveRunGone
  <2>7. \A p \in DOMAIN dp_proc \ {Cur} : \A x \in Channels(dp_proc[p]) : Lives(x, p, dp_runs')
    BY <1>1, <2>1, <2>2, OthersLive
  <2>8. AllLive(dp_runs', [dp_proc EXCEPT ![Cur] = b])
    BY <2>5, <2>6, <2>7, LiveChange
  <2> QED BY <2>1, <2>8 DEF LiveInv
<1> QED BY <1>2, <1>3

\* What a program selects is of a run of its process, or stays.
LEMMA WorksLive ==
    ASSUME LiveInv, TidyInv', WorksNext
    PROVE  LiveInv'
<1> DEFINE pr == dp_proc[Cur]
<1>1. Running_ /\ dp_runs' = dp_runs
  BY DEF WorksNext, ProgramWorks, CliInit
<1>2. /\ AllLive(dp_runs, dp_proc) /\ Cur \in DOMAIN dp_proc /\ ProcRight(pr)
      /\ \A x \in Channels(pr) : Lives(x, Cur, dp_runs)
  BY <1>1, LiveOnTop
<1>3. ASSUME NEW f \in {"dir", "cis", "cos"}, NEW v, Lives(v, Cur, dp_runs), ProgramWorks(f, v) PROVE LiveInv'
  <2> DEFINE b == [pr EXCEPT ![f] = v]
  <2>1. dp_proc' = [dp_proc EXCEPT ![Cur] = b]
    BY <1>3 DEF ProgramWorks
  <2>2. DOMAIN pr = ProcFields
    BY <1>2 DEF ProcRight
  <2>3. b[f] = v /\ \A g \in ProcFields \ {f} : b[g] = pr[g]
    BY <2>2 DEF ProcFields
  <2> HIDE DEF b
  <2>4. b.cis \in {pr.cis, v} /\ b.cos \in {pr.cos, v} /\ b.dir \in {pr.dir, v} /\ b.cli = pr.cli
    BY <2>3 DEF ProcFields
  <2>5. \A x \in Channels(b) : Lives(x, Cur, dp_runs)
    BY <1>2, <1>3, <2>4 DEF Channels
  <2>6. AllLive(dp_runs, [dp_proc EXCEPT ![Cur] = b])
    BY <1>2, <2>5, LiveChange DEF AllLive, ChannelsLive
  <2> QED BY <1>1, <2>1, <2>6 DEF LiveInv
<1>4. ASSUME NEW n \in DOMAIN dp_runs, InShell(n), CliInit(n) PROVE LiveInv'
  <2>1. PICK in \in {pr.cis, <<"startup", n>>} : dp_proc' = [dp_proc EXCEPT ![Cur].cli = cli_init(pr, in)]
    BY <1>4 DEF CliInit
  <2> DEFINE cli1 == cli_init(pr, in)
             b == [pr EXCEPT !.cli = cli1]
  <2>2. dp_proc' = [dp_proc EXCEPT ![Cur] = b]
    BY <2>1
  <2>3. DOMAIN pr = ProcFields /\ DOMAIN pr.cli = CliFields
    BY <1>2 DEF ProcRight
  <2>4. cli1.std_in = pr.cis /\ cli1.cur_in = in
    BY <2>3 DEF cli_init, CliFields
  <2> HIDE DEF cli1
  <2>5. b.cli = cli1 /\ b.cis = pr.cis /\ b.cos = pr.cos /\ b.dir = pr.dir
    BY <2>3 DEF ProcFields
  <2> HIDE DEF b
  <2>6. Lives(in, Cur, dp_runs)
    BY <1>2, <1>4 DEF InShell, Lives, Channels
  <2>7. \A x \in Channels(b) : Lives(x, Cur, dp_runs)
    BY <1>2, <2>4, <2>5, <2>6 DEF Channels
  <2>8. AllLive(dp_runs, [dp_proc EXCEPT ![Cur] = b])
    BY <1>2, <2>7, LiveChange DEF AllLive, ChannelsLive
  <2> QED BY <1>1, <2>2, <2>8 DEF LiveInv
<1>5. CASE ProgramWorks("dir", <<"other", 0>>)
  BY <1>3, <1>5 DEF Lives
<1>6. ASSUME NEW n \in DOMAIN dp_runs, InShell(n), NEW f \in {"cis", "cos"}, ProgramWorks(f, <<"file", n>>) PROVE LiveInv'
  <2>1. Lives(<<"file", n>>, Cur, dp_runs)
    BY <1>6 DEF InShell, Lives
  <2> QED BY <1>3, <1>6, <2>1
<1> QED BY <1>4, <1>5, <1>6 DEF WorksNext

\* Every step keeps it.
LEMMA LiveStep == LiveInv /\ [ProcNext]_dp_vars => LiveInv'
<1> SUFFICES ASSUME LiveInv, [ProcNext]_dp_vars PROVE LiveInv'
  OBVIOUS
<1>1. TidyInv'
  BY ProcStep DEF LiveInv
<1>2. CASE MainStep \/ MainFails \/ LibsDown
  BY <1>1, <1>2 DEF MainStep, MainFails, LibsDown, MainRest, CanFail, LiveInv
<1>3. ASSUME NEW s \in BOOLEAN, StartMain(s) \/ SystemProc(s) \/ CreateNewProc(s) PROVE LiveInv'
  <2>1. dp_phase = "mode"
    BY <1>3 DEF StartMain, SystemProc, CreateNewProc, Deeper, Running_
  <2>2. (\E sh, own : ProcStarts(sh, own)) \/ UNCHANGED <<dp_runs, dp_proc>>
    BY <1>3 DEF StartMain, SystemProc, CreateNewProc
  <2> QED BY <1>1, <2>1, <2>2, StartLive, LiveRests
<1>4. CASE MainNotFound \/ SendPkt
  BY <1>1, <1>4, LiveRests DEF MainNotFound, SendPkt, PktRest, Running_
<1>5. ASSUME NEW s, LoadSeg(s) \/ UnLoadSeg(s) PROVE LiveInv'
  BY <1>1, <1>5 DEF LoadSeg, UnLoadSeg, Running_, ProcRaise, LiveInv
<1>6. ASSUME NEW x \in Parties, WaitPkt(x) \/ ReplyPkt(x) PROVE LiveInv'
  BY <1>1, <1>6 DEF WaitPkt, ReplyPkt, PktRest, Running_, ProcRaise, LiveInv
<1>7. CASE ProcExit \/ CommandReturns \/ (\E s : RunCommand(s)) \/ (\E o : SystemShell(o)) \/ SystemReturns(1)
  BY <1>1, <1>7, ExitLive, CommandReturnsLive, RunCommandLive, SystemShellLive, SystemReturnsLive
<1>8. CASE WorksNext
  BY <1>1, <1>8, WorksLive
<1>9. CASE UNCHANGED dp_vars
  BY <1>1, <1>9 DEF dp_vars, LiveInv
<1> QED BY <1>2, <1>3, <1>4, <1>5, <1>6, <1>7, <1>8, <1>9 DEF ProcNext, RunsNext

\* However shells run themselves, select streams, are initialised and end, no process
\* reads from, writes to or is in what was made for a run that is over: for any number
\* of nested runs.
THEOREM ShellsLeaveNoChannels == ProcSpec => []NoDeadChannels
<1>1. ProcInit => LiveInv
  <2> SUFFICES ASSUME ProcInit PROVE LiveInv
    OBVIOUS
  <2>1. dp_runs = <<>> /\ dp_proc = <<>>
    BY DEF ProcInit
  <2>2. DOMAIN dp_runs = {} /\ DOMAIN dp_proc = {}
    BY <2>1
  <2> QED BY <2>2, ProcStart DEF LiveInv, AllLive, ChannelsLive, SavesLive
<1>2. LiveInv /\ [ProcNext]_dp_vars => LiveInv'
  BY LiveStep
<1>3. LiveInv => NoDeadChannels
  BY DEF LiveInv, AllLive, ChannelsLive, NoDeadChannels
<1> QED BY <1>1, <1>2, <1>3, PTL DEF ProcSpec

-----------------------------------------------------------------------------
(* The converters of a terminal.                                           *)

CharSet == TypeChars \cup {"csi", "esc", "["}
Code(c) == IF c = "csi" THEN <<"esc", "[">> ELSE <<c>>

IsRecursive(f, N, A, first, st) ==
    f \in [0..N -> A] /\ f[0] = first /\ \A i \in 1..N : f[i] = st[<<i, f[i - 1]>>]

\* A function that is defined by recursion over the first natural numbers exists.
LEMMA Recursion ==
    ASSUME NEW N \in Nat, NEW A, NEW first \in A, NEW st \in [(1..N) \X A -> A]
    PROVE  \E f : IsRecursive(f, N, A, first, st)
<1> DEFINE Good_(f, n) == f[0] = first /\ \A i \in 1..n : f[i] = st[<<i, f[i - 1]>>]
           T == {n \in Nat : n <= N => \E f \in [0..n -> A] : Good_(f, n)}
<1>1. 0 \in T
  <2>1. [i \in 0..0 |-> first] \in [0..0 -> A] /\ Good_([i \in 0..0 |-> first], 0)
    OBVIOUS
  <2> QED BY <2>1
<1>2. ASSUME NEW n \in Nat, n \in T PROVE n + 1 \in T
  <2> SUFFICES ASSUME n + 1 <= N PROVE \E f \in [0..(n + 1) -> A] : Good_(f, n + 1)
    OBVIOUS
  <2>1. PICK f \in [0..n -> A] : Good_(f, n)
    BY <1>2
  <2> DEFINE v == st[<<n + 1, f[n]>>]
             g == [i \in 0..(n + 1) |-> IF i = n + 1 THEN v ELSE f[i]]
  <2>2. n + 1 \in 1..N /\ f[n] \in A
    OBVIOUS
  <2>3. v \in A
    BY <2>2
  <2> HIDE DEF v
  <2>4. g \in [0..(n + 1) -> A]
    BY <2>3
  <2>5. g[0] = first
    BY <2>1
  <2>01. \A i \in 0..n : g[i] = f[i]
    OBVIOUS
  <2>02. g[n + 1] = v
    OBVIOUS
  <2> HIDE DEF g
  <2>6. \A i \in 1..n : g[i] = st[<<i, g[i - 1]>>]
    BY <2>1, <2>01
  <2>7. g[n + 1] = st[<<n + 1, g[(n + 1) - 1]>>]
    BY <2>01, <2>02 DEF v
  <2>8. Good_(g, n + 1)
    BY <2>5, <2>6, <2>7
  <2> QED BY <2>4, <2>8
<1> HIDE DEF T
<1>3. Nat \subseteq T
  BY <1>1, <1>2, NatInd
<1>4. PICK f \in [0..N -> A] : Good_(f, N)
  BY <1>3 DEF T
<1> QED BY <1>4 DEF IsRecursive

\* Two functions that start and go on alike up to M.
Alike(f, g, M) == f[0] = g[0] /\ \A i \in 1..M : f[i - 1] = g[i - 1] => f[i] = g[i]
\* They are the same.
LEMMA RecursionOnce ==
    ASSUME NEW M \in Nat, NEW f, NEW g, Alike(f, g, M)
    PROVE  \A i \in 0..M : f[i] = g[i]
<1> USE DEF Alike
<1> DEFINE T == {n \in Nat : n <= M => f[n] = g[n]}
<1>1. 0 \in T
  OBVIOUS
<1>2. \A n \in Nat : n \in T => n + 1 \in T
  <2> SUFFICES ASSUME NEW n \in Nat, n \in T, n + 1 <= M PROVE f[n + 1] = g[n + 1]
    OBVIOUS
  <2>1. n + 1 \in 1..M /\ f[n] = g[n] /\ (n + 1) - 1 = n
    OBVIOUS
  <2> QED BY <2>1
<1> HIDE DEF T
<1>3. Nat \subseteq T
  BY <1>1, <1>2, NatInd
<1> QED BY <1>3 DEF T

\* What convert_esc() makes of a sequence is made character by character.
LEMMA EscRec ==
    ASSUME NEW s \in Seq(CharSet)
    PROVE  \E r \in [0..Len(s) -> Seq(CharSet)] :
              /\ r[0] = <<>> /\ convert_esc(s) = r[Len(s)]
              /\ \A i \in 1..Len(s) : r[i] = with_char(r[i - 1], s[i])
<1> DEFINE N == Len(s)
           A == Seq(CharSet)
           st == [x \in (1..N) \X A |-> with_char(x[2], s[x[1]])]
           Is(r) == r = [i \in 0..N |-> IF i = 0 THEN <<>> ELSE with_char(r[i - 1], s[i])]
           R == CHOOSE r : Is(r)
<1>1. \A i \in 1..N, t \in A : with_char(t, s[i]) \in A
  <2> SUFFICES ASSUME NEW i \in 1..N, NEW t \in A PROVE with_char(t, s[i]) \in A
    OBVIOUS
  <2>1. s[i] \in CharSet /\ "csi" \in CharSet
    BY DEF CharSet
  <2>2. Append(t, s[i]) \in A
    BY <2>1
  <2>3. CASE t # <<>>
    <3>1. Front(t) \in A
      BY <2>3 DEF Front
    <3>2. Front(t) \o <<"csi">> \in A
      BY <3>1, <2>1
    <3> QED BY <3>2, <2>2 DEF with_char
  <2> QED BY <2>2, <2>3 DEF with_char
<1>2. st \in [(1..N) \X A -> A]
  BY <1>1
<1>3. N \in Nat /\ <<>> \in A
  OBVIOUS
<1> HIDE DEF st
<1>4. PICK f : IsRecursive(f, N, A, <<>>, st)
  BY <1>2, <1>3, Recursion
<1>5. /\ f \in [0..N -> A] /\ f[0] = <<>>
      /\ \A i \in 1..N : f[i] = with_char(f[i - 1], s[i])
  <2>1. /\ f \in [0..N -> A] /\ f[0] = <<>>
        /\ \A i \in 1..N : f[i] = st[<<i, f[i - 1]>>]
    BY <1>4 DEF IsRecursive
  <2>2. \A i \in 1..N : i - 1 \in 0..N
    BY <1>3
  <2>3. \A i \in 1..N : <<i, f[i - 1]>> \in (1..N) \X A
    BY <2>1, <2>2
  <2> QED BY <2>1, <2>3 DEF st
<1>6. Is(f)
  BY <1>5
<1>7. Is(R)
  BY <1>6
<1>8. R[0] = <<>> /\ f[0] = <<>>
  <2>1. 0 \in 0..N
    BY <1>3
  <2>2. R[0] = <<>>
    BY <1>7, <2>1
  <2> QED BY <1>5, <2>2
<1>9. \A i \in 1..N : R[i] = with_char(R[i - 1], s[i]) /\ f[i] = with_char(f[i - 1], s[i])
  <2>1. \A i \in 1..N : i \in 0..N /\ i # 0
    BY <1>3
  <2>2. \A i \in 1..N : R[i] = with_char(R[i - 1], s[i])
    BY <1>7, <2>1
  <2> QED BY <1>5, <2>2
<1>10. convert_esc(s) = R[N]
  BY DEF convert_esc
<1> HIDE DEF R
<1>11. Alike(R, f, N)
  BY <1>8, <1>9 DEF Alike
<1>12. \A i \in 0..N : R[i] = f[i]
  BY <1>11, <1>3, RecursionOnce
<1>13. convert_esc(s) = f[N]
  BY <1>10, <1>12, <1>3
<1> QED BY <1>5, <1>13

\* The converter of output goes through its text character by character.
LEMMA CsiRec ==
    ASSUME NEW s \in Seq(CharSet)
    PROVE  \E r \in [0..Len(s) -> Seq(CharSet)] :
              /\ r[0] = <<>> /\ convert_csi(s) = r[Len(s)]
              /\ \A i \in 1..Len(s) : r[i] = r[i - 1] \o Code(s[i])
<1> DEFINE N == Len(s)
           A == Seq(CharSet)
           st == [x \in (1..N) \X A |-> x[2] \o Code(s[x[1]])]
           Is(r) == r = [i \in 0..N |-> IF i = 0 THEN <<>> ELSE r[i - 1] \o Code(s[i])]
           R == CHOOSE r : Is(r)
<1>1. \A i \in 1..N : Code(s[i]) \in A
  <2>1. \A i \in 1..N : s[i] \in CharSet
    OBVIOUS
  <2>2. <<"esc", "[">> \in A
    BY DEF CharSet
  <2> QED BY <2>1, <2>2 DEF Code
<1>2. st \in [(1..N) \X A -> A]
  BY <1>1
<1>3. N \in Nat /\ <<>> \in A
  OBVIOUS
<1> HIDE DEF st
<1>4. PICK f : IsRecursive(f, N, A, <<>>, st)
  BY <1>2, <1>3, Recursion
<1>5. /\ f \in [0..N -> A] /\ f[0] = <<>>
      /\ \A i \in 1..N : f[i] = f[i - 1] \o Code(s[i])
  <2>1. /\ f \in [0..N -> A] /\ f[0] = <<>>
        /\ \A i \in 1..N : f[i] = st[<<i, f[i - 1]>>]
    BY <1>4 DEF IsRecursive
  <2>2. \A i \in 1..N : i - 1 \in 0..N
    BY <1>3
  <2>3. \A i \in 1..N : <<i, f[i - 1]>> \in (1..N) \X A
    BY <2>1, <2>2
  <2> QED BY <2>1, <2>3 DEF st
<1>6. Is(f)
  BY <1>5, SMTT(30)
<1>7. Is(R)
  BY <1>6
<1>8. R[0] = <<>> /\ f[0] = <<>>
  <2>1. 0 \in 0..N
    BY <1>3
  <2>2. R[0] = <<>>
    BY <1>7, <2>1
  <2> QED BY <1>5, <2>2
<1>9. \A i \in 1..N : R[i] = R[i - 1] \o Code(s[i]) /\ f[i] = f[i - 1] \o Code(s[i])
  <2>1. \A i \in 1..N : i \in 0..N /\ i # 0
    BY <1>3
  <2>2. \A i \in 1..N : R[i] = R[i - 1] \o Code(s[i])
    BY <1>7, <2>1
  <2> QED BY <1>5, <2>2
<1>10. convert_csi(s) = R[N]
  BY DEF convert_csi, Code
<1> HIDE DEF R
<1>11. Alike(R, f, N)
  BY <1>8, <1>9 DEF Alike
<1>12. \A i \in 0..N : R[i] = f[i]
  BY <1>11, <1>3, RecursionOnce
<1>13. convert_csi(s) = f[N]
  BY <1>10, <1>12, <1>3
<1> QED BY <1>5, <1>13

\* One more character that was read.
LEMMA EscAppend ==
    ASSUME NEW s \in Seq(CharSet), NEW c \in CharSet
    PROVE  convert_esc(Append(s, c)) = with_char(convert_esc(s), c)
<1> DEFINE N == Len(s)
           t == Append(s, c)
<1>1. PICK f \in [0..Len(s) -> Seq(CharSet)] :
              /\ f[0] = <<>> /\ convert_esc(s) = f[Len(s)]
              /\ \A i \in 1..Len(s) : f[i] = with_char(f[i - 1], s[i])
  BY EscRec
<1>2. t \in Seq(CharSet) /\ Len(t) = N + 1 /\ N \in Nat /\ t[N + 1] = c /\ \A i \in 1..N : t[i] = s[i]
  OBVIOUS
<1>3. PICK g \in [0..Len(t) -> Seq(CharSet)] :
              /\ g[0] = <<>> /\ convert_esc(t) = g[Len(t)]
              /\ \A i \in 1..Len(t) : g[i] = with_char(g[i - 1], t[i])
  <2> HIDE DEF t
  <2> QED BY <1>2, EscRec
<1> HIDE DEF t
<1>4. Alike(f, g, N)
  BY <1>1, <1>2, <1>3 DEF Alike
<1>5. f[N] = g[N]
  BY <1>4, <1>2, RecursionOnce
<1>6. N + 1 \in 1..Len(t) /\ (N + 1) - 1 = N
  BY <1>2
<1>7. g[N + 1] = with_char(g[N], c)
  BY <1>3, <1>6, <1>2
<1> QED BY <1>1, <1>2, <1>3, <1>5, <1>7 DEF t

\* One more character that is written.
LEMMA CsiAppend ==
    ASSUME NEW s \in Seq(CharSet), NEW c \in CharSet
    PROVE  convert_csi(Append(s, c)) = convert_csi(s) \o Code(c)
<1> DEFINE N == Len(s)
           t == Append(s, c)
<1>1. PICK f \in [0..Len(s) -> Seq(CharSet)] :
              /\ f[0] = <<>> /\ convert_csi(s) = f[Len(s)]
              /\ \A i \in 1..Len(s) : f[i] = f[i - 1] \o Code(s[i])
  BY CsiRec
<1>2. t \in Seq(CharSet) /\ Len(t) = N + 1 /\ N \in Nat /\ t[N + 1] = c /\ \A i \in 1..N : t[i] = s[i]
  OBVIOUS
<1>3. PICK g \in [0..Len(t) -> Seq(CharSet)] :
              /\ g[0] = <<>> /\ convert_csi(t) = g[Len(t)]
              /\ \A i \in 1..Len(t) : g[i] = g[i - 1] \o Code(t[i])
  <2> HIDE DEF t
  <2> QED BY <1>2, CsiRec
<1> HIDE DEF t
<1>4. Alike(f, g, N)
  <2>1. \A i \in 1..N : i \in 1..Len(t) /\ Code(t[i]) = Code(s[i])
    BY <1>2
  <2>2. \A i \in 1..N : g[i] = g[i - 1] \o Code(s[i])
    BY <1>3, <2>1
  <2> QED BY <1>1, <1>3, <2>2 DEF Alike
<1>5. f[N] = g[N]
  BY <1>4, <1>2, RecursionOnce
<1>6. N + 1 \in 1..Len(t) /\ (N + 1) - 1 = N
  BY <1>2
<1>7. g[N + 1] = g[N] \o Code(c)
  BY <1>3, <1>6, <1>2
<1> QED BY <1>1, <1>2, <1>3, <1>5, <1>7 DEF t

\* Nothing to convert.
LEMMA ConvertEmpty == convert_esc(<<>>) = <<>> /\ convert_csi(<<>>) = <<>>
<1>1. <<>> \in Seq(CharSet) /\ Len(<<>>) = 0
  OBVIOUS
<1> DEFINE e == <<>>
<1>2. e \in Seq(CharSet) /\ Len(e) = 0
  BY <1>1
<1> HIDE DEF e
<1>3. convert_esc(e) = <<>>
  BY <1>2, EscRec
<1>4. convert_csi(e) = <<>>
  BY <1>2, CsiRec
<1> QED BY <1>3, <1>4 DEF e

\* Both converters give characters.
LEMMA ConvertTypes ==
    ASSUME NEW s \in Seq(CharSet)
    PROVE  convert_esc(s) \in Seq(CharSet) /\ convert_csi(s) \in Seq(CharSet)
<1>1. Len(s) \in 0..Len(s)
  OBVIOUS
<1>2. convert_esc(s) \in Seq(CharSet)
  BY <1>1, EscRec
<1>3. convert_csi(s) \in Seq(CharSet)
  <2>1. PICK f \in [0..Len(s) -> Seq(CharSet)] : convert_csi(s) = f[Len(s)]
    BY CsiRec
  <2> QED BY <1>1, <2>1
<1> QED BY <1>2, <1>3

\* Induction over sequences: a set that holds the empty sequence, and with a sequence
\* every one with a character more, holds all of them.
LEMMA SeqInd ==
    ASSUME NEW S, NEW T, <<>> \in T, \A s \in Seq(S), c \in S : s \in T => Append(s, c) \in T
    PROVE  Seq(S) \subseteq T
<1> DEFINE U == {n \in Nat : \A s \in Seq(S) : Len(s) = n => s \in T}
<1>1. 0 \in U
  OBVIOUS
<1>2. \A n \in Nat : n \in U => n + 1 \in U
  <2> SUFFICES ASSUME NEW n \in Nat, n \in U, NEW s \in Seq(S), Len(s) = n + 1 PROVE s \in T
    OBVIOUS
  <2>1. s # <<>>
    OBVIOUS
  <2>2. PICK r \in Seq(S), c \in S : s = Append(r, c)
    BY <2>1, SequenceEmptyOrAppend
  <2>3. Len(r) = n
    BY <2>2
  <2> QED BY <2>2, <2>3
<1> HIDE DEF U
<1>3. Nat \subseteq U
  BY <1>1, <1>2, NatInd
<1> QED BY <1>3 DEF U

\* Texts are put out piece by piece.
LEMMA CsiConcat ==
    ASSUME NEW s \in Seq(CharSet), NEW t \in Seq(CharSet)
    PROVE  convert_csi(s \o t) = convert_csi(s) \o convert_csi(t)
<1> DEFINE T == {u \in Seq(CharSet) : convert_csi(s \o u) = convert_csi(s) \o convert_csi(u)}
<1>1. <<>> \in T
  BY ConvertEmpty, ConvertTypes
<1>2. \A u \in Seq(CharSet), c \in CharSet : u \in T => Append(u, c) \in T
  <2> SUFFICES ASSUME NEW u \in Seq(CharSet), NEW c \in CharSet, u \in T
               PROVE  Append(u, c) \in Seq(CharSet) /\ convert_csi(s \o Append(u, c)) = convert_csi(s) \o convert_csi(Append(u, c))
    OBVIOUS
  <2>1. s \o Append(u, c) = Append(s \o u, c) /\ s \o u \in Seq(CharSet)
    OBVIOUS
  <2>2. convert_csi(s \o Append(u, c)) = (convert_csi(s) \o convert_csi(u)) \o Code(c)
    BY <2>1, CsiAppend
  <2>3. Code(c) \in Seq(CharSet)
    <3>1. <<"esc", "[">> \in Seq(CharSet) /\ <<c>> \in Seq(CharSet)
      BY DEF CharSet
    <3> QED BY <3>1 DEF Code
  <2>4. convert_csi(s) \in Seq(CharSet) /\ convert_csi(u) \in Seq(CharSet)
    BY ConvertTypes
  <2>5. (convert_csi(s) \o convert_csi(u)) \o Code(c) = convert_csi(s) \o (convert_csi(u) \o Code(c))
    BY <2>3, <2>4, ConcatAssociative, SMTT(30)
  <2>6. Append(u, c) \in Seq(CharSet)
    OBVIOUS
  <2> QED BY <2>2, <2>5, <2>6, CsiAppend
<1> HIDE DEF T
<1>3. Seq(CharSet) \subseteq T
  BY <1>1, <1>2, SeqInd
<1> QED BY <1>3 DEF T

\* Text without CSI is put out as it is.
LEMMA CsiPlain ==
    ASSUME NEW s \in Seq(CharSet \ {"csi"})
    PROVE  convert_csi(s) = s
<1> DEFINE P == CharSet \ {"csi"}
           T == {u \in Seq(P) : convert_csi(u) = u}
<1>1. <<>> \in T
  BY ConvertEmpty
<1>2. \A u \in Seq(P), c \in P : u \in T => Append(u, c) \in T
  <2> SUFFICES ASSUME NEW u \in Seq(P), NEW c \in P, u \in T
               PROVE  Append(u, c) \in Seq(P) /\ convert_csi(Append(u, c)) = Append(u, c)
    OBVIOUS
  <2>1. u \in Seq(CharSet) /\ c \in CharSet
    OBVIOUS
  <2>2. convert_csi(Append(u, c)) = u \o <<c>>
    BY <2>1, CsiAppend DEF Code
  <2> QED BY <2>2, <2>1, AppendIsConcat
<1> HIDE DEF T
<1>3. Seq(P) \subseteq T
  BY <1>1, <1>2, SeqInd
<1> QED BY <1>3 DEF T

\* What was typed comes back from what the terminal makes of it.
LEMMA EscBack ==
    ASSUME NEW s \in Seq(CharSet \ {"csi"})
    PROVE  convert_csi(convert_esc(s)) = s
<1> DEFINE P == CharSet \ {"csi"}
           T == {u \in Seq(P) : convert_csi(convert_esc(u)) = u}
<1>1. <<>> \in T
  BY ConvertEmpty
<1>2. \A u \in Seq(P), c \in P : u \in T => Append(u, c) \in T
  <2> SUFFICES ASSUME NEW u \in Seq(P), NEW c \in P, u \in T
               PROVE  convert_csi(convert_esc(Append(u, c))) = Append(u, c)
    OBVIOUS
  <2> DEFINE e == convert_esc(u)
  <2>1. u \in Seq(CharSet) /\ c \in CharSet /\ c # "csi"
    OBVIOUS
  <2>2. e \in Seq(CharSet) /\ convert_csi(e) = u
    BY <2>1, ConvertTypes
  <2>3. convert_esc(Append(u, c)) = with_char(e, c)
    BY <2>1, EscAppend
  <2> HIDE DEF e
  <2>4. Append(u, c) = u \o <<c>>
    BY AppendIsConcat
  <2>5. CASE ~(c = "[" /\ e # <<>> /\ Last(e) = "esc")
    <3>1. with_char(e, c) = Append(e, c)
      BY <2>5 DEF with_char
    <3> QED BY <3>1, <2>1, <2>2, <2>3, <2>4, CsiAppend DEF Code
  <2>6. CASE c = "[" /\ e # <<>> /\ Last(e) = "esc"
    <3> DEFINE q == Front(e)
    <3>1. with_char(e, c) = q \o <<"csi">>
      BY <2>6 DEF with_char
    <3>2. q \in Seq(CharSet) /\ e = Append(q, "esc")
      BY <2>2, <2>6 DEF Front, Last
    <3> HIDE DEF q
    <3>3. "esc" \in CharSet /\ "csi" \in CharSet /\ q \o <<"csi">> = Append(q, "csi")
      BY <3>2 DEF CharSet
    <3>4. convert_csi(e) = convert_csi(q) \o <<"esc">>
      BY <3>2, <3>3, CsiAppend DEF Code
    <3>5. convert_csi(q \o <<"csi">>) = convert_csi(q) \o <<"esc", "[">>
      BY <3>2, <3>3, CsiAppend DEF Code
    <3>6. convert_csi(q) \in Seq(CharSet)
      BY <3>2, ConvertTypes
    <3>7. (convert_csi(q) \o <<"esc">>) \o <<"[">> = convert_csi(q) \o <<"esc", "[">>
      <4>1. <<"esc">> \in Seq(CharSet) /\ <<"[">> \in Seq(CharSet)
        BY DEF CharSet
      <4>2. (convert_csi(q) \o <<"esc">>) \o <<"[">> = convert_csi(q) \o (<<"esc">> \o <<"[">>)
        BY <3>6, <4>1, ConcatAssociative
      <4> QED BY <4>2, SingleConcat
    <3> QED BY <2>2, <2>3, <2>4, <2>6, <3>1, <3>4, <3>5, <3>7
  <2> QED BY <2>5, <2>6
<1> HIDE DEF T
<1>3. Seq(P) \subseteq T
  BY <1>1, <1>2, SeqInd
<1> QED BY <1>3 DEF T

-----------------------------------------------------------------------------
(* Reading from the terminal.                                              *)

Ahead == {None, <<>>} \cup {<<c>> : c \in TypeChars}
KeptOf(next) == IF next = None THEN <<>> ELSE next

TerminalInv ==
    /\ tt_typing \in Seq(TypeChars) \cup {None}
    /\ tt_next \in Ahead
    /\ tt_got \in Seq(CharSet)
    /\ tt_taken \in Seq(TypeChars)
    /\ TerminalLossless

\* The smaller of two numbers.
LEMMA MinTwo ==
    ASSUME NEW a \in Int, NEW b \in Int
    PROVE  Min({a, b}) = IF a <= b THEN a ELSE b
<1> DEFINE m == IF a <= b THEN a ELSE b
<1>1. m \in {a, b} /\ \A y \in {a, b} : m <= y
  OBVIOUS
<1>2. \A x \in {a, b} : (\A y \in {a, b} : x <= y) => x = m
  OBVIOUS
<1> HIDE DEF m
<1>3. Min({a, b}) = m
  BY <1>1, <1>2 DEF Min
<1> QED BY <1>3 DEF m

\* What is typed and what is kept has no CSI.
LEMMA PlainChars ==
    /\ TypeChars \subseteq CharSet \ {"csi"} /\ CharSet \ {"csi"} \subseteq CharSet
    /\ Seq(TypeChars) \subseteq Seq(CharSet \ {"csi"}) /\ Seq(TypeChars) \subseteq Seq(CharSet)
    /\ None \notin Seq(TypeChars)
    /\ \A next \in Ahead : KeptOf(next) \in Seq(TypeChars)
<1>1. TypeChars \subseteq CharSet \ {"csi"}
  BY TerminalAssumption DEF CharSet
<1>2. Seq(TypeChars) \subseteq Seq(CharSet \ {"csi"}) /\ Seq(TypeChars) \subseteq Seq(CharSet)
  BY <1>1
<1>3. None \notin Seq(TypeChars)
  <2> SUFFICES ASSUME None \in Seq(TypeChars) PROVE FALSE
    OBVIOUS
  <2>1. None[1] \in TypeChars
    BY DEF None
  <2> QED BY <2>1, TerminalAssumption DEF None
<1>4. ASSUME NEW next \in Ahead PROVE KeptOf(next) \in Seq(TypeChars)
  <2>1. CASE next = None
    BY <2>1 DEF KeptOf
  <2>2. CASE next = <<>>
    BY <2>2 DEF KeptOf
  <2>3. ASSUME NEW c \in TypeChars, next = <<c>> PROVE KeptOf(next) \in Seq(TypeChars)
    <3>1. <<c>> \in Seq(TypeChars) /\ <<>> \in Seq(TypeChars)
      OBVIOUS
    <3> QED BY <2>3, <3>1 DEF KeptOf
  <2> QED BY <2>1, <2>2, <2>3 DEF Ahead
<1> QED BY <1>1, <1>2, <1>3, <1>4

\* Texts are put together in any order.
LEMMA CharsAssociate == \A a, b, c \in Seq(CharSet) : (a \o b) \o c = a \o (b \o c)
BY ConcatAssociative

\* A sequence of one element.
LEMMA SubSeqOne ==
    ASSUME NEW S, NEW s \in Seq(S), NEW m \in 1..Len(s)
    PROVE  SubSeq(s, m, m) = <<s[m]>>
<1>1. SubSeq(s, m, m) = SubSeq(s, m, m - 1) \o <<s[m]>>
  BY SubSeqRecursiveSecond
<1>2. SubSeq(s, m, m - 1) = <<>>
  OBVIOUS
<1>3. s[m] \in S /\ <<s[m]>> \in Seq(S)
  OBVIOUS
<1>4. <<>> \o <<s[m]>> = <<s[m]>>
  BY <1>3, ConcatEmptySeq
<1> QED BY <1>1, <1>2, <1>4

\* What a read returns and keeps makes up for what it took.
LEMMA Returning ==
    ASSUME TerminalInv, tt_typing \in Seq(TypeChars), NEW n \in 0..Len(tt_typing),
           NEW data \in Seq(CharSet), NEW next \in Ahead, Returns(data, next, n),
           convert_csi(data) \o KeptOf(next) = Kept \o SubSeq(tt_typing, 1, n)
    PROVE  TerminalInv'
<1> DEFINE took == SubSeq(tt_typing, 1, n)
<1>1. /\ tt_got' = tt_got \o data /\ tt_next' = next
      /\ tt_taken' = tt_taken \o took
      /\ tt_typing' = SubSeq(tt_typing, n + 1, Len(tt_typing))
  BY DEF Returns
<1>2. took \in Seq(TypeChars) /\ tt_typing' \in Seq(TypeChars)
  BY <1>1
<1>3. tt_got \in Seq(CharSet) /\ tt_taken \in Seq(TypeChars) /\ tt_next \in Ahead
  BY DEF TerminalInv
<1>4. tt_got' \in Seq(CharSet) /\ tt_taken' \in Seq(TypeChars)
  BY <1>1, <1>2, <1>3
<1>5. convert_csi(tt_got') = convert_csi(tt_got) \o convert_csi(data)
  BY <1>1, <1>3, CsiConcat
<1> HIDE DEF took
<1> DEFINE g == convert_csi(tt_got)
           d == convert_csi(data)
           k == KeptOf(tt_next)
           l == KeptOf(next)
<1>6. g \in Seq(CharSet) /\ d \in Seq(CharSet) /\ k \in Seq(CharSet) /\ l \in Seq(CharSet) /\ took \in Seq(CharSet)
  BY <1>2, <1>3, ConvertTypes, PlainChars
<1>7. Kept = k
  BY DEF Kept, KeptOf
<1>8. Kept' = l
  BY <1>1 DEF Kept, KeptOf
<1>9. g \o k = tt_taken
  BY <1>7 DEF TerminalInv, TerminalLossless
<1>10. d \o l = k \o took
  BY <1>7 DEF took
<1>11. convert_csi(tt_got') \o Kept' = (g \o d) \o l
  BY <1>5, <1>8
<1> HIDE DEF g, d, k, l
<1>12. (g \o d) \o l = (g \o k) \o took
  <2>1. (g \o d) \o l = g \o (d \o l)
    BY <1>6, CharsAssociate, SMTT(30)
  <2>2. (g \o k) \o took = g \o (k \o took)
    BY <1>6, CharsAssociate, SMTT(30)
  <2> QED BY <2>1, <2>2, <1>10
<1>13. TerminalLossless'
  BY <1>1, <1>9, <1>11, <1>12 DEF TerminalLossless
<1> QED BY <1>1, <1>2, <1>4, <1>13 DEF TerminalInv

\* read() takes no more than was typed, and all that it takes.
LEMMA TerminalReads ==
    ASSUME TerminalInv, NEW size \in ReadSizes, NEW k \in 0..size, NEW late \in BOOLEAN,
           TerminalRead(size, k, late)
    PROVE  TerminalInv'
<1> DEFINE left == IF tt_next = None THEN size ELSE size - 1
           took == SubSeq(tt_typing, 1, k)
           text == with_kept(took)
           data == convert_esc(text)
           ahead == SubSeq(tt_typing, k + 1, Min({k + 1, Len(tt_typing)}))
<1>1. tt_typing \in Seq(TypeChars) /\ tt_next \in Ahead
  BY DEF TerminalInv, TerminalRead
<1>2. Len(tt_typing) \in Nat /\ size \in Nat \ {0} /\ left \in Nat /\ k \in Nat
  BY <1>1, TerminalAssumption
<1>3. Kept = KeptOf(tt_next) /\ Kept \in Seq(TypeChars) /\ Kept \in Seq(CharSet)
  BY <1>1, PlainChars DEF Kept, KeptOf
<1>4. None \in Ahead /\ KeptOf(None) = <<>>
  BY DEF Ahead, KeptOf
<1>5. convert_csi(Kept) = Kept
  BY <1>3, PlainChars, CsiPlain
<1>6. CASE tt_next # None /\ size = 1
  <2>1. Returns(tt_next, None, 0) /\ Kept = tt_next
    BY <1>6 DEF TerminalRead, Kept
  <2>2. 0 \in 0..Len(tt_typing) /\ SubSeq(tt_typing, 1, 0) = <<>>
    BY <1>2
  <2>3. convert_csi(Kept) \o <<>> = Kept \o <<>>
    BY <1>5
  <2> QED BY <1>1, <1>3, <1>4, <2>1, <2>2, <2>3, Returning
<1>7. CASE ~(tt_next # None /\ size = 1)
  <2>1. /\ k <= Min({left, Len(tt_typing)}) /\ (k = 0 => tt_typing = <<>>)
        /\ IF k = 0 THEN ~late /\ Returns(Kept, None, 0)
           ELSE IF Last(data) # "esc" \/ late THEN Returns(data, None, k)
           ELSE IF ahead = <<"[">> THEN Returns(Front(data) \o <<"csi">>, None, k + 1)
           ELSE Returns(data, ahead, k + Len(ahead))
    BY <1>7 DEF TerminalRead
  <2>2. k \in 0..Len(tt_typing)
    <3> HIDE DEF left
    <3>1. Min({left, Len(tt_typing)}) <= Len(tt_typing)
      BY <1>2, MinTwo
    <3>2. Min({left, Len(tt_typing)}) \in Int
      BY <1>2, MinTwo
    <3> QED BY <1>2, <2>1, <3>1, <3>2
  <2>3. CASE k = 0
    <3>1. Returns(Kept, None, 0)
      BY <2>1, <2>3
    <3>2. 0 \in 0..Len(tt_typing) /\ SubSeq(tt_typing, 1, 0) = <<>>
      BY <1>2
    <3>3. convert_csi(Kept) \o <<>> = Kept \o <<>>
      BY <1>5
    <3> QED BY <1>1, <1>3, <1>4, <3>1, <3>2, <3>3, Returning
  <2>4. CASE k # 0
    <3>1. took \in Seq(TypeChars) /\ Len(took) = k
      BY <1>1, <2>2
    <3>2. text = Kept \o took
      BY DEF with_kept
    <3> HIDE DEF took
    <3>3. text \in Seq(TypeChars) /\ Len(text) >= 1
      BY <1>3, <3>1, <3>2, <2>2, <2>4
    <3> HIDE DEF text
    <3>4. data \in Seq(CharSet) /\ convert_csi(data) = text
      BY <3>3, PlainChars, ConvertTypes, EscBack
    <3> HIDE DEF data
    <3>5. CASE Last(data) # "esc" \/ late
      <4>1. Returns(data, None, k)
        BY <2>1, <2>4, <3>5
      <4>2. convert_csi(data) \o <<>> = Kept \o took
        BY <3>2, <3>3, <3>4
      <4> QED BY <1>1, <1>4, <2>2, <3>4, <4>1, <4>2, Returning DEF took
    <3>6. CASE ~(Last(data) # "esc" \/ late)
      <4>1. /\ ahead \in Seq(TypeChars) /\ ahead \in Ahead /\ ahead # None
            /\ k + Len(ahead) \in 0..Len(tt_typing)
            /\ SubSeq(tt_typing, 1, k + Len(ahead)) = took \o ahead
        <5>1. CASE k = Len(tt_typing)
          <6>1. Min({k + 1, Len(tt_typing)}) = k
            BY <5>1, <1>2, MinTwo
          <6>2. ahead = <<>>
            BY <6>1, <1>2
          <6>3. <<>> \in Ahead /\ <<>> # None
            BY DEF Ahead, None
          <6> HIDE DEF ahead
          <6>4. took \o <<>> = took /\ k + Len(<<>>) = k
            BY <3>1
          <6> QED BY <6>2, <6>3, <6>4, <2>2 DEF took
        <5>2. CASE k # Len(tt_typing)
          <6>1. Min({k + 1, Len(tt_typing)}) = k + 1 /\ k + 1 \in 1..Len(tt_typing)
            BY <5>2, <2>2, <1>2, MinTwo
          <6>2. tt_typing[k + 1] \in TypeChars
            BY <6>1, <1>1
          <6>3. ahead = <<tt_typing[k + 1]>>
            <7>1. SubSeq(tt_typing, k + 1, k + 1) = <<tt_typing[k + 1]>>
              BY <6>1, <1>1, SubSeqOne
            <7> QED BY <6>1, <7>1
          <6> HIDE DEF ahead
          <6>4. ahead \in Seq(TypeChars) /\ ahead \in Ahead /\ Len(ahead) = 1
            BY <6>2, <6>3 DEF Ahead
          <6>5. ahead # None
            BY <6>4, PlainChars
          <6>6. SubSeq(tt_typing, 1, k + 1) = took \o <<tt_typing[k + 1]>>
            <7>1. SubSeq(tt_typing, 1, k + 1) = SubSeq(tt_typing, 1, (k + 1) - 1) \o <<tt_typing[k + 1]>>
              <8>1. 1 \in 1..Len(tt_typing) /\ k + 1 \in 1..Len(tt_typing)
                BY <6>1, <1>2
              <8> QED BY <1>1, <8>1, SubSeqRecursiveSecond
            <7> QED BY <7>1, <1>2 DEF took
          <6> QED BY <6>1, <6>3, <6>4, <6>5, <6>6, <1>2
        <5> QED BY <5>1, <5>2
      <4> HIDE DEF ahead
      <4>2. ahead \in Seq(CharSet) /\ took \in Seq(CharSet) /\ text \in Seq(CharSet)
        BY <3>1, <3>3, <4>1, PlainChars
      <4>3. text \o ahead = Kept \o (took \o ahead)
        BY <1>3, <3>2, <4>2, ConcatAssociative
      <4>4. CASE ahead = <<"[">>
        <5> DEFINE q == Front(data)
                   out == q \o <<"csi">>
        <5>1. Returns(out, None, k + 1)
          BY <2>1, <2>4, <3>6, <4>4
        <5>2. data # <<>>
          BY <3>3, <3>4, ConvertEmpty
        <5>3. q \in Seq(CharSet) /\ data = Append(q, "esc")
          BY <3>4, <3>6, <5>2 DEF Front, Last
        <5> HIDE DEF q
        <5>4. "esc" \in CharSet /\ "csi" \in CharSet /\ out = Append(q, "csi") /\ out \in Seq(CharSet)
          BY <5>3 DEF CharSet
        <5>5. text = convert_csi(q) \o <<"esc">>
          BY <3>4, <5>3, <5>4, CsiAppend DEF Code
        <5>6. convert_csi(out) = convert_csi(q) \o <<"esc", "[">>
          BY <5>3, <5>4, CsiAppend DEF Code
        <5>7. convert_csi(out) = text \o ahead
          <6>1. \A v \in Seq(CharSet) : (v \o <<"esc">>) \o <<"[">> = v \o <<"esc", "[">>
            BY DEF CharSet
          <6>2. convert_csi(q) \in Seq(CharSet)
            BY <5>3, ConvertTypes
          <6> QED BY <5>5, <5>6, <6>1, <6>2, <4>4
        <5> HIDE DEF out
        <5>8. convert_csi(out) \o <<>> = Kept \o SubSeq(tt_typing, 1, k + 1)
          <6>1. Len(ahead) = 1
            BY <4>4
          <6>2. SubSeq(tt_typing, 1, k + 1) = took \o ahead
            BY <6>1, <4>1
          <6>3. (text \o ahead) \o <<>> = text \o ahead
            BY <4>2
          <6> QED BY <5>7, <6>2, <6>3, <4>3
        <5>9. k + 1 \in 0..Len(tt_typing)
          BY <4>1, <4>4
        <5> QED BY <1>1, <1>4, <5>1, <5>4, <5>8, <5>9, Returning
      <4>5. CASE ahead # <<"[">>
        <5>1. Returns(data, ahead, k + Len(ahead))
          BY <2>1, <2>4, <3>6, <4>5
        <5>2. KeptOf(ahead) = ahead
          BY <4>1 DEF KeptOf
        <5>3. convert_csi(data) \o KeptOf(ahead) = Kept \o SubSeq(tt_typing, 1, k + Len(ahead))
          BY <3>4, <4>1, <4>3, <5>2
        <5> QED BY <1>1, <3>4, <4>1, <5>1, <5>3, Returning
      <4> QED BY <4>4, <4>5
    <3> QED BY <3>5, <3>6
  <2> QED BY <2>3, <2>4
<1> QED BY <1>6, <1>7

\* Nothing was typed yet.
LEMMA TerminalStarts == TerminalInit => TerminalInv
<1> SUFFICES ASSUME TerminalInit PROVE TerminalInv
  OBVIOUS
<1>1. tt_typing = None /\ tt_next = None /\ tt_taken = <<>> /\ tt_got = <<>>
  BY DEF TerminalInit
<1>2. None \in Ahead /\ <<>> \in Seq(CharSet) /\ <<>> \in Seq(TypeChars)
  BY DEF Ahead
<1>3. TerminalLossless
  BY <1>1, ConvertEmpty DEF TerminalLossless, Kept
<1> QED BY <1>1, <1>2, <1>3 DEF TerminalInv

\* The user types, and the program reads as it likes.
LEMMA TerminalSteps == TerminalInv /\ TerminalNext => TerminalInv'
<1> SUFFICES ASSUME TerminalInv, TerminalNext PROVE TerminalInv'
  OBVIOUS
<1>1. CASE StartTyping
  <2>1. tt_typing' \in Seq(TypeChars)
    <3>1. PICK n \in 1..MaxTyped : tt_typing' \in [1..n -> TypeChars]
      BY <1>1 DEF StartTyping
    <3> QED BY <3>1, TerminalAssumption
  <2> QED BY <1>1, <2>1 DEF StartTyping, TerminalInv, TerminalLossless, Kept
<1>2. ASSUME NEW size \in ReadSizes, NEW late \in BOOLEAN, NEW k \in 0..size, TerminalRead(size, k, late)
      PROVE  TerminalInv'
  BY <1>2, TerminalReads
<1> QED BY <1>1, <1>2 DEF TerminalNext

\* The handles' steps leave the terminal as it is.
LEMMA TerminalRest == TerminalInv /\ UNCHANGED tt_vars => TerminalInv'
<1> SUFFICES ASSUME TerminalInv, UNCHANGED tt_vars PROVE TerminalInv'
  OBVIOUS
<1>1. tt_typing' = tt_typing /\ tt_next' = tt_next /\ tt_taken' = tt_taken /\ tt_got' = tt_got
  BY DEF tt_vars
<1> QED BY <1>1 DEF TerminalInv, TerminalLossless, Kept

-----------------------------------------------------------------------------
(* Files and handles.                                                      *)

Modes == {"cooked", "raw"}
FileHandles == [obj : {"stdin", "stdout", "file", "nil"}, name : FileNames \cup {"stdin", "stdout", "nil"},
                need_close : BOOLEAN, writable : BOOLEAN, pos : Nat, unch : Seq(Nat), saved : Modes]
HostEntries == [data : Seq(Nat), writable : BOOLEAN]
Replies == [no : Nat, res : Nat \cup {-1, "action_not_known", "bad_number"}]

DataIn(disk, h) == IF h.obj = "file" THEN disk[h.name].data ELSE <<>>
DiskGood(disk) ==
    /\ disk \in [DOMAIN disk -> HostEntries]
    /\ \A n \in DOMAIN disk : Len(disk[n].data) <= MaxData

\* The program is at v: the characters that were put back are those from there on to
\* where the handle stands.
Positioned(h, d, v) ==
    /\ h.pos <= Len(d)
    /\ v # Unknown => v \in 0..h.pos /\ h.unch = SubSeq(d, v + 1, h.pos)
HandleGood(h, disk, v) ==
    /\ h \in FileHandles
    /\ Positioned(h, DataIn(disk, h), v)
    /\ h.obj \in {"stdin", "stdout"} => ~h.need_close
    /\ IF h.obj = "file" THEN h.name \in DOMAIN disk ELSE v = Unknown

\* Where a handle is, of which a program may keep no count.
At(view, a) == IF a \in DOMAIN view THEN view[a] ELSE Unknown

\* A program opens a file once.
TableGood(fh, disk, view) ==
    /\ DOMAIN fh \subseteq FhAddrs
    /\ \A a \in DOMAIN fh : HandleGood(fh[a], disk, At(view, a))
    /\ \A a \in DOMAIN fh : fh[a].obj = "file" => a \in DOMAIN view
    /\ \A a, b \in DOMAIN fh : fh[a].obj = "file" /\ fh[b].obj = "file" /\ fh[a].name = fh[b].name => a = b

StdGood ==
    /\ StdHandles \subseteq FhAddrs
    /\ DOMAIN fm_fh = Own \cup StdHandles /\ Own \cap StdHandles = {}
    /\ fm_fh[fm_std.out].saved = "cooked"
    /\ fm_closed = {}
    /\ {fm_cis, fm_cos} \subseteq Usable \cup {0}
PacketsGood ==
    fm_state # "raised" =>
        /\ fm_sent \in Nat /\ fm_replies \in Seq(Replies)
        /\ Len(fm_replies) = fm_sent /\ \A i \in 1..Len(fm_replies) : fm_replies[i].no = i

FilesInv ==
    /\ DiskGood(fm_disk)
    /\ TableGood(fm_fh, fm_disk, fm_view)
    /\ fm_tty \in Modes
    /\ fm_state = "run" => StdGood
    /\ PacketsGood
    /\ TtyRestored

\* A handle that moves, and writes to its own file at most, leaves the others where they are.
LEMMA HandleMoves ==
    ASSUME NEW fh, NEW disk, NEW view, NEW disk2, NEW a \in DOMAIN fh, NEW h, NEW v,
           TableGood(fh, disk, view),
           h.obj = fh[a].obj, h.name = fh[a].name,
           DOMAIN disk2 = DOMAIN disk,
           \A n \in DOMAIN disk : (fh[a].obj = "file" /\ n = fh[a].name) \/ disk2[n].data = disk[n].data,
           HandleGood(h, disk2, IF a \in DOMAIN view THEN v ELSE Unknown)
    PROVE  TableGood([fh EXCEPT ![a] = h], disk2, IF a \in DOMAIN view THEN [view EXCEPT ![a] = v] ELSE view)
<1> DEFINE fh2 == [fh EXCEPT ![a] = h]
           view2 == IF a \in DOMAIN view THEN [view EXCEPT ![a] = v] ELSE view
<1>1. DOMAIN fh2 = DOMAIN fh /\ DOMAIN view2 = DOMAIN view
  OBVIOUS
<1>2. fh2[a] = h /\ At(view2, a) = IF a \in DOMAIN view THEN v ELSE Unknown
  BY DEF At
<1>3. \A b \in DOMAIN fh : b # a => fh2[b] = fh[b] /\ At(view2, b) = At(view, b)
  BY DEF At
<1>4. \A b \in DOMAIN fh : fh2[b].obj = fh[b].obj /\ fh2[b].name = fh[b].name
  BY <1>2, <1>3
<1> HIDE DEF fh2, view2
<1>5. ASSUME NEW b \in DOMAIN fh PROVE HandleGood(fh2[b], disk2, At(view2, b))
  <2>1. CASE b = a
    BY <2>1, <1>2
  <2>2. CASE b # a
    <3>1. HandleGood(fh[b], disk, At(view, b))
      BY DEF TableGood
    <3>2. fh[b].obj = "file" => ~(fh[a].obj = "file" /\ fh[b].name = fh[a].name)
      BY <2>2 DEF TableGood
    <3>3. fh[b].obj = "file" => fh[b].name \in DOMAIN disk
      BY <3>1 DEF HandleGood
    <3>4. DataIn(disk2, fh[b]) = DataIn(disk, fh[b])
      BY <3>2, <3>3 DEF DataIn
    <3>5. HandleGood(fh[b], disk2, At(view, b))
      BY <3>1, <3>4 DEF HandleGood
    <3> QED BY <2>2, <3>5, <1>3
  <2> QED BY <2>1, <2>2
<1>6. \A b \in DOMAIN fh : fh2[b].obj = "file" => b \in DOMAIN view
  BY <1>4 DEF TableGood
<1>7. \A b, c \in DOMAIN fh : fh2[b].obj = "file" /\ fh2[c].obj = "file" /\ fh2[b].name = fh2[c].name => b = c
  BY <1>4 DEF TableGood
<1>8. TableGood(fh2, disk2, view2)
  BY <1>1, <1>5, <1>6, <1>7 DEF TableGood
<1> QED BY <1>8 DEF fh2, view2

\* An action on a handle in a state of the program.
LEMMA FilesMove ==
    ASSUME FilesInv, fm_state = "run", NEW a \in DOMAIN fm_fh, NEW h, NEW v,
           fm_fh' = [fm_fh EXCEPT ![a] = h], View(a, v),
           h.obj = fm_fh[a].obj, h.name = fm_fh[a].name, h.saved = fm_fh[a].saved,
           DOMAIN fm_disk' = DOMAIN fm_disk,
           \A n \in DOMAIN fm_disk : (fm_fh[a].obj = "file" /\ n = fm_fh[a].name) \/ fm_disk'[n].data = fm_disk[n].data,
           DiskGood(fm_disk'),
           HandleGood(h, fm_disk', IF a \in Own THEN v ELSE Unknown),
           UNCHANGED <<fm_std, fm_cis, fm_cos, fm_closed, fm_tty, fm_state>>, PacketsGood'
    PROVE  FilesInv'
<1>1. fm_view' = IF a \in DOMAIN fm_view THEN [fm_view EXCEPT ![a] = v] ELSE fm_view
  BY DEF View, Own
<1>2. TableGood(fm_fh, fm_disk, fm_view)
  BY DEF FilesInv
<1>3. TableGood(fm_fh', fm_disk', fm_view')
  BY <1>1, <1>2, HandleMoves DEF Own
<1>4. DOMAIN fm_fh' = DOMAIN fm_fh /\ Own' = Own /\ StdHandles' = StdHandles /\ Usable' = Usable
  BY <1>1 DEF Own, StdHandles, Usable
<1>5. \A b \in DOMAIN fm_fh : fm_fh'[b].saved = fm_fh[b].saved
  OBVIOUS
<1>6. StdGood
  BY DEF FilesInv
<1>7. StdGood'
  <2>1. fm_std.out \in DOMAIN fm_fh
    BY <1>6 DEF StdGood, StdHandles
  <2> QED BY <1>4, <1>5, <1>6, <2>1 DEF StdGood
<1> QED BY <1>3, <1>7 DEF FilesInv, TtyRestored

\* Nothing of the handles changes.
LEMMA FilesStay ==
    ASSUME FilesInv, fm_state = "run", UNCHANGED <<fm_fh, fm_view, fm_disk, fm_std, fm_closed, fm_state>>,
           fm_tty' \in Modes, {fm_cis', fm_cos'} \subseteq Usable \cup {0}, PacketsGood'
    PROVE  FilesInv'
<1>1. Own' = Own /\ StdHandles' = StdHandles /\ Usable' = Usable
  BY DEF Own, StdHandles, Usable
<1>2. StdGood'
  BY <1>1 DEF FilesInv, StdGood
<1>3. TableGood(fm_fh', fm_disk', fm_view') /\ DiskGood(fm_disk')
  BY DEF FilesInv
<1> QED BY <1>2, <1>3 DEF FilesInv, TtyRestored

\* An exception ends it.
LEMMA FilesRaise ==
    ASSUME FilesInv, FhRaise PROVE FilesInv'
<1>1. TableGood(fm_fh', fm_disk', fm_view') /\ DiskGood(fm_disk')
  BY DEF FilesInv, FhRaise
<1> QED BY <1>1 DEF FilesInv, FhRaise, TtyRestored, PacketsGood

-----------------------------------------------------------------------------
(* What single calls do to a handle.                                       *)

SameFile(g, h) == g.obj = h.obj /\ g.name = h.name /\ g.saved = h.saved /\ g.need_close = h.need_close /\ g.writable = h.writable
\* A count that goes on by n, where the program keeps one.
Shifted(v, n) == IF v # Unknown THEN v + n ELSE Unknown

\* What a good handle says of the file behind it.
LEMMA ContentFacts ==
    ASSUME DiskGood(fm_disk), NEW h, NEW v, HandleGood(h, fm_disk, v)
    PROVE  /\ Content(h) = DataIn(fm_disk, h)
           /\ Content(h) \in Seq(Nat) /\ Len(Content(h)) \in Nat /\ Len(Content(h)) <= MaxData
           /\ h.pos \in 0..Len(Content(h)) /\ h.unch \in Seq(Nat) /\ h \in FileHandles
           /\ v # Unknown => /\ v \in 0..h.pos /\ h.unch = SubSeq(Content(h), v + 1, h.pos)
                            /\ (h.unch = <<>> <=> v = h.pos) /\ h.obj = "file"
           /\ v \in Nat \cup {Unknown}
<1> DEFINE d == Content(h)
<1>1. d = DataIn(fm_disk, h)
  BY DEF Content, DataIn
<1>2. d \in Seq(Nat) /\ Len(d) <= MaxData
  <2>1. CASE h.obj = "file"
    <3>1. h.name \in DOMAIN fm_disk
      BY <2>1 DEF HandleGood
    <3>2. fm_disk[h.name] \in HostEntries /\ Len(fm_disk[h.name].data) <= MaxData
      BY <3>1 DEF DiskGood
    <3> QED BY <2>1, <3>2 DEF Content, HostEntries
  <2>2. CASE h.obj # "file"
    <3>1. d = <<>>
      BY <2>2 DEF Content
    <3> QED BY <3>1, FilesAssumption
  <2> QED BY <2>1, <2>2
<1>3. h \in FileHandles /\ h.pos \in Nat /\ h.unch \in Seq(Nat)
  BY DEF HandleGood, FileHandles
<1>4. Positioned(h, d, v)
  BY <1>1 DEF HandleGood
<1> HIDE DEF d
<1>5. Len(d) \in Nat /\ h.pos \in 0..Len(d)
  BY <1>2, <1>3, <1>4 DEF Positioned
<1>6. ASSUME v # Unknown
      PROVE  /\ v \in 0..h.pos /\ h.unch = SubSeq(d, v + 1, h.pos)
             /\ (h.unch = <<>> <=> v = h.pos) /\ h.obj = "file"
  <2>1. v \in 0..h.pos /\ h.unch = SubSeq(d, v + 1, h.pos)
    BY <1>4, <1>6 DEF Positioned
  <2>2. Len(h.unch) = h.pos - v
    BY <2>1, <1>2, <1>5, SMTT(30)
  <2>3. h.obj = "file"
    BY <1>6 DEF HandleGood
  <2>4. h.unch = <<>> <=> h.pos - v = 0
    BY <2>2, <1>3
  <2>5. h.unch = <<>> <=> v = h.pos
    BY <2>4, <2>1, <1>3
  <2> QED BY <2>1, <2>3, <2>5
<1>7. v \in Nat \cup {Unknown}
  BY <1>6, <1>3
<1> QED BY <1>1, <1>2, <1>3, <1>5, <1>6, <1>7 DEF d

\* The handle at p, with u put back.
Placed(h, p, u) == [h EXCEPT !.pos = p, !.unch = u]
\* A handle is placed without becoming another one.
LEMMA PlacedFacts ==
    ASSUME NEW h \in FileHandles, NEW p \in Nat, NEW u \in Seq(Nat)
    PROVE  Placed(h, p, u).pos = p /\ Placed(h, p, u).unch = u /\ SameFile(Placed(h, p, u), h)
BY DEF Placed, FileHandles, SameFile

\* A handle with another position, and nothing or other characters put back.
LEMMA HandleAt ==
    ASSUME NEW disk, NEW h, NEW v, HandleGood(h, disk, v), NEW p \in Nat, NEW u \in Seq(Nat), NEW w,
           Positioned(Placed(h, p, u), DataIn(disk, h), w), h.obj # "file" => w = Unknown
    PROVE  HandleGood(Placed(h, p, u), disk, w) /\ SameFile(Placed(h, p, u), h)
<1> DEFINE g == Placed(h, p, u)
<1>1. h \in FileHandles
  BY DEF HandleGood
<1>2. g \in FileHandles /\ SameFile(g, h)
  BY <1>1 DEF FileHandles, SameFile, Placed
<1>3. DataIn(disk, g) = DataIn(disk, h)
  BY <1>2 DEF DataIn, SameFile
<1> QED BY <1>2, <1>3 DEF HandleGood, SameFile

\* getc() gives what is there and goes on by a character, or stays.
LEMMA GetcMoves ==
    ASSUME DiskGood(fm_disk), NEW h, NEW v, HandleGood(h, fm_disk, v), NEW typed \in {NewLine, EofCh, ErrCh}
    PROVE  /\ getc(h, typed).c \in Int
           /\ SameFile(getc(h, typed).h, h)
           /\ HandleGood(getc(h, typed).h, fm_disk, Shifted(v, IF getc(h, typed).c >= 0 THEN 1 ELSE 0))
<1> DEFINE d == Content(h)
           g == getc(h, typed)
           w == Shifted(v, IF g.c >= 0 THEN 1 ELSE 0)
<1>1. /\ d = DataIn(fm_disk, h)
      /\ d \in Seq(Nat) /\ Len(d) \in Nat
      /\ h.pos \in 0..Len(d) /\ h.unch \in Seq(Nat) /\ h \in FileHandles
      /\ v # Unknown => /\ v \in 0..h.pos /\ h.unch = SubSeq(d, v + 1, h.pos)
                       /\ (h.unch = <<>> <=> v = h.pos) /\ h.obj = "file"
      /\ v \in Nat \cup {Unknown}
  BY ContentFacts
<1>2. typed \in Int /\ EofCh = -2 /\ ErrCh = -1 /\ Unknown = -1
  BY FilesAssumption DEF EofCh, ErrCh, Unknown
<1>3. SameFile(h, h)
  BY DEF SameFile
<1>01. h.obj # "file" => w = Unknown
  BY <1>1 DEF Shifted
<1>02. h.pos \in Nat
  BY <1>1
<1> HIDE DEF d
<1>4. CASE h.unch # <<>>
  <2> DEFINE u == Tail(h.unch)
             k == [h EXCEPT !.unch = u]
  <2>1. g.c = Head(h.unch) /\ g.h = k
    BY <1>4 DEF getc
  <2>2. Head(h.unch) \in Nat /\ u \in Seq(Nat)
    BY <1>4, <1>1
  <2>3. k = Placed(h, h.pos, u) /\ k.pos = h.pos /\ k.unch = u
    BY <1>1 DEF FileHandles, Placed
  <2>4. w = IF v # Unknown THEN v + 1 ELSE Unknown
    BY <2>1, <2>2 DEF Shifted
  <2>5. ASSUME v # Unknown PROVE v + 1 \in 0..h.pos /\ u = SubSeq(d, (v + 1) + 1, h.pos)
    <3>1. v + 1 \in 1..Len(d) /\ h.pos \in (v + 1)..Len(d)
      BY <2>5, <1>1, <1>4, SMTT(30)
    <3>2. u = SubSeq(d, (v + 1) + 1, h.pos)
      BY <3>1, <2>5, <1>1, HeadTailOfSubSeq, ZenonT(30)
    <3>3. v + 1 \in 0..h.pos
      BY <3>1, <2>5, <1>1
    <3> QED BY <3>2, <3>3
  <2> HIDE DEF k, u, g, w
  <2>6. Positioned(k, d, w)
    BY <1>1, <2>3, <2>4, <2>5 DEF Positioned
  <2>7. HandleGood(k, fm_disk, w) /\ SameFile(k, h)
    <3>1. Positioned(k, DataIn(fm_disk, h), w)
      BY <2>6, <1>1
    <3>2. h.pos \in Nat /\ h.pos + 1 \in Nat
      BY <1>02
    <3> QED BY <3>1, <3>2, <1>01, <2>2, <2>3, HandleAt
  <2> QED BY <2>1, <2>2, <2>7 DEF g, w
<1>5. CASE h.unch = <<>> /\ h.obj # "file"
  <2>1. g.h = h /\ g.c \in Int
    <3>1. h.obj \in {"stdin", "stdout", "file", "nil"}
      BY <1>1 DEF FileHandles
    <3> QED BY <3>1, <1>5, <1>2 DEF getc, IsTty
  <2>2. v = Unknown /\ w = Unknown
    BY <1>1, <1>5, <1>01
  <2> HIDE DEF g, w
  <2> QED BY <2>1, <2>2, <1>3 DEF g, w
<1>6. CASE h.unch = <<>> /\ h.obj = "file" /\ h.pos >= Len(d)
  <2>1. g.h = h /\ g.c = EofCh
    BY <1>6 DEF getc, IsTty, d
  <2>2. w = v
    BY <2>1, <1>1, <1>2 DEF Shifted
  <2> HIDE DEF g, w
  <2> QED BY <2>1, <2>2, <1>2, <1>3 DEF g, w
<1>7. CASE h.unch = <<>> /\ h.obj = "file" /\ ~(h.pos >= Len(d))
  <2> DEFINE k == [h EXCEPT !.pos = h.pos + 1]
  <2>1. g.c = d[h.pos + 1] /\ g.h = k
    BY <1>7 DEF getc, IsTty, d
  <2>2. h.pos + 1 \in 1..Len(d) /\ d[h.pos + 1] \in Nat /\ <<>> \in Seq(Nat)
    BY <1>7, <1>1
  <2>3. k = Placed(h, h.pos + 1, <<>>) /\ k.pos = h.pos + 1 /\ k.unch = <<>>
    BY <1>1, <1>7 DEF FileHandles, Placed
  <2>4. w = IF v # Unknown THEN v + 1 ELSE Unknown
    BY <2>1, <2>2 DEF Shifted
  <2>5. ASSUME v # Unknown PROVE v + 1 \in 0..(h.pos + 1) /\ <<>> = SubSeq(d, (v + 1) + 1, h.pos + 1)
    BY <2>5, <1>1, <1>7
  <2> HIDE DEF k, g, w
  <2>6. Positioned(k, d, w)
    <3>1. k.pos <= Len(d)
      BY <2>2, <2>3
    <3>2. w # Unknown => w \in 0..k.pos /\ k.unch = SubSeq(d, w + 1, k.pos)
      BY <2>3, <2>4, <2>5
    <3> QED BY <3>1, <3>2 DEF Positioned
  <2>7. HandleGood(k, fm_disk, w) /\ SameFile(k, h)
    <3>1. Positioned(k, DataIn(fm_disk, h), w)
      BY <2>6, <1>1
    <3>2. h.pos \in Nat /\ h.pos + 1 \in Nat
      BY <1>02
    <3> QED BY <3>1, <3>2, <1>01, <2>2, <2>3, HandleAt
  <2> QED BY <2>1, <2>2, <2>7 DEF g, w
<1> QED BY <1>4, <1>5, <1>6, <1>7

\* Several calls leave a handle on its file.
LEMMA SameFileTrans ==
    ASSUME NEW f, NEW g, NEW h, SameFile(f, g), SameFile(g, h) PROVE SameFile(f, h)
BY DEF SameFile

\* gets() goes on by as many characters as it gets.
LEMMA GetsMoves ==
    ASSUME DiskGood(fm_disk), NEW h, NEW v, HandleGood(h, fm_disk, v), NEW n \in Nat
    PROVE  /\ gets(h, n).got \in Nat /\ SameFile(gets(h, n).h, h)
           /\ HandleGood(gets(h, n).h, fm_disk, Shifted(v, gets(h, n).got))
<1> DEFINE A == {s \in [h : FileHandles, got : Nat, stop : BOOLEAN] :
                   SameFile(s.h, h) /\ HandleGood(s.h, fm_disk, Shifted(v, s.got))}
           s0 == [h |-> h, got |-> 0, stop |-> FALSE]
           st == [x \in (1..n) \X A |-> gets_step(x[2])]
           Is(r) == r = [i \in 0..n |-> IF i = 0 THEN s0 ELSE gets_step(r[i - 1])]
           R == CHOOSE r : Is(r)
<1>01. v \in Nat \cup {Unknown}
  BY ContentFacts
<1>1. s0 \in A
  <2>1. SameFile(h, h) /\ h \in FileHandles
    BY DEF SameFile, HandleGood
  <2>2. Shifted(v, 0) = v
    BY <1>01 DEF Shifted
  <2> QED BY <2>1, <2>2
<1>2. \A s \in A : gets_step(s) \in A
  <2> SUFFICES ASSUME NEW s \in A, ~s.stop PROVE gets_step(s) \in A
    BY DEF gets_step
  <2> DEFINE w == Shifted(v, s.got)
             g == getc(s.h, EofCh)
             k == IF g.c >= 0 THEN s.got + 1 ELSE s.got
  <2>1. s.h \in FileHandles /\ s.got \in Nat /\ SameFile(s.h, h) /\ HandleGood(s.h, fm_disk, w)
    OBVIOUS
  <2>2. /\ g.c \in Int
        /\ SameFile(g.h, s.h)
        /\ HandleGood(g.h, fm_disk, Shifted(w, IF g.c >= 0 THEN 1 ELSE 0))
    <3> HIDE DEF w
    <3> QED BY <2>1, GetcMoves
  <2>3. gets_step(s) = [h |-> g.h, got |-> k, stop |-> g.c < 0 \/ g.c = NewLine]
    BY DEF gets_step
  <2>4. Shifted(w, IF g.c >= 0 THEN 1 ELSE 0) = Shifted(v, k)
    BY <2>1, <2>2, <1>01 DEF Shifted, Unknown
  <2>5. g.h \in FileHandles /\ SameFile(g.h, h)
    BY <2>1, <2>2, SameFileTrans DEF HandleGood
  <2> HIDE DEF g, w
  <2>6. k \in Nat /\ (g.c < 0 \/ g.c = NewLine) \in BOOLEAN
    BY <2>1, <2>2
  <2> HIDE DEF k
  <2>7. HandleGood(g.h, fm_disk, Shifted(v, k))
    BY <2>2, <2>4
  <2> QED BY <2>3, <2>5, <2>6, <2>7
<1> HIDE DEF A, s0
<1>3. st \in [(1..n) \X A -> A]
  BY <1>2
<1> HIDE DEF st
<1>4. PICK f : IsRecursive(f, n, A, s0, st)
  BY <1>1, <1>3, Recursion
<1>5. /\ f \in [0..n -> A] /\ f[0] = s0
      /\ \A i \in 1..n : f[i] = gets_step(f[i - 1])
  <2>1. /\ f \in [0..n -> A] /\ f[0] = s0
        /\ \A i \in 1..n : f[i] = st[<<i, f[i - 1]>>]
    BY <1>4 DEF IsRecursive
  <2>2. \A i \in 1..n : i - 1 \in 0..n
    OBVIOUS
  <2>3. \A i \in 1..n : <<i, f[i - 1]>> \in (1..n) \X A
    BY <2>1, <2>2
  <2> QED BY <2>1, <2>3 DEF st
<1>6. Is(f)
  BY <1>5
<1>7. Is(R)
  BY <1>6
<1>8. R[0] = s0
  <2>1. 0 \in 0..n
    OBVIOUS
  <2> QED BY <1>7, <2>1
<1>9. \A i \in 1..n : R[i] = gets_step(R[i - 1])
  <2>1. \A i \in 1..n : i \in 0..n /\ i # 0
    OBVIOUS
  <2> QED BY <1>7, <2>1
<1>10. gets(h, n) = R[n]
  BY DEF gets, s0
<1> HIDE DEF R
<1>11. Alike(R, f, n)
  BY <1>5, <1>8, <1>9 DEF Alike
<1>12. gets(h, n) \in A
  BY <1>5, <1>10, <1>11, RecursionOnce
<1> QED BY <1>12 DEF A

-----------------------------------------------------------------------------
(* The calls.                                                              *)

\* What the invariant says of a program that runs.
LEMMA Standing ==
    ASSUME FilesInv, fm_state = "run"
    PROVE  /\ DiskGood(fm_disk) /\ TableGood(fm_fh, fm_disk, fm_view) /\ StdGood /\ PacketsGood
           /\ Usable \subseteq DOMAIN fm_fh /\ StdHandles \subseteq DOMAIN fm_fh /\ Own \subseteq DOMAIN fm_fh
           /\ \A a \in DOMAIN fm_fh : HandleGood(fm_fh[a], fm_disk, At(fm_view, a))
           /\ \A a \in DOMAIN fm_fh : a \notin Own => At(fm_view, a) = Unknown
           /\ \A a \in Own : At(fm_view, a) = fm_view[a]
           /\ \A a \in DOMAIN fm_fh : fm_fh[a].obj = "file" => a \in Own
BY DEF FilesInv, TableGood, StdGood, Usable, Own, At

\* The queue of replies does not change.
LEMMA PacketsStay ==
    ASSUME PacketsGood, UNCHANGED <<fm_sent, fm_replies, fm_state>> PROVE PacketsGood'
BY DEF PacketsGood

\* A packet is answered.
LEMMA PacketReplied ==
    ASSUME PacketsGood, fm_state = "run", fm_state' = "run", NEW res \in Nat \cup {-1, "action_not_known", "bad_number"},
           reply_packet(res)
    PROVE  PacketsGood'
<1> DEFINE e == [no |-> fm_sent + 1, res |-> res]
<1>1. fm_replies' = Append(fm_replies, e) /\ fm_sent' = fm_sent + 1
  BY DEF reply_packet
<1>2. fm_sent \in Nat /\ fm_replies \in Seq(Replies) /\ Len(fm_replies) = fm_sent
      /\ \A i \in 1..Len(fm_replies) : fm_replies[i].no = i
  BY DEF PacketsGood
<1>3. e \in Replies /\ e.no = fm_sent + 1
  BY <1>2 DEF Replies
<1> HIDE DEF e
<1>4. /\ Append(fm_replies, e) \in Seq(Replies)
      /\ Len(Append(fm_replies, e)) = fm_sent + 1
      /\ \A i \in 1..fm_sent : Append(fm_replies, e)[i] = fm_replies[i]
      /\ Append(fm_replies, e)[fm_sent + 1] = e
  BY <1>2, <1>3
<1>5. \A i \in 1..(fm_sent + 1) : Append(fm_replies, e)[i].no = i
  <2> SUFFICES ASSUME NEW i \in 1..(fm_sent + 1) PROVE Append(fm_replies, e)[i].no = i
    OBVIOUS
  <2>1. CASE i = fm_sent + 1
    BY <2>1, <1>3, <1>4
  <2>2. CASE i # fm_sent + 1
    <3>1. i \in 1..fm_sent
      BY <2>2, <1>2
    <3> QED BY <3>1, <1>2, <1>4
  <2> QED BY <2>1, <2>2
<1> QED BY <1>1, <1>2, <1>4, <1>5 DEF PacketsGood

\* A call that moves one handle and leaves the disk alone.
LEMMA Moves ==
    ASSUME FilesInv, fm_state = "run", NEW a \in DOMAIN fm_fh, NEW h, NEW v,
           fm_fh' = [fm_fh EXCEPT ![a] = h], View(a, v), SameFile(h, fm_fh[a]),
           HandleGood(h, fm_disk, IF a \in Own THEN v ELSE Unknown), UNCHANGED fm_disk,
           UNCHANGED <<fm_std, fm_cis, fm_cos, fm_closed, fm_tty, fm_state>>, PacketsGood'
    PROVE  FilesInv'
<1>1. h.obj = fm_fh[a].obj /\ h.name = fm_fh[a].name /\ h.saved = fm_fh[a].saved
  BY DEF SameFile
<1>2. DiskGood(fm_disk') /\ HandleGood(h, fm_disk', IF a \in Own THEN v ELSE Unknown)
  BY DEF FilesInv
<1> QED BY <1>1, <1>2, FilesMove

\* One character, from a file, from what was put back or from the terminal.
LEMMA FGetCStep ==
    ASSUME FilesInv, NEW a, FGetC(a) PROVE FilesInv'
<1>1. PICK typed \in Typed(fm_fh[a]) :
         LET g == getc(fm_fh[a], typed)
         IN /\ FhCall /\ a \in Usable
            /\ fm_fh' = [fm_fh EXCEPT ![a] = g.h]
            /\ Moved(a, IF g.c >= 0 THEN 1 ELSE 0)
            /\ UNCHANGED fm_disk /\ FhKeep
  BY DEF FGetC
<1> DEFINE g == getc(fm_fh[a], typed)
           n == IF g.c >= 0 THEN 1 ELSE 0
           v == IF a \in Own /\ fm_view[a] # Unknown THEN fm_view[a] + n ELSE Unknown
<1>2. /\ fm_state = "run" /\ a \in Usable /\ fm_fh' = [fm_fh EXCEPT ![a] = g.h] /\ View(a, v)
      /\ UNCHANGED fm_disk /\ FhKeep
  BY <1>1 DEF FhCall, Moved
<1>3. typed \in {NewLine, EofCh, ErrCh}
  BY DEF Typed
<1>4. a \in DOMAIN fm_fh /\ DiskGood(fm_disk) /\ HandleGood(fm_fh[a], fm_disk, At(fm_view, a)) /\ PacketsGood
  BY <1>2, Standing
<1>5. SameFile(g.h, fm_fh[a]) /\ HandleGood(g.h, fm_disk, Shifted(At(fm_view, a), n))
  BY <1>3, <1>4, GetcMoves
<1>6. Shifted(At(fm_view, a), n) = IF a \in Own THEN v ELSE Unknown
  BY <1>2, <1>4, Standing DEF Shifted
<1>7. PacketsGood' /\ UNCHANGED <<fm_std, fm_cis, fm_cos, fm_closed, fm_tty, fm_state>>
  BY <1>2, <1>4, PacketsStay DEF FhKeep
<1> HIDE DEF g, n, v
<1>8. HandleGood(g.h, fm_disk, IF a \in Own THEN v ELSE Unknown)
  BY <1>5, <1>6
<1> QED BY <1>2, <1>4, <1>5, <1>7, <1>8, Moves

\* A line.
LEMMA FGetsStep ==
    ASSUME FilesInv, NEW a, NEW n \in Nat, FGets(a, n) PROVE FilesInv'
<1> DEFINE r == gets(fm_fh[a], n)
           v == IF a \in Own /\ fm_view[a] # Unknown THEN fm_view[a] + r.got ELSE Unknown
<1>2. /\ fm_state = "run" /\ a \in Usable /\ fm_fh' = [fm_fh EXCEPT ![a] = r.h] /\ View(a, v)
      /\ UNCHANGED fm_disk /\ FhKeep
  BY DEF FhCall, Moved, FGets
<1>4. a \in DOMAIN fm_fh /\ DiskGood(fm_disk) /\ HandleGood(fm_fh[a], fm_disk, At(fm_view, a)) /\ PacketsGood
  BY <1>2, Standing
<1>5. SameFile(r.h, fm_fh[a]) /\ HandleGood(r.h, fm_disk, Shifted(At(fm_view, a), r.got))
  BY <1>4, GetsMoves
<1>6. Shifted(At(fm_view, a), r.got) = IF a \in Own THEN v ELSE Unknown
  BY <1>2, <1>4, Standing DEF Shifted
<1>7. PacketsGood' /\ UNCHANGED <<fm_std, fm_cis, fm_cos, fm_closed, fm_tty, fm_state>>
  BY <1>2, <1>4, PacketsStay DEF FhKeep
<1> HIDE DEF r, v
<1>8. HandleGood(r.h, fm_disk, IF a \in Own THEN v ELSE Unknown)
  BY <1>5, <1>6
<1> QED BY <1>2, <1>4, <1>5, <1>7, <1>8, Moves

\* How much lies between two positions.
LEMMA SubSeqLen ==
    ASSUME NEW S, NEW s \in Seq(S), NEW p \in Nat, NEW m \in Nat, p <= m, m <= Len(s)
    PROVE  Len(SubSeq(s, p + 1, m)) = m - p
OBVIOUS

\* read() goes on by what it reads.
LEMMA ReadMoves ==
    ASSUME DiskGood(fm_disk), NEW h, NEW v, HandleGood(h, fm_disk, v), NEW n \in Nat
    PROVE  LET got == Len(ReadBytes(h, n))
               k == [h EXCEPT !.pos = h.pos + got]
           IN /\ got \in Nat /\ SameFile(k, h)
              /\ HandleGood(k, fm_disk, IF h.unch = <<>> THEN Shifted(v, got) ELSE Unknown)
<1> DEFINE d == Content(h)
           got == Len(ReadBytes(h, n))
           k == [h EXCEPT !.pos = h.pos + got]
           w == IF h.unch = <<>> THEN Shifted(v, got) ELSE Unknown
<1>1. /\ d = DataIn(fm_disk, h)
      /\ d \in Seq(Nat) /\ Len(d) \in Nat
      /\ h.pos \in 0..Len(d) /\ h.unch \in Seq(Nat) /\ h \in FileHandles
      /\ v # Unknown => /\ v \in 0..h.pos /\ h.unch = SubSeq(d, v + 1, h.pos)
                       /\ (h.unch = <<>> <=> v = h.pos) /\ h.obj = "file"
      /\ v \in Nat \cup {Unknown}
  BY ContentFacts
<1>2. got \in Nat /\ h.pos + got \in 0..Len(d)
  <2> DEFINE e == h.pos + n
             l == Len(d)
             m == Min({e, l})
  <2>0. e \in Int /\ l \in Int /\ e >= h.pos /\ l >= h.pos /\ h.pos \in Nat
    BY <1>1
  <2> HIDE DEF e, l
  <2>1. m = IF e <= l THEN e ELSE l
    BY <2>0, MinTwo
  <2>2. m \in h.pos..l
    BY <2>0, <2>1
  <2> USE DEF e, l
  <2> HIDE DEF m
  <2>3. got = Len(SubSeq(d, h.pos + 1, m))
    BY DEF ReadBytes, m
  <2> HIDE DEF d
  <2>4. Len(SubSeq(d, h.pos + 1, m)) = m - h.pos
    <3>1. m \in Nat /\ h.pos <= m /\ m <= Len(d)
      BY <2>0, <2>2
    <3> QED BY <1>1, <2>0, <3>1, SubSeqLen
  <2>5. got = m - h.pos
    BY <2>3, <2>4
  <2> HIDE DEF got
  <2> QED BY <1>1, <2>0, <2>2, <2>5, SMTT(30)
<1> HIDE DEF got, d
<1>3. h.pos + got \in Nat /\ k = Placed(h, h.pos + got, h.unch)
  <2>1. h.pos + got \in Nat
    BY <1>1, <1>2
  <2>2. k = Placed(h, h.pos + got, h.unch)
    BY <1>1 DEF Placed, FileHandles
  <2> QED BY <2>1, <2>2
<1>4. k.pos = h.pos + got /\ k.unch = h.unch /\ SameFile(k, h)
  BY <1>1, <1>3, PlacedFacts
<1>5. h.obj # "file" => w = Unknown
  BY <1>1 DEF Shifted
<1>6. w # Unknown => w = h.pos + got /\ h.unch = <<>>
  BY <1>1 DEF Shifted
<1>7. <<>> = SubSeq(d, (h.pos + got) + 1, h.pos + got)
  BY <1>1, <1>2, SMTT(30)
<1> HIDE DEF k, w
<1>8. Positioned(k, d, w)
  <2>1. k.pos <= Len(d) /\ k.pos \in Nat
    BY <1>1, <1>2, <1>4
  <2> DEFINE x == h.pos + got
  <2>2. k.pos = x /\ (w # Unknown => w = x /\ k.unch = <<>>) /\ <<>> = SubSeq(d, x + 1, x)
    BY <1>4, <1>6, <1>7
  <2> HIDE DEF x
  <2>3. w # Unknown => w \in 0..k.pos /\ k.unch = SubSeq(d, w + 1, k.pos)
    <3> SUFFICES ASSUME w # Unknown PROVE w \in 0..k.pos /\ k.unch = SubSeq(d, w + 1, k.pos)
      OBVIOUS
    <3>1. w = x /\ k.pos = x /\ k.unch = <<>>
      BY <2>2
    <3>2. SubSeq(d, w + 1, k.pos) = SubSeq(d, x + 1, x)
      BY <3>1, Zenon
    <3>3. w \in 0..k.pos
      BY <2>1, <3>1
    <3> QED BY <2>2, <3>1, <3>2, <3>3, Zenon
  <2> QED BY <2>1, <2>3 DEF Positioned
<1>9. HandleGood(k, fm_disk, w)
  BY <1>1, <1>3, <1>5, <1>8, HandleAt
<1> QED BY <1>2, <1>4, <1>9 DEF got, k, w

\* A block is read, by a call or by a packet.
LEMMA ReadingStep ==
    ASSUME FilesInv, NEW a, NEW n \in Nat, fm_state = "run", a \in Own, UNCHANGED fm_disk,
           fm_fh' = [fm_fh EXCEPT ![a].pos = @ + Len(ReadBytes(fm_fh[a], n))],
           View(a, IF fm_fh[a].unch = <<>> /\ fm_view[a] # Unknown THEN fm_view[a] + Len(ReadBytes(fm_fh[a], n)) ELSE Unknown),
           UNCHANGED <<fm_std, fm_cis, fm_cos, fm_closed, fm_tty, fm_state>>, PacketsGood'
    PROVE  FilesInv' /\ Len(ReadBytes(fm_fh[a], n)) \in Nat
<1> DEFINE h == fm_fh[a]
           got == Len(ReadBytes(h, n))
           k == [h EXCEPT !.pos = h.pos + got]
           v == IF h.unch = <<>> /\ fm_view[a] # Unknown THEN fm_view[a] + got ELSE Unknown
<1>1. a \in DOMAIN fm_fh /\ DiskGood(fm_disk) /\ HandleGood(h, fm_disk, At(fm_view, a)) /\ At(fm_view, a) = fm_view[a]
  BY Standing
<1>2. got \in Nat /\ SameFile(k, h) /\ HandleGood(k, fm_disk, IF h.unch = <<>> THEN Shifted(fm_view[a], got) ELSE Unknown)
  <2> HIDE DEF h
  <2> QED BY <1>1, ReadMoves
<1>3. (IF h.unch = <<>> THEN Shifted(fm_view[a], got) ELSE Unknown) = v
  BY DEF Shifted
<1>4. fm_fh' = [fm_fh EXCEPT ![a] = k] /\ View(a, v)
  OBVIOUS
<1> HIDE DEF k, v
<1>5. HandleGood(k, fm_disk, IF a \in Own THEN v ELSE Unknown)
  BY <1>2, <1>3
<1>6. FilesInv'
  BY <1>1, <1>2, <1>4, <1>5, Moves
<1> QED BY <1>2, <1>6

\* Read().
LEMMA ReadStep ==
    ASSUME FilesInv, NEW a, NEW n \in Nat, Read(a, n) PROVE FilesInv'
<1>1. fm_state = "run" /\ PacketsGood /\ FhKeep
  BY DEF FilesInv, Read, FhCall
<1>2. PacketsGood' /\ UNCHANGED <<fm_std, fm_cis, fm_cos, fm_closed, fm_tty, fm_state>>
  BY <1>1, PacketsStay DEF FhKeep
<1> QED BY <1>1, <1>2, ReadingStep DEF Read

\* What a write makes of the data of a file.
Over(d, p, s) == SubSeq(d, 1, p) \o s \o Rest(d, p + Len(s))
\* A write keeps the length of a file, or ends where the file now ends.
LEMMA OverFacts ==
    ASSUME NEW d \in Seq(Nat), NEW p \in 0..Len(d), NEW s \in Seq(Nat)
    PROVE  /\ Over(d, p, s) \in Seq(Nat)
           /\ Len(Over(d, p, s)) = IF p + Len(s) <= Len(d) THEN Len(d) ELSE p + Len(s)
<1> DEFINE q == p + Len(s)
           x == SubSeq(d, 1, p)
           y == SubSeq(d, q + 1, Len(d))
<1>1. Len(d) \in Nat /\ Len(s) \in Nat /\ q \in Nat /\ p \in Nat
  OBVIOUS
<1>2. x \in Seq(Nat) /\ Len(x) = p
  OBVIOUS
<1>3. y \in Seq(Nat) /\ Len(y) = IF q + 1 <= Len(d) THEN Len(d) - q ELSE 0
  BY <1>1
<1>4. Over(d, p, s) = x \o s \o y
  BY DEF Over, Rest
<1> HIDE DEF x, y
<1>5. x \o s \o y \in Seq(Nat) /\ Len(x \o s \o y) = (p + Len(s)) + Len(y)
  <2>1. x \o s \in Seq(Nat) /\ Len(x \o s) = p + Len(s)
    BY <1>2, ConcatProperties
  <2> QED BY <2>1, <1>3, ConcatProperties
<1>6. Len(Over(d, p, s)) = q + Len(y)
  BY <1>4, <1>5
<1> HIDE DEF q
<1>7. q + Len(y) = IF q <= Len(d) THEN Len(d) ELSE q
  BY <1>1, <1>3
<1> USE DEF q
<1> QED BY <1>4, <1>5, <1>6, <1>7

\* write() writes over and beyond the end, to the file of the handle only.
LEMMA WritingStep ==
    ASSUME FilesInv, fm_state = "run", NEW a \in DOMAIN fm_fh, NEW s \in Seq(Nat), fm_fh[a].pos + Len(s) <= MaxData,
           WriteTo(a, s), UNCHANGED <<fm_std, fm_cis, fm_cos, fm_closed, fm_tty, fm_state>>, PacketsGood'
    PROVE  FilesInv'
<1> DEFINE h == fm_fh[a]
           d == Content(h)
           p == h.pos
           nd == Over(d, p, s)
           k == [h EXCEPT !.pos = p + Len(s)]
           v == IF h.unch = <<>> /\ a \in Own /\ fm_view[a] # Unknown THEN fm_view[a] + Len(s) ELSE Unknown
           u == At(fm_view, a)
<1>0. /\ DiskGood(fm_disk) /\ HandleGood(h, fm_disk, u) /\ (h.obj = "file" => a \in Own)
      /\ (a \in Own => u = fm_view[a]) /\ StdGood
  BY Standing
<1>1. /\ d = DataIn(fm_disk, h)
      /\ d \in Seq(Nat) /\ Len(d) \in Nat /\ Len(d) <= MaxData
      /\ p \in 0..Len(d) /\ h.unch \in Seq(Nat) /\ h \in FileHandles
      /\ u # Unknown => /\ u \in 0..p /\ (h.unch = <<>> <=> u = p) /\ h.obj = "file"
      /\ u \in Nat \cup {Unknown}
  <2> HIDE DEF h, u
  <2> QED BY <1>0, ContentFacts DEF d, p
<1>2. CASE ~(h.obj = "file" /\ h.writable)
  <2>1. UNCHANGED <<fm_disk, fm_fh, fm_view>>
    BY <1>2 DEF WriteTo
  <2>2. {fm_cis', fm_cos'} \subseteq Usable \cup {0} /\ fm_tty' \in Modes
    BY <1>0 DEF StdGood, FilesInv
  <2> QED BY <2>1, <2>2, FilesStay
<1>3. CASE h.obj = "file" /\ h.writable
  <2>1. /\ fm_disk' = [fm_disk EXCEPT ![h.name].data = nd]
        /\ fm_fh' = [fm_fh EXCEPT ![a] = k] /\ View(a, v)
    BY <1>3 DEF WriteTo, Over
  <2>2. h.name \in DOMAIN fm_disk /\ a \in Own
    BY <1>0, <1>3 DEF HandleGood
  <2> HIDE DEF h, d, nd
  <2>3. nd \in Seq(Nat) /\ Len(nd) = IF p + Len(s) <= Len(d) THEN Len(d) ELSE p + Len(s)
    BY <1>1, OverFacts DEF nd
  <2>4. p + Len(s) \in 0..Len(nd) /\ Len(nd) <= MaxData /\ p + Len(s) \in Nat /\ Len(s) \in Nat
    BY <1>1, <2>3, SMTT(30) DEF h
  <2>5. DiskGood(fm_disk') /\ DOMAIN fm_disk' = DOMAIN fm_disk /\ fm_disk'[h.name].data = nd
        /\ \A n \in DOMAIN fm_disk : n # h.name => fm_disk'[n].data = fm_disk[n].data
    <3>1. DOMAIN fm_disk' = DOMAIN fm_disk
      BY <2>1
    <3>2. \A n \in DOMAIN fm_disk : n # h.name => fm_disk'[n] = fm_disk[n]
      BY <2>1
    <3>3. \A n \in DOMAIN fm_disk : fm_disk[n] \in HostEntries /\ Len(fm_disk[n].data) <= MaxData
      BY <1>0 DEF DiskGood
    <3>4. fm_disk'[h.name] = [fm_disk[h.name] EXCEPT !.data = nd]
      BY <2>1, <2>2
    <3>5. fm_disk'[h.name] \in HostEntries /\ fm_disk'[h.name].data = nd
      BY <2>2, <2>3, <3>3, <3>4 DEF HostEntries
    <3>6. \A n \in DOMAIN fm_disk' : fm_disk'[n] \in HostEntries /\ Len(fm_disk'[n].data) <= MaxData
      BY <3>1, <3>2, <3>3, <3>5, <2>4
    <3>7. fm_disk' = [n \in DOMAIN fm_disk' |-> fm_disk'[n]]
      BY <2>1
    <3>8. DiskGood(fm_disk')
      BY <3>6, <3>7 DEF DiskGood
    <3> QED BY <3>1, <3>2, <3>5, <3>8
  <2>6. k = Placed(h, p + Len(s), h.unch) /\ k.pos = p + Len(s) /\ k.unch = h.unch /\ SameFile(k, h) /\ k \in FileHandles
    BY <1>1, <2>4 DEF FileHandles, Placed, SameFile
  <2>7. v # Unknown => v = p + Len(s) /\ h.unch = <<>>
    BY <1>0, <1>1, <2>2
  <2>8. <<>> = SubSeq(nd, (p + Len(s)) + 1, p + Len(s))
    BY <2>3, <2>4
  <2> HIDE DEF k, v
  <2>9. Positioned(k, nd, v)
    <3>1. k.pos <= Len(nd) /\ k.pos \in Nat
      BY <2>3, <2>4, <2>6
    <3> DEFINE x == p + Len(s)
    <3>2. k.pos = x /\ (v # Unknown => v = x /\ k.unch = <<>>) /\ <<>> = SubSeq(nd, x + 1, x)
      BY <2>6, <2>7, <2>8
    <3> HIDE DEF x
    <3>3. v # Unknown => v \in 0..k.pos /\ k.unch = SubSeq(nd, v + 1, k.pos)
      <4> SUFFICES ASSUME v # Unknown PROVE v \in 0..k.pos /\ k.unch = SubSeq(nd, v + 1, k.pos)
        OBVIOUS
      <4>1. v = x /\ k.pos = x /\ k.unch = <<>>
        BY <3>2
      <4>2. SubSeq(nd, v + 1, k.pos) = SubSeq(nd, x + 1, x)
        BY <4>1, Zenon
      <4>3. v \in 0..k.pos
        BY <3>1, <4>1
      <4> QED BY <3>2, <4>1, <4>2, <4>3, Zenon
    <3> QED BY <3>1, <3>3 DEF Positioned
  <2>10. DataIn(fm_disk', k) = nd
    BY <1>3, <2>5, <2>6 DEF DataIn, SameFile
  <2>11. ~h.need_close \/ h.obj \notin {"stdin", "stdout"}
    BY <1>3
  <2>12. HandleGood(k, fm_disk', v)
    BY <1>3, <2>2, <2>5, <2>6, <2>9, <2>10 DEF HandleGood, SameFile
  <2>13. k.obj = h.obj /\ k.name = h.name /\ k.saved = h.saved
    BY <2>6 DEF SameFile
  <2> QED BY <1>3, <2>1, <2>2, <2>5, <2>12, <2>13, FilesMove DEF h
<1> QED BY <1>2, <1>3

\* What programs write are bytes.
LEMMA StringsFacts == \A s \in Strings : s \in Seq(Nat)
<1> DEFINE c == CHOOSE b \in FileBytes : TRUE
<1>1. c \in FileBytes
  BY FilesAssumption
<1>2. Strings = {<<b>> : b \in FileBytes} \cup {<<c, NewLine>>}
  BY DEF Strings
<1> HIDE DEF c
<1>3. \A b \in FileBytes : <<b>> \in Seq(Nat)
  BY FilesAssumption
<1>4. <<c, NewLine>> \in Seq(Nat)
  BY <1>1, FilesAssumption
<1> QED BY <1>2, <1>3, <1>4

\* Write(): no file object is closed, so that nothing raises.
LEMMA WriteStep ==
    ASSUME FilesInv, NEW a, NEW s \in Strings, Write(a, s) PROVE FilesInv'
<1>1. fm_state = "run" /\ a \in Usable /\ fm_fh[a].pos + Len(s) <= MaxData
  BY DEF Write, FhCall
<1>2. a \in DOMAIN fm_fh /\ StdGood /\ PacketsGood
  BY <1>1, Standing
<1>3. WriteTo(a, s) /\ FhKeep
  BY <1>2 DEF Write, StdGood
<1>4. PacketsGood' /\ UNCHANGED <<fm_std, fm_cis, fm_cos, fm_closed, fm_tty, fm_state>>
  BY <1>2, <1>3, PacketsStay DEF FhKeep
<1> QED BY <1>1, <1>2, <1>3, <1>4, StringsFacts, WritingStep

\* PutStr(), also without a handle.
LEMMA PutStrStep ==
    ASSUME FilesInv, NEW s \in Strings, PutStr(s) PROVE FilesInv'
<1>1. fm_state = "run" /\ (fm_cos \in DOMAIN fm_fh => fm_fh[fm_cos].pos + Len(s) <= MaxData)
  BY DEF PutStr, FhCall
<1>2. StdGood /\ PacketsGood
  BY <1>1, Standing
<1>3. CASE fm_cos \in DOMAIN fm_fh => fm_fh[fm_cos].obj \in fm_closed
  BY <1>3, FilesRaise DEF PutStr
<1>4. CASE ~(fm_cos \in DOMAIN fm_fh => fm_fh[fm_cos].obj \in fm_closed)
  <2>1. WriteTo(fm_cos, s) /\ FhKeep /\ fm_cos \in DOMAIN fm_fh
    BY <1>4 DEF PutStr
  <2>2. PacketsGood' /\ UNCHANGED <<fm_std, fm_cis, fm_cos, fm_closed, fm_tty, fm_state>>
    BY <1>2, <2>1, PacketsStay DEF FhKeep
  <2> QED BY <1>1, <2>1, <2>2, StringsFacts, WritingStep
<1> QED BY <1>3, <1>4

\* Seek() stays in the file, and where the program thinks it is.
LEMMA SeekMoves ==
    ASSUME DiskGood(fm_disk), NEW h, NEW u, HandleGood(h, fm_disk, u), h.obj = "file",
           NEW n \in Nat, NEW mode \in {"beginning", "current", "end"}
    PROVE  LET r == seek(h, n, mode)
               from == CASE mode = "beginning" -> 0 [] mode = "current" -> u [] mode = "end" -> Len(Content(h))
               k == [h EXCEPT !.pos = r.pos]
           IN /\ SameFile(k, h)
              /\ HandleGood(k, fm_disk, IF r.ok /\ h.unch = <<>> /\ from # Unknown THEN from + Signed(n) ELSE Unknown)
<1> DEFINE d == Content(h)
           l == Len(d)
           t == seek_target(h, n, mode)
           from == CASE mode = "beginning" -> 0 [] mode = "current" -> u [] mode = "end" -> l
           x == IF t < 0 THEN h.pos ELSE Min({t, l})
           w == IF t \in 0..l /\ h.unch = <<>> /\ from # Unknown THEN from + Signed(n) ELSE Unknown
           k == [h EXCEPT !.pos = x]
<1>1. /\ d = DataIn(fm_disk, h)
      /\ d \in Seq(Nat) /\ l \in Nat /\ l <= MaxData
      /\ h.pos \in 0..l /\ h.unch \in Seq(Nat) /\ h \in FileHandles
      /\ u # Unknown => u \in 0..h.pos /\ (h.unch = <<>> <=> u = h.pos)
      /\ u \in Nat \cup {Unknown}
  BY ContentFacts
<1>2. seek(h, n, mode).ok = (t \in 0..l) /\ seek(h, n, mode).pos = x
  BY DEF seek
<1> HIDE DEF d
<1>3. FhWord \in Nat /\ MaxData \in Nat /\ MaxData < FhWord \div 2 /\ FhWord \div 2 \in Int /\ 2 * (FhWord \div 2) <= FhWord
  BY FilesAssumption
<1>4. /\ t \in Int
      /\ t \in 0..l /\ h.unch = <<>> /\ from # Unknown => from + Signed(n) = t
  <2> HIDE DEF l
  <2>1. CASE mode = "beginning"
    <3>1. t = n /\ from = 0
      BY <2>1 DEF seek_target
    <3>2. t \in 0..l => Signed(n) = n
      BY <3>1, <1>1, <1>3 DEF Signed
    <3> HIDE DEF t, from
    <3> QED BY <3>1, <3>2
  <2>2. CASE mode = "current"
    <3>1. t = h.pos + Signed(n) /\ from = u
      BY <2>2 DEF seek_target
    <3>2. Signed(n) \in Int
      BY <1>3 DEF Signed
    <3>3. h.unch = <<>> /\ u # Unknown => u = h.pos
      BY <1>1
    <3> HIDE DEF t, from
    <3> QED BY <3>1, <3>2, <3>3, <1>1
  <2>3. CASE mode = "end"
    <3>1. t = l + (IF n > 0 THEN n - FhWord ELSE n) /\ from = l
      BY <2>3 DEF seek_target, l, d
    <3>2. t \in 0..l => Signed(n) = IF n > 0 THEN n - FhWord ELSE n
      BY <3>1, <1>1, <1>3 DEF Signed
    <3> HIDE DEF t, from
    <3> QED BY <3>1, <3>2, <1>1, <1>3
  <2> QED BY <2>1, <2>2, <2>3
<1> HIDE DEF t, from
<1>5. x \in 0..l /\ (t \in 0..l => x = t)
  <2> HIDE DEF l
  <2>1. Min({t, l}) = IF t <= l THEN t ELSE l
    BY <1>1, <1>4, MinTwo
  <2> QED BY <1>1, <1>4, <2>1
<1>6. w # Unknown => w = x /\ h.unch = <<>>
  BY <1>4, <1>5
<1> HIDE DEF x
<1>7. x \in Nat /\ k = Placed(h, x, h.unch)
  <2>1. k = Placed(h, x, h.unch)
    BY <1>1 DEF Placed, FileHandles
  <2> QED BY <1>5, <2>1
<1>8. k.pos = x /\ k.unch = h.unch /\ SameFile(k, h)
  BY <1>1, <1>7, PlacedFacts
<1>9. <<>> = SubSeq(d, x + 1, x)
  BY <1>1, <1>7
<1> HIDE DEF k, w
<1>10. Positioned(k, d, w)
  <2>1. k.pos <= Len(d) /\ k.pos \in Nat
    BY <1>5, <1>7, <1>8
  <2>2. ASSUME w # Unknown PROVE w \in 0..k.pos /\ k.unch = SubSeq(d, w + 1, k.pos)
    <3>1. w = x /\ k.pos = x /\ k.unch = <<>>
      BY <2>2, <1>6, <1>8
    <3>2. SubSeq(d, w + 1, k.pos) = SubSeq(d, x + 1, x)
      BY <3>1, Zenon
    <3>3. w \in 0..k.pos
      BY <2>1, <3>1
    <3> QED BY <1>9, <3>1, <3>2, <3>3, Zenon
  <2> QED BY <2>1, <2>2 DEF Positioned
<1>11. HandleGood(k, fm_disk, w)
  BY <1>1, <1>7, <1>10, HandleAt
<1> QED BY <1>2, <1>8, <1>11 DEF k, w, from, l, d

\* Seek(): the position stays in the file.
LEMMA SeekStep ==
    ASSUME FilesInv, NEW a, NEW n \in Nat, NEW mode \in {"beginning", "current", "end"}, Seek(a, n, mode)
    PROVE  FilesInv'
<1> DEFINE h == fm_fh[a]
           r == seek(h, n, mode)
           u == fm_view[a]
           from == CASE mode = "beginning" -> 0 [] mode = "current" -> u [] mode = "end" -> Len(Content(h))
           k == [h EXCEPT !.pos = r.pos]
           v == IF r.ok /\ h.unch = <<>> /\ from # Unknown THEN from + Signed(n) ELSE Unknown
<1>1. /\ fm_state = "run" /\ a \in Own /\ h.obj = "file"
      /\ fm_fh' = [fm_fh EXCEPT ![a] = k] /\ View(a, v) /\ UNCHANGED fm_disk /\ FhKeep
  BY DEF Seek, FhCall
<1>2. a \in DOMAIN fm_fh /\ DiskGood(fm_disk) /\ HandleGood(h, fm_disk, u) /\ PacketsGood
  BY <1>1, Standing
<1>3. SameFile(k, h) /\ HandleGood(k, fm_disk, v)
  <2> HIDE DEF h, u
  <2> QED BY <1>1, <1>2, SeekMoves, ZenonT(30)
<1>4. PacketsGood' /\ UNCHANGED <<fm_std, fm_cis, fm_cos, fm_closed, fm_tty, fm_state>>
  BY <1>1, <1>2, PacketsStay DEF FhKeep
<1> HIDE DEF k, v
<1> QED BY <1>1, <1>2, <1>3, <1>4, Moves

\* A character is put back in front of the others.
LEMMA UnGetCStep ==
    ASSUME FilesInv, NEW a, NEW last \in BOOLEAN, UnGetC(a, last) PROVE FilesInv'
<1> DEFINE h == fm_fh[a]
           d == Content(h)
           at == fm_view[a]
           k == ungetc(h, IF last THEN -1 ELSE d[at])
           v == IF last THEN Unknown ELSE at - 1
<1>1. /\ fm_state = "run" /\ a \in Own /\ h.obj = "file" /\ (last \/ at > 0)
      /\ fm_fh' = [fm_fh EXCEPT ![a] = k] /\ View(a, v) /\ UNCHANGED fm_disk /\ FhKeep
  BY DEF UnGetC, FhCall
<1>2. a \in DOMAIN fm_fh /\ DiskGood(fm_disk) /\ HandleGood(h, fm_disk, at) /\ PacketsGood
  BY <1>1, Standing
<1>3. /\ d = DataIn(fm_disk, h)
      /\ d \in Seq(Nat) /\ Len(d) \in Nat
      /\ h.pos \in 0..Len(d) /\ h.unch \in Seq(Nat) /\ h \in FileHandles
      /\ at # Unknown => at \in 0..h.pos /\ h.unch = SubSeq(d, at + 1, h.pos)
      /\ at \in Nat \cup {Unknown}
  <2> HIDE DEF h, at
  <2> QED BY <1>2, ContentFacts DEF d
<1>4. PacketsGood' /\ UNCHANGED <<fm_std, fm_cis, fm_cos, fm_closed, fm_tty, fm_state>>
  BY <1>1, <1>2, PacketsStay DEF FhKeep
<1>5. SameFile(k, h) /\ HandleGood(k, fm_disk, v)
  <2> HIDE DEF h, d, at
  <2>1. CASE last
    <3>1. k = h /\ v = Unknown
      BY <2>1 DEF ungetc
    <3>2. Positioned(h, DataIn(fm_disk, h), Unknown)
      BY <1>2 DEF HandleGood, Positioned
    <3>3. SameFile(h, h) /\ HandleGood(h, fm_disk, Unknown)
      BY <1>1, <1>2, <3>2 DEF SameFile, HandleGood
    <3> HIDE DEF k, v
    <3> QED BY <3>1, <3>3
  <2>2. CASE ~last
    <3>1. at # Unknown /\ at \in 1..h.pos /\ v = at - 1
      BY <2>2, <1>1, <1>3 DEF Unknown
    <3>2. d[at] \in Nat /\ at \in 1..Len(d) /\ h.pos \in at..Len(d)
      BY <3>1, <1>3, SMTT(30)
    <3> DEFINE w == <<d[at]>> \o h.unch
    <3>3. k = Placed(h, h.pos, w)
      <4>1. k = [h EXCEPT !.unch = w]
        BY <2>2, <3>2 DEF ungetc
      <4> HIDE DEF k, w
      <4> QED BY <4>1, <1>3 DEF Placed, FileHandles
    <3>4. w = SubSeq(d, at, h.pos)
      <4>1. SubSeq(d, at, h.pos) = <<d[at]>> \o SubSeq(d, at + 1, h.pos)
        BY <3>2, <1>3, SubSeqRecursiveFirst
      <4> QED BY <4>1, <3>1, <1>3
    <3>5. w \in Seq(Nat)
      BY <3>2, <1>3
    <3> HIDE DEF w, k
    <3>6. h.pos \in Nat
      BY <1>3
    <3>7. k.pos = h.pos /\ k.unch = w /\ SameFile(k, h)
      BY <1>3, <3>3, <3>5, <3>6, PlacedFacts
    <3>8. v + 1 = at /\ v \in 0..h.pos
      BY <3>1, <3>6
    <3> HIDE DEF v
    <3>9. Positioned(k, d, v)
      <4>1. SubSeq(d, v + 1, k.pos) = SubSeq(d, at, h.pos)
        BY <3>7, <3>8, Zenon
      <4>2. k.pos <= Len(d) /\ v \in 0..k.pos
        BY <1>3, <3>7, <3>8
      <4> QED BY <3>4, <3>7, <4>1, <4>2 DEF Positioned
    <3>10. HandleGood(k, fm_disk, v)
      BY <1>1, <1>2, <1>3, <3>3, <3>5, <3>6, <3>9, HandleAt
    <3> QED BY <3>7, <3>10
  <2> QED BY <2>1, <2>2
<1> HIDE DEF k, v
<1> QED BY <1>1, <1>2, <1>4, <1>5, Moves

\* Arguments replace what was put back.
LEMMA SetBufStep ==
    ASSUME FilesInv, NEW s \in Strings, SetBuf(s) PROVE FilesInv'
<1> DEFINE a == fm_cis
           h == fm_fh[a]
           k == [h EXCEPT !.unch = s]
<1>1. /\ fm_state = "run" /\ a \in DOMAIN fm_fh
      /\ fm_fh' = [fm_fh EXCEPT ![a] = k] /\ View(a, Unknown) /\ UNCHANGED fm_disk /\ FhKeep
  BY DEF SetBuf, FhCall
<1>2. DiskGood(fm_disk) /\ HandleGood(h, fm_disk, At(fm_view, a)) /\ PacketsGood
  BY <1>1, Standing
<1>3. PacketsGood' /\ UNCHANGED <<fm_std, fm_cis, fm_cos, fm_closed, fm_tty, fm_state>>
  BY <1>1, <1>2, PacketsStay DEF FhKeep
<1>4. SameFile(k, h) /\ HandleGood(k, fm_disk, Unknown)
  <2> HIDE DEF a, h
  <2>1. h \in FileHandles /\ h.pos \in Nat /\ s \in Seq(Nat)
    BY <1>2, StringsFacts DEF HandleGood, FileHandles
  <2>2. k = Placed(h, h.pos, s)
    BY <2>1 DEF Placed, FileHandles
  <2>3. k.pos = h.pos /\ SameFile(k, h)
    BY <2>1, <2>2, PlacedFacts
  <2> HIDE DEF k
  <2>4. Positioned(k, DataIn(fm_disk, h), Unknown)
    BY <1>2, <2>3 DEF HandleGood, Positioned
  <2> QED BY <1>2, <2>1, <2>2, <2>3, <2>4, HandleAt
<1> HIDE DEF k
<1>5. HandleGood(k, fm_disk, IF a \in Own THEN Unknown ELSE Unknown)
  BY <1>4
<1> QED BY <1>1, <1>3, <1>4, <1>5, Moves

\* A packet does what the call does, and is answered.
LEMMA FsPacketStep ==
    ASSUME FilesInv, NEW type \in {"read", "write", "other"}, NEW a, NEW s \in Strings, FsPacket(type, a, s)
    PROVE  FilesInv'
<1>1. /\ fm_state = "run" /\ a \in Own /\ fm_fh[a].obj = "file" /\ fm_fh[a].pos + Len(s) <= MaxData
      /\ s \in Seq(Nat) /\ Len(s) \in Nat
  <2>1. s \in Seq(Nat)
    BY StringsFacts
  <2> QED BY <2>1 DEF FsPacket, FhCall
<1>2. PacketsGood /\ a \in DOMAIN fm_fh /\ DiskGood(fm_disk) /\ HandleGood(fm_fh[a], fm_disk, At(fm_view, a))
  BY <1>1, Standing
<1>3. CASE type = "read"
  <2> DEFINE got == Len(ReadBytes(fm_fh[a], Len(s)))
  <2>1. /\ fm_fh' = [fm_fh EXCEPT ![a].pos = @ + got] /\ reply_packet(got)
        /\ View(a, IF fm_fh[a].unch = <<>> /\ fm_view[a] # Unknown THEN fm_view[a] + got ELSE Unknown)
        /\ UNCHANGED <<fm_disk, fm_std, fm_cis, fm_cos, fm_closed, fm_tty, fm_err, fm_state>>
    BY <1>3 DEF FsPacket
  <2>2. got \in Nat
    BY <1>1, <1>2, ReadMoves
  <2> HIDE DEF got
  <2>3. PacketsGood'
    BY <1>1, <1>2, <2>1, <2>2, PacketReplied
  <2> USE DEF got
  <2> QED BY <1>1, <2>1, <2>3, ReadingStep
<1>4. CASE type = "write"
  <2>1. WriteTo(a, s) /\ reply_packet(Len(s)) /\ UNCHANGED <<fm_std, fm_cis, fm_cos, fm_closed, fm_tty, fm_err, fm_state>>
    BY <1>4 DEF FsPacket
  <2>2. PacketsGood'
    BY <1>1, <1>2, <2>1, PacketReplied
  <2> QED BY <1>1, <1>2, <2>1, <2>2, WritingStep
<1>5. CASE type = "other"
  <2>1. FhRaise
    BY <1>5 DEF FsPacket
  <2> QED BY <2>1, FilesRaise
<1> QED BY <1>3, <1>4, <1>5

\* A packet to the console, which may set its mode.
LEMMA ConsolePacketStep ==
    ASSUME FilesInv, NEW mode \in {"cooked", "raw", "bad", "other", "no_action"}, ConsolePacket(mode)
    PROVE  FilesInv'
<1>0. CASE mode = "no_action"
  BY <1>0, FilesRaise DEF ConsolePacket
<1> SUFFICES ASSUME mode # "no_action" PROVE FilesInv'
  BY <1>0
<1>1. /\ fm_state = "run" /\ console_put_msg(mode) /\ fm_tty' = IF mode \in {"cooked", "raw"} THEN mode ELSE fm_tty
      /\ UNCHANGED <<fm_disk, fm_fh, fm_std, fm_cis, fm_cos, fm_closed, fm_err, fm_view, fm_state>>
  BY DEF ConsolePacket, FhCall
<1>2. PacketsGood /\ StdGood /\ fm_tty \in Modes
  BY <1>1, Standing DEF FilesInv
<1>3. PacketsGood'
  <2> DEFINE res == CASE mode = "other" -> "action_not_known" [] mode = "bad" -> "bad_number" [] OTHER -> -1
  <2>1. reply_packet(res)
    BY <1>1 DEF console_put_msg
  <2>2. res \in Nat \cup {-1, "action_not_known", "bad_number"}
    OBVIOUS
  <2> HIDE DEF res
  <2> QED BY <1>1, <1>2, <2>1, <2>2, PacketReplied
<1>4. fm_tty' \in Modes
  BY <1>1, <1>2 DEF Modes
<1>5. {fm_cis', fm_cos'} \subseteq Usable \cup {0}
  BY <1>1, <1>2 DEF StdGood
<1> QED BY <1>1, <1>3, <1>4, <1>5, FilesStay

\* SelectInput() and SelectOutput() take a handle the program may use.
LEMMA SelectStep ==
    ASSUME FilesInv, NEW a, SelectInput(a) \/ SelectOutput(a) PROVE FilesInv'
<1>1. /\ fm_state = "run" /\ UNCHANGED <<fm_disk, fm_fh, fm_std, fm_closed, fm_tty, fm_sent, fm_replies, fm_view, fm_state>>
      /\ a \in Usable \cup {0} /\ fm_cis' \in {fm_cis, a} /\ fm_cos' \in {fm_cos, a}
  BY DEF SelectInput, SelectOutput, FhCall
<1>2. PacketsGood /\ StdGood /\ fm_tty \in Modes
  BY <1>1, Standing DEF FilesInv
<1>3. {fm_cis', fm_cos'} \subseteq Usable \cup {0} /\ fm_tty' \in Modes /\ PacketsGood'
  BY <1>1, <1>2, PacketsStay DEF StdGood
<1> QED BY <1>1, <1>3, FilesStay

\* SetMode() and WaitForChar() touch the terminal only.
LEMMA TtyStep ==
    ASSUME FilesInv, NEW a, (\E m \in Modes : SetMode(a, m)) \/ (\E b \in BOOLEAN : WaitForChar(a, b)) PROVE FilesInv'
<1>0. fm_tty \in Modes
  BY DEF FilesInv
<1>1. /\ fm_state = "run" /\ UNCHANGED <<fm_disk, fm_fh, fm_std, fm_cis, fm_cos, fm_closed, fm_sent, fm_replies, fm_view, fm_state>>
      /\ fm_tty' \in Modes
  BY <1>0 DEF SetMode, WaitForChar, FhCall
<1>2. PacketsGood /\ StdGood
  BY <1>1, Standing
<1>3. {fm_cis', fm_cos'} \subseteq Usable \cup {0} /\ PacketsGood'
  BY <1>1, <1>2, PacketsStay DEF StdGood
<1> QED BY <1>1, <1>3, FilesStay

-----------------------------------------------------------------------------
(* Handles come and go.                                                    *)

\* A handle enters the table at a free address.
LEMMA RegisterStep ==
    ASSUME FilesInv, fm_state = "run", NEW h, NEW v, register_file(h, v), HandleGood(h, fm_disk', v),
           DiskGood(fm_disk'), DOMAIN fm_disk \subseteq DOMAIN fm_disk',
           \A n \in DOMAIN fm_disk : (h.obj = "file" /\ n = h.name) \/ fm_disk'[n].data = fm_disk[n].data,
           h.obj = "file" => \A b \in Own : fm_fh[b].name # h.name,
           FhKeep
    PROVE  FilesInv'
<1>1. PICK a \in FhAddrs \ DOMAIN fm_fh : fm_fh' = Entered(fm_fh, a, h) /\ fm_view' = Entered(fm_view, a, v)
  BY DEF register_file
<1>2. /\ StdGood /\ PacketsGood /\ TableGood(fm_fh, fm_disk, fm_view) /\ Own \subseteq DOMAIN fm_fh
      /\ StdHandles \subseteq DOMAIN fm_fh
      /\ \A b \in DOMAIN fm_fh : HandleGood(fm_fh[b], fm_disk, At(fm_view, b))
      /\ \A b \in DOMAIN fm_fh : fm_fh[b].obj = "file" => b \in Own
  BY Standing
<1>3. DOMAIN fm_fh' = DOMAIN fm_fh \cup {a} /\ DOMAIN fm_view' = DOMAIN fm_view \cup {a}
  BY <1>1 DEF Entered
<1>4. fm_fh'[a] = h /\ At(fm_view', a) = v
  BY <1>1, <1>3 DEF Entered, At
<1>5. \A b \in DOMAIN fm_fh : b # a /\ fm_fh'[b] = fm_fh[b] /\ At(fm_view', b) = At(fm_view, b)
  <2>1. \A b \in DOMAIN fm_fh : b # a /\ fm_fh'[b] = fm_fh[b]
    BY <1>1 DEF Entered
  <2>2. ASSUME NEW b \in DOMAIN fm_fh PROVE At(fm_view', b) = At(fm_view, b)
    <3>1. b # a
      BY <2>1
    <3>2. CASE b \in DOMAIN fm_view
      <4>1. fm_view'[b] = fm_view[b]
        BY <1>1, <3>1, <3>2 DEF Entered
      <4> QED BY <4>1, <3>2, <1>3 DEF At
    <3>3. CASE b \notin DOMAIN fm_view
      BY <3>1, <3>3, <1>3 DEF At
    <3> QED BY <3>2, <3>3
  <2> QED BY <2>1, <2>2
<1>6. ASSUME NEW b \in DOMAIN fm_fh PROVE HandleGood(fm_fh[b], fm_disk', At(fm_view, b))
  <2>1. HandleGood(fm_fh[b], fm_disk, At(fm_view, b))
    BY <1>2
  <2>2. fm_fh[b].obj = "file" => fm_fh[b].name \in DOMAIN fm_disk /\ ~(h.obj = "file" /\ fm_fh[b].name = h.name)
    BY <2>1, <1>2 DEF HandleGood
  <2>3. DataIn(fm_disk', fm_fh[b]) = DataIn(fm_disk, fm_fh[b])
    BY <2>2 DEF DataIn
  <2> QED BY <2>1, <2>2, <2>3 DEF HandleGood
<1>7. TableGood(fm_fh', fm_disk', fm_view')
  <2>1. DOMAIN fm_fh' \subseteq FhAddrs
    BY <1>2, <1>3 DEF TableGood
  <2>2. \A b \in DOMAIN fm_fh' : HandleGood(fm_fh'[b], fm_disk', At(fm_view', b))
    BY <1>3, <1>4, <1>5, <1>6
  <2>3. \A b \in DOMAIN fm_fh' : fm_fh'[b].obj = "file" => b \in DOMAIN fm_view'
    BY <1>2, <1>3, <1>5 DEF Own
  <2>4. ASSUME NEW b \in DOMAIN fm_fh', NEW c \in DOMAIN fm_fh', fm_fh'[b].obj = "file", fm_fh'[c].obj = "file",
               fm_fh'[b].name = fm_fh'[c].name
        PROVE  b = c
    <3>1. \A x \in DOMAIN fm_fh : fm_fh[x].obj = "file" /\ h.obj = "file" => fm_fh[x].name # h.name
      BY <1>2
    <3> QED BY <2>4, <3>1, <1>2, <1>3, <1>4, <1>5 DEF TableGood
  <2> QED BY <2>1, <2>2, <2>3, <2>4 DEF TableGood
<1>8. StdGood'
  <2>1. StdHandles' = StdHandles /\ Own' = Own \cup {a} /\ fm_closed' = fm_closed /\ fm_cis' = fm_cis /\ fm_cos' = fm_cos
        /\ fm_std' = fm_std
    BY <1>3 DEF FhKeep, StdHandles, Own
  <2>2. Usable \subseteq Usable'
    BY <2>1 DEF Usable
  <2>3. fm_std.out \in DOMAIN fm_fh /\ a \notin StdHandles
    BY <1>2 DEF StdHandles
  <2>4. fm_fh'[fm_std.out].saved = "cooked"
    BY <2>3, <1>2, <1>5 DEF StdGood
  <2> QED BY <1>2, <1>3, <2>1, <2>2, <2>3, <2>4 DEF StdGood
<1>9. PacketsGood' /\ fm_tty' \in Modes /\ fm_state' = "run"
  BY <1>2, PacketsStay DEF FhKeep, FilesInv
<1> QED BY <1>7, <1>8, <1>9 DEF FilesInv, TtyRestored

\* A handle that was just made stands at the start of its file.
LEMMA NewHandle ==
    ASSUME FilesInv, NEW obj \in {"stdin", "stdout", "file", "nil"}, NEW name \in FileNames \cup {"stdin", "stdout", "nil"},
           NEW need_close \in BOOLEAN, NEW writable \in BOOLEAN, NEW disk, NEW v \in {0, Unknown},
           obj \in {"stdin", "stdout"} => ~need_close,
           IF obj = "file" THEN name \in DOMAIN disk /\ disk[name].data \in Seq(Nat) ELSE v = Unknown
    PROVE  HandleGood(FileHandle(obj, name, need_close, writable), disk, v)
<1> DEFINE h == FileHandle(obj, name, need_close, writable)
           d == DataIn(disk, h)
<1>1. fm_tty \in Modes /\ <<>> \in Seq(Nat)
  BY DEF FilesInv
<1>2. h \in FileHandles /\ h.obj = obj /\ h.name = name /\ h.need_close = need_close /\ h.pos = 0 /\ h.unch = <<>>
  BY <1>1 DEF FileHandle, FileHandles
<1> HIDE DEF h
<1>3. d \in Seq(Nat)
  BY <1>1, <1>2 DEF DataIn
<1> HIDE DEF d
<1>4. Len(d) \in Nat /\ SubSeq(d, 0 + 1, 0) = <<>>
  BY <1>3
<1>5. Positioned(h, d, v)
  <2>1. v # Unknown => v = 0
    OBVIOUS
  <2>2. v = 0 => SubSeq(d, v + 1, h.pos) = <<>>
    BY <1>2, <1>4
  <2> QED BY <1>2, <1>4, <2>1, <2>2 DEF Positioned
<1> QED BY <1>2, <1>5 DEF HandleGood, h, d

\* Open() of a host file: it may be made or emptied, never while another handle is on it.
LEMMA OpenStep ==
    ASSUME FilesInv, NEW name \in FileNames, NEW mode \in {"r", "w", "rw"}, Open(name, mode) PROVE FilesInv'
<1> DEFINE there == name \in DOMAIN fm_disk
           m == IF mode # "rw" THEN mode ELSE IF there THEN "r" ELSE "w"
           can == there => fm_disk[name].writable
           fails == IF m = "w" THEN ~can ELSE ~there
           h == FileHandle("file", name, TRUE, can)
           empty == [data |-> <<>>, writable |-> TRUE]
<1>1. /\ fm_state = "run" /\ \A a \in Own : fm_fh[a].name # name
      /\ FhKeep
  BY DEF Open, FhCall
<1>2. PacketsGood /\ StdGood /\ fm_tty \in Modes /\ DiskGood(fm_disk)
  BY <1>1, Standing DEF FilesInv
<1>3. CASE fails
  <2>1. UNCHANGED <<fm_disk, fm_fh, fm_view>>
    BY <1>3 DEF Open
  <2>2. {fm_cis', fm_cos'} \subseteq Usable \cup {0} /\ fm_tty' \in Modes /\ PacketsGood'
    BY <1>1, <1>2, PacketsStay DEF FhKeep, StdGood
  <2> QED BY <1>1, <2>1, <2>2, FilesStay DEF FhKeep
<1>4. CASE ~fails
  <2>1. register_file(h, 0) /\ fm_disk' = IF m = "w" THEN Entered(fm_disk, name, empty) ELSE fm_disk
    BY <1>4 DEF Open
  <2>2. m # "w" => there
    BY <1>4
  <2>3. can \in BOOLEAN
    OBVIOUS
  <2> HIDE DEF m
  <2>4. DiskGood(fm_disk') /\ DOMAIN fm_disk \subseteq DOMAIN fm_disk' /\ name \in DOMAIN fm_disk'
        /\ \A n \in DOMAIN fm_disk : n = name \/ fm_disk'[n].data = fm_disk[n].data
    <3>1. CASE m = "w"
      <4>1. fm_disk' = [n \in DOMAIN fm_disk \cup {name} |-> IF n = name THEN empty ELSE fm_disk[n]]
        BY <2>1, <3>1 DEF Entered
      <4>2. empty \in HostEntries /\ Len(empty.data) <= MaxData
        BY FilesAssumption DEF HostEntries
      <4> HIDE DEF empty
      <4>3. DOMAIN fm_disk' = DOMAIN fm_disk \cup {name} /\ fm_disk'[name] = empty
            /\ \A n \in DOMAIN fm_disk : n # name => fm_disk'[n] = fm_disk[n]
        BY <4>1
      <4>4. \A n \in DOMAIN fm_disk : fm_disk[n] \in HostEntries /\ Len(fm_disk[n].data) <= MaxData
        BY <1>2 DEF DiskGood
      <4>5. \A n \in DOMAIN fm_disk' : fm_disk'[n] \in HostEntries /\ Len(fm_disk'[n].data) <= MaxData
        BY <4>2, <4>3, <4>4
      <4>6. fm_disk' = [n \in DOMAIN fm_disk' |-> fm_disk'[n]]
        BY <4>1
      <4>7. DiskGood(fm_disk')
        BY <4>5, <4>6 DEF DiskGood
      <4> QED BY <4>3, <4>7
    <3>2. CASE m # "w"
      BY <3>2, <2>1, <2>2, <1>2
    <3> QED BY <3>1, <3>2
  <2>5. fm_disk'[name].data \in Seq(Nat)
    BY <2>4 DEF DiskGood, HostEntries
  <2> HIDE DEF can
  <2>6. HandleGood(h, fm_disk', 0)
    BY <2>3, <2>4, <2>5, NewHandle
  <2>7. h.obj = "file" /\ h.name = name
    BY DEF FileHandle
  <2> HIDE DEF h
  <2> QED BY <1>1, <2>1, <2>4, <2>6, <2>7, RegisterStep
<1> QED BY <1>3, <1>4

\* Open() of "*", CONSOLE: and NIL:.
LEMMA OpenOtherStep ==
    ASSUME FilesInv, OpenConsole \/ OpenNil PROVE FilesInv'
<1>1. /\ fm_state = "run" /\ UNCHANGED fm_disk /\ FhKeep
      /\ register_file(FileHandle("stdout", "stdout", FALSE, TRUE), Unknown) \/ register_file(FileHandle("nil", "nil", TRUE, TRUE), Unknown)
  BY DEF OpenConsole, OpenNil, FhCall, create_stdout_fh
<1>2. DiskGood(fm_disk')
  BY <1>1 DEF FilesInv
<1>3. ASSUME NEW h, HandleGood(h, fm_disk', Unknown), h.obj # "file", register_file(h, Unknown) PROVE FilesInv'
  BY <1>1, <1>2, <1>3, RegisterStep
<1>4. CASE register_file(FileHandle("stdout", "stdout", FALSE, TRUE), Unknown)
  <2> DEFINE h == FileHandle("stdout", "stdout", FALSE, TRUE)
  <2>1. HandleGood(h, fm_disk', Unknown)
    BY NewHandle
  <2>2. h.obj # "file"
    BY DEF FileHandle
  <2> HIDE DEF h
  <2> QED BY <1>3, <1>4, <2>1, <2>2 DEF h
<1>5. CASE register_file(FileHandle("nil", "nil", TRUE, TRUE), Unknown)
  <2> DEFINE h == FileHandle("nil", "nil", TRUE, TRUE)
  <2>1. HandleGood(h, fm_disk', Unknown)
    BY NewHandle
  <2>2. h.obj # "file"
    BY DEF FileHandle
  <2> HIDE DEF h
  <2> QED BY <1>3, <1>5, <2>1, <2>2 DEF h
<1> QED BY <1>1, <1>4, <1>5

\* Without some of its handles, and of the program's, the table is as good.
LEMMA TableLess ==
    ASSUME NEW fh, NEW disk, NEW view, TableGood(fh, disk, view), NEW D \in SUBSET DOMAIN fh, NEW view2,
           \A a \in D : At(view2, a) = At(view, a) /\ (a \in DOMAIN view => a \in DOMAIN view2)
    PROVE  TableGood([a \in D |-> fh[a]], disk, view2)
BY DEF TableGood

\* Close(): neither the standard handles nor their file objects go with it.
LEMMA CloseStep ==
    ASSUME FilesInv, NEW a, Close(a) PROVE FilesInv'
<1> DEFINE h == fm_fh[a]
<1>1. /\ fm_state = "run" /\ a \in Usable /\ (a \in Own => a \notin {fm_cis, fm_cos})
      /\ fm_closed' = fm_closed \cup close_obj(h)
      /\ fm_tty' = IF IsTty(h) THEN h.saved ELSE fm_tty
      /\ fm_fh' = IF a \in StdHandles THEN fm_fh ELSE [x \in DOMAIN fm_fh \ {a} |-> fm_fh[x]]
      /\ fm_view' = [x \in Own \ {a} |-> fm_view[x]]
      /\ UNCHANGED <<fm_disk, fm_std, fm_cis, fm_cos, fm_sent, fm_replies, fm_state>>
  BY DEF Close, FhCall
<1>2. /\ StdGood /\ PacketsGood /\ DiskGood(fm_disk) /\ TableGood(fm_fh, fm_disk, fm_view) /\ fm_tty \in Modes
      /\ a \in DOMAIN fm_fh /\ HandleGood(h, fm_disk, At(fm_view, a))
  BY <1>1, Standing DEF FilesInv
<1>3. fm_closed' = {} /\ fm_tty' \in Modes
  BY <1>1, <1>2 DEF close_obj, IsTty, HandleGood, StdGood, FileHandles
<1>4. Own' = Own \ {a} /\ StdHandles' = StdHandles
  BY <1>1 DEF Own, StdHandles
<1>5. \A x \in DOMAIN fm_view : x # a => At(fm_view', x) = At(fm_view, x)
  BY <1>1, <1>4 DEF At, Own
<1>6. \A x : x \notin DOMAIN fm_view => At(fm_view', x) = At(fm_view, x)
  BY <1>1, <1>4 DEF At, Own
<1>7. TableGood(fm_fh', fm_disk', fm_view')
  <2>1. CASE a \in StdHandles
    <3>1. a \notin Own
      BY <2>1, <1>2 DEF StdGood
    <3>2. DOMAIN fm_view' = DOMAIN fm_view /\ \A x : At(fm_view', x) = At(fm_view, x)
      BY <3>1, <1>4, <1>5, <1>6 DEF Own
    <3> QED BY <2>1, <3>2, <1>1, <1>2 DEF TableGood
  <2>2. CASE a \notin StdHandles
    <3>1. \A x \in DOMAIN fm_fh \ {a} : At(fm_view', x) = At(fm_view, x) /\ (x \in DOMAIN fm_view => x \in DOMAIN fm_view')
      BY <1>4, <1>5, <1>6 DEF Own
    <3>2. TableGood([x \in DOMAIN fm_fh \ {a} |-> fm_fh[x]], fm_disk, fm_view')
      BY <3>1, <1>2, TableLess
    <3> QED BY <2>2, <3>2, <1>1
  <2> QED BY <2>1, <2>2
<1>8. StdGood'
  <2>1. DOMAIN fm_fh' = Own' \cup StdHandles'
    <3>1. CASE a \in StdHandles
      BY <3>1, <1>1, <1>2, <1>4 DEF StdGood
    <3>2. CASE a \notin StdHandles
      BY <3>2, <1>1, <1>2, <1>4 DEF StdGood
    <3> QED BY <3>1, <3>2
  <2>2. fm_fh'[fm_std.out].saved = "cooked" /\ fm_std' = fm_std
    <3>1. fm_std.out \in StdHandles /\ fm_std.out \in DOMAIN fm_fh
      BY <1>2 DEF StdHandles, StdGood
    <3>2. fm_fh'[fm_std.out] = fm_fh[fm_std.out]
      BY <3>1, <1>1
    <3> QED BY <3>2, <1>1, <1>2 DEF StdGood
  <2>3. {fm_cis', fm_cos'} \subseteq Usable' \cup {0}
    <3>1. Usable' = Usable \ (IF a \in Own THEN {a} ELSE {})
      BY <1>2, <1>4 DEF Usable, StdGood
    <3> QED BY <3>1, <1>1, <1>2 DEF StdGood
  <2> QED BY <1>2, <1>3, <1>4, <2>1, <2>2, <2>3 DEF StdGood
<1>9. PacketsGood'
  BY <1>1, <1>2, PacketsStay
<1> QED BY <1>1, <1>2, <1>3, <1>7, <1>8, <1>9 DEF FilesInv, TtyRestored

\* finish(): the terminal gets the mode back that stdout found.
LEMMA FinishStep ==
    ASSUME FilesInv, FilesFinish PROVE FilesInv'
<1>1. /\ fm_state = "run" /\ fm_fh' = [a \in DOMAIN fm_fh \ StdHandles |-> fm_fh[a]]
      /\ fm_tty' = fm_fh[fm_std.out].saved /\ fm_state' = "done"
      /\ UNCHANGED <<fm_disk, fm_sent, fm_replies, fm_view>>
  BY DEF FilesFinish, finish_tty
<1>2. StdGood /\ PacketsGood /\ DiskGood(fm_disk) /\ TableGood(fm_fh, fm_disk, fm_view)
  BY <1>1, Standing
<1>3. fm_tty' = "cooked" /\ fm_tty' \in Modes
  BY <1>1, <1>2 DEF StdGood, Modes
<1>4. TableGood(fm_fh', fm_disk', fm_view')
  BY <1>1, <1>2, TableLess
<1>5. PacketsGood'
  BY <1>1, <1>2 DEF PacketsGood
<1> QED BY <1>1, <1>2, <1>3, <1>4, <1>5 DEF FilesInv, TtyRestored

-----------------------------------------------------------------------------
(* The start, every step, and what the two invariants say.                 *)

\* The two handles every program has are the first two there are.
LEMMA FilesStarts == FilesInit => FilesInv
<1> SUFFICES ASSUME FilesInit PROVE FilesInv
  OBVIOUS
<1> DEFINE a == CHOOSE x \in FhAddrs : \A y \in FhAddrs : x <= y
           b == CHOOSE x \in FhAddrs \ {a} : \A y \in FhAddrs \ {a} : x <= y
           H(o) == [obj |-> o, name |-> o, need_close |-> FALSE, writable |-> TRUE, pos |-> 0, unch |-> <<>>, saved |-> "cooked"]
<1>1. a \in FhAddrs
  <2>1. FhAddrs \subseteq Nat /\ FhAddrs # {}
    BY FilesAssumption
  <2>2. \E x \in FhAddrs : \A y \in FhAddrs : x <= y
    BY <2>1, NatLeast
  <2> QED BY <2>2
<1>2. b \in FhAddrs \ {a}
  <2> HIDE DEF a
  <2>1. FhAddrs \ {a} \subseteq Nat /\ FhAddrs \ {a} # {}
    <3>1. PICK x \in FhAddrs, y \in FhAddrs : x # y
      BY FilesAssumption
    <3> QED BY <3>1, FilesAssumption
  <2>2. \E x \in FhAddrs \ {a} : \A y \in FhAddrs \ {a} : x <= y
    BY <2>1, NatLeast
  <2> QED BY <2>2
<1>3. /\ fm_disk = HostFiles /\ fm_std = [in |-> a, out |-> b]
      /\ fm_fh = [x \in {a, b} |-> H(IF x = a THEN "stdin" ELSE "stdout")]
      /\ fm_cis = a /\ fm_cos = b /\ fm_closed = {} /\ fm_tty = "cooked"
      /\ fm_sent = 0 /\ fm_replies = <<>> /\ fm_view = <<>> /\ fm_state = "run"
  BY DEF FilesInit
<1> HIDE DEF a, b
<1>4. StdHandles = {a, b} /\ Own = {} /\ 0 \in Nat
  BY <1>3 DEF StdHandles, Own
<1>5. DiskGood(fm_disk)
  BY <1>3, FilesAssumption DEF DiskGood, HostEntries
<1>6. \A o \in {"stdin", "stdout"} : H(o) \in FileHandles
  <2>1. <<>> \in Seq(Nat)
    OBVIOUS
  <2> QED BY <2>1 DEF FileHandles, Modes
<1>7. \A o \in {"stdin", "stdout"} : HandleGood(H(o), fm_disk, Unknown)
  <2>1. \A o \in {"stdin", "stdout"} : DataIn(fm_disk, H(o)) = <<>>
    BY DEF DataIn
  <2>2. \A o \in {"stdin", "stdout"} : Positioned(H(o), DataIn(fm_disk, H(o)), Unknown)
    BY <2>1 DEF Positioned
  <2> QED BY <1>6, <2>2 DEF HandleGood
<1>8. DOMAIN fm_fh = {a, b} /\ \A x \in {a, b} : fm_fh[x] \in {H("stdin"), H("stdout")}
  BY <1>3
<1>9. TableGood(fm_fh, fm_disk, fm_view)
  <2>1. \A x \in DOMAIN fm_fh : At(fm_view, x) = Unknown
    BY <1>3 DEF At
  <2>2. \A x \in DOMAIN fm_fh : HandleGood(fm_fh[x], fm_disk, At(fm_view, x))
    BY <2>1, <1>7, <1>8
  <2>3. \A x \in DOMAIN fm_fh : fm_fh[x].obj # "file"
    BY <1>8
  <2> HIDE DEF H
  <2> QED BY <2>2, <2>3, <1>1, <1>2, <1>8 DEF TableGood
<1>10. StdGood
  <2>1. fm_fh[fm_std.out].saved = "cooked"
    BY <1>3, <1>8
  <2> HIDE DEF H
  <2> QED BY <2>1, <1>1, <1>2, <1>3, <1>4, <1>8 DEF StdGood, Usable
<1>11. PacketsGood
  BY <1>3 DEF PacketsGood
<1> HIDE DEF H
<1> QED BY <1>3, <1>5, <1>9, <1>10, <1>11 DEF FilesInv, TtyRestored, Modes

\* Whatever a program calls, and in whatever order.
LEMMA FilesSteps == FilesInv /\ FilesNext => FilesInv'
<1> SUFFICES ASSUME FilesInv, FilesNext PROVE FilesInv'
  OBVIOUS
<1>1. {0, 1, 2, FhWord - 1} \subseteq Nat
  BY FilesAssumption
<1>2. CASE \E n \in FileNames, m \in {"r", "w", "rw"} : Open(n, m)
  BY <1>2, OpenStep
<1>3. CASE OpenConsole \/ OpenNil
  BY <1>3, OpenOtherStep
<1>4. CASE \E a \in Usable : Close(a) \/ FGetC(a) \/ FGets(a, 2) \/ SelectInput(a) \/ SelectOutput(a) \/ Read(a, 2)
  BY <1>1, <1>4, CloseStep, FGetCStep, FGetsStep, SelectStep, ReadStep
<1>5. CASE \E a \in Usable, s \in Strings : Write(a, s) \/ \E t \in {"read", "write", "other"} : FsPacket(t, a, s)
  BY <1>5, WriteStep, FsPacketStep
<1>6. CASE \E a \in Usable : (\E m \in {"cooked", "raw"} : SetMode(a, m)) \/ \E b \in BOOLEAN : UnGetC(a, b) \/ WaitForChar(a, b)
  BY <1>6, TtyStep, UnGetCStep DEF Modes
<1>7. CASE \E a \in Usable, n \in {0, 1, 2, FhWord - 1}, m \in {"beginning", "current", "end"} : Seek(a, n, m)
  BY <1>1, <1>7, SeekStep
<1>8. CASE SelectInput(0) \/ SelectOutput(0)
  BY <1>8, SelectStep
<1>9. CASE \E s \in Strings : PutStr(s) \/ SetBuf(s)
  BY <1>9, PutStrStep, SetBufStep
<1>10. CASE \E m \in {"cooked", "raw", "bad", "other", "no_action"} : ConsolePacket(m)
  BY <1>10, ConsolePacketStep
<1>11. CASE FilesFinish
  BY <1>11, FinishStep
<1> QED BY <1>2, <1>3, <1>4, <1>5, <1>6, <1>7, <1>8, <1>9, <1>10, <1>11 DEF FilesNext

\* The terminal's steps leave the handles as they are.
LEMMA FilesRest == FilesInv /\ UNCHANGED fm_vars => FilesInv'
<1> SUFFICES ASSUME FilesInv, UNCHANGED fm_vars PROVE FilesInv'
  OBVIOUS
<1>1. /\ fm_disk' = fm_disk /\ fm_fh' = fm_fh /\ fm_std' = fm_std /\ fm_cis' = fm_cis /\ fm_cos' = fm_cos
      /\ fm_closed' = fm_closed /\ fm_tty' = fm_tty /\ fm_sent' = fm_sent /\ fm_replies' = fm_replies
      /\ fm_view' = fm_view /\ fm_state' = fm_state
  BY DEF fm_vars
<1>2. TableGood(fm_fh', fm_disk', fm_view') /\ DiskGood(fm_disk')
  BY <1>1 DEF FilesInv
<1>3. PacketsGood'
  BY <1>1, PacketsStay DEF FilesInv
<1>4. Own' = Own /\ StdHandles' = StdHandles /\ Usable' = Usable
  BY <1>1 DEF Own, StdHandles, Usable
<1>5. StdGood => StdGood'
  BY <1>1, <1>4 DEF StdGood
<1> QED BY <1>1, <1>2, <1>3, <1>5 DEF FilesInv, TtyRestored

\* What was put back, followed by what the handle has not read, is what the program has
\* not read by its own count.
LEMMA ReadsOnFact ==
    ASSUME NEW d \in Seq(Nat), NEW p \in 0..Len(d), NEW v \in 0..p
    PROVE  SubSeq(d, v + 1, p) \o SubSeq(d, p + 1, Len(d)) = SubSeq(d, v + 1, Len(d))
<1> DEFINE l == Len(d)
           x == SubSeq(d, v + 1, p)
           y == SubSeq(d, p + 1, l)
           z == SubSeq(d, v + 1, l)
<1>1. l \in Nat /\ p \in Nat /\ v \in Nat /\ v <= p /\ p <= l
  OBVIOUS
<1>2. x \in Seq(Nat) /\ Len(x) = p - v /\ \A i \in 1..(p - v) : x[i] = d[v + i]
  BY <1>1
<1>3. y \in Seq(Nat) /\ Len(y) = l - p /\ \A i \in 1..(l - p) : y[i] = d[p + i]
  BY <1>1
<1>4. z \in Seq(Nat) /\ Len(z) = l - v /\ \A i \in 1..(l - v) : z[i] = d[v + i]
  BY <1>1
<1> HIDE DEF x, y, z, l
<1>5. x \o y \in Seq(Nat) /\ Len(x \o y) = l - v
  <2>1. x \o y \in Seq(Nat) /\ Len(x \o y) = Len(x) + Len(y)
    <3>1. x \in Seq(Nat) /\ y \in Seq(Nat)
      BY <1>2, <1>3
    <3> QED BY <3>1, ConcatProperties
  <2>2. (p - v) + (l - p) = l - v
    BY <1>1
  <2> QED BY <2>1, <2>2, <1>2, <1>3
<1>6. \A i \in 1..(l - v) : (x \o y)[i] = z[i]
  <2>1. SUFFICES ASSUME NEW i \in 1..(l - v) PROVE (x \o y)[i] = z[i]
    OBVIOUS
  <2>2. CASE i <= p - v
    BY <2>2, <1>1, <1>2, <1>3, <1>4
  <2>3. CASE ~(i <= p - v)
    <3>1. i - (p - v) \in 1..(l - p) /\ (x \o y)[i] = y[i - (p - v)]
      BY <2>3, <1>1, <1>2, <1>3, SMTT(30)
    <3>2. y[i - (p - v)] = d[p + (i - (p - v))] /\ p + (i - (p - v)) = v + i
      BY <3>1, <1>1, <1>3
    <3> QED BY <3>1, <3>2, <1>4
  <2> QED BY <2>2, <2>3
<1>7. x \o y = z
  BY <1>4, <1>5, <1>6, <1>1, SeqEqual
<1> QED BY <1>7 DEF x, y, z, l

\* The invariants of the handles and of the terminal are what the streams promise.
LEMMA StreamsFollow == FilesInv /\ TerminalInv => StreamsRight
<1> SUFFICES ASSUME FilesInv, TerminalInv PROVE StreamsRight
  OBVIOUS
<1>1. HandlesStand
  BY DEF FilesInv, StdGood, HandlesStand
<1>2. DiskGood(fm_disk) /\ \A a \in DOMAIN fm_fh : HandleGood(fm_fh[a], fm_disk, At(fm_view, a))
  BY DEF FilesInv, TableGood
<1>3. PosInFile
  <2>1. ASSUME NEW a \in DOMAIN fm_fh PROVE fm_fh[a].pos <= Len(Content(fm_fh[a]))
    <3>1. fm_fh[a].pos \in 0..Len(Content(fm_fh[a])) /\ Len(Content(fm_fh[a])) \in Nat
      BY <1>2, ContentFacts
    <3> QED BY <3>1
  <2> QED BY <2>1 DEF PosInFile
<1>4. ReadsOn
  <2>1. SUFFICES ASSUME NEW a \in Own, a \in DOMAIN fm_fh, fm_fh[a].obj = "file", fm_view[a] # Unknown
                 PROVE  fm_fh[a].unch \o Rest(Content(fm_fh[a]), fm_fh[a].pos) = Rest(Content(fm_fh[a]), fm_view[a])
    BY DEF ReadsOn
  <2> DEFINE h == fm_fh[a]
             d == Content(h)
             v == fm_view[a]
  <2>2. HandleGood(h, fm_disk, v)
    BY <2>1, <1>2 DEF At, Own
  <2>3. d \in Seq(Nat) /\ h.pos \in 0..Len(d) /\ v \in 0..h.pos /\ h.unch = SubSeq(d, v + 1, h.pos)
    BY <2>1, <2>2, <1>2, ContentFacts
  <2> HIDE DEF h, d, v
  <2>4. SubSeq(d, v + 1, h.pos) \o SubSeq(d, h.pos + 1, Len(d)) = SubSeq(d, v + 1, Len(d))
    BY <2>3, ReadsOnFact
  <2>5. h.unch \o Rest(d, h.pos) = Rest(d, v)
    BY <2>3, <2>4 DEF Rest
  <2> QED BY <2>5 DEF h, d, v
<1>5. PacketsAnswered
  <2>1. SUFFICES ASSUME fm_state # "raised" PROVE Len(fm_replies) = fm_sent /\ \A i \in DOMAIN fm_replies : fm_replies[i].no = i
    BY DEF PacketsAnswered
  <2>2. fm_replies \in Seq(Replies) /\ Len(fm_replies) = fm_sent /\ \A i \in 1..Len(fm_replies) : fm_replies[i].no = i
    BY <2>1 DEF FilesInv, PacketsGood
  <2>3. DOMAIN fm_replies = 1..Len(fm_replies)
    BY <2>2
  <2> QED BY <2>2, <2>3
<1>6. TtyRestored /\ TerminalLossless
  BY DEF FilesInv, TerminalInv
<1> QED BY <1>1, <1>3, <1>4, <1>5, <1>6 DEF StreamsRight

\* A program reads on exactly where it was by its own count, whatever it read, put back,
\* wrote or sought before; its handles stand, its packets are answered in order, its
\* terminal is restored, and what was typed is read once and in order.
THEOREM StreamsAreRight == FilesSpec => []StreamsRight
<1>1. FilesInit /\ TerminalInit => FilesInv /\ TerminalInv
  BY FilesStarts, TerminalStarts
<1>2. /\ FilesInv /\ TerminalInv
      /\ [(FilesNext /\ UNCHANGED tt_vars) \/ (TerminalNext /\ UNCHANGED fm_vars)]_<<fm_vars, tt_vars>>
      => FilesInv' /\ TerminalInv'
  <2>1. FilesInv /\ TerminalInv /\ UNCHANGED <<fm_vars, tt_vars>> => FilesInv' /\ TerminalInv'
    BY FilesRest, TerminalRest
  <2> QED BY <2>1, FilesSteps, TerminalSteps, FilesRest, TerminalRest
<1> QED BY <1>1, <1>2, StreamsFollow, PTL DEF FilesSpec

-----------------------------------------------------------------------------
(* Variables.                                                              *)

\* All processes there have been.
Everyone == ToSet(dv_procs) \cup dv_ended
Used == 1..(dv_next - 1)
VarNodes == [owner : Nat, key : (VarNames \cup {"v"}) \X VarTypes, buf : Nat, value : Seq(STRING)]

ProcsGood ==
    /\ dv_next \in Nat \ {0}
    /\ dv_procs \in Seq(Used) /\ dv_procs # <<>> /\ dv_ended \subseteq Used
NodesGood ==
    /\ dv_nodes \in [DOMAIN dv_nodes -> VarNodes]
    /\ \A a \in DOMAIN dv_nodes : dv_nodes[a].owner \in Everyone
    /\ \A a, b \in DOMAIN dv_nodes : dv_nodes[a].buf \notin DOMAIN dv_nodes /\ (dv_nodes[a].buf = dv_nodes[b].buf => a = b)
\* The table has every variable under its key, and the text that was stored last.
Tabled ==
    /\ \A k \in DOMAIN dv_table : dv_table[k] \in DOMAIN dv_nodes /\ dv_nodes[dv_table[k]].key = k
    /\ \A a \in DOMAIN dv_nodes : dv_nodes[a].key \in DOMAIN dv_table /\ dv_table[dv_nodes[a].key] = a
    /\ DOMAIN dv_last = DOMAIN dv_table
    /\ \A k \in DOMAIN dv_table : dv_last[k] = dv_nodes[dv_table[k]].value
\* Every address is taken for one thing.
Apart ==
    /\ VarMem(dv_nodes) \subseteq Used /\ SegMem(dv_segs) \subseteq Used /\ ErrMem(dv_errs) \subseteq Used /\ HeldMem(dv_held) \subseteq Used
    /\ VarMem(dv_nodes) \cap SegMem(dv_segs) = {} /\ VarMem(dv_nodes) \cap ErrMem(dv_errs) = {} /\ VarMem(dv_nodes) \cap HeldMem(dv_held) = {}
    /\ SegMem(dv_segs) \cap ErrMem(dv_errs) = {} /\ SegMem(dv_segs) \cap HeldMem(dv_held) = {} /\ ErrMem(dv_errs) \cap HeldMem(dv_held) = {}
HeldGood ==
    /\ \A x, y \in dv_held : x = y
    /\ \A x \in dv_held : x.kind # "devproc" \/ x.buf = 0
SegsGood ==
    /\ dv_segs \in Seq([addr : Nat, name : VarNames, uc : {1, -1}]) /\ Len(dv_segs) <= 2
    /\ \A i, j \in 1..Len(dv_segs) : dv_segs[i].addr = dv_segs[j].addr => i = j

\* New nodes are put in front, so a list has its nodes from the newest to the oldest.
\* y follows the nodes of S from c on; y stands before them.
Older(S, c, p, y) ==
    \/ y = Tail_(p) /\ \A b \in S : ~(b < c)
    \/ \E b \in S : y = Node(b) /\ b < c /\ \A d \in S : d < c => d <= b
Newer(S, c, p, y) ==
    \/ y = Head_(p) /\ \A b \in S : ~(b > c)
    \/ \E b \in S : y = Node(b) /\ b > c /\ \A d \in S : d > c => b <= d
\* The links of the list of process p.
Chain(succ, pred, p, S, top) ==
    /\ {Head_(p)} \cup {Node(a) : a \in S} \subseteq DOMAIN succ
    /\ {Tail_(p)} \cup {Node(a) : a \in S} \subseteq DOMAIN pred
    /\ Older(S, top, p, succ[Head_(p)]) /\ \A a \in S : Older(S, a, p, succ[Node(a)])
    /\ Newer(S, 0, p, pred[Tail_(p)]) /\ \A a \in S : Newer(S, a, p, pred[Node(a)])
LinksGood ==
    /\ DOMAIN dv_succ = {Head_(p) : p \in Everyone} \cup {Node(a) : a \in DOMAIN dv_nodes}
    /\ DOMAIN dv_pred = {Tail_(p) : p \in Everyone} \cup {Node(a) : a \in DOMAIN dv_nodes}
    /\ \A p \in Everyone : Chain(dv_succ, dv_pred, p, OwnVars(p), dv_next)

VarsInv ==
    /\ ProcsGood /\ NodesGood /\ Tabled /\ MemOwned /\ Apart /\ HeldGood /\ SegsGood
    /\ dv_state = "run" => LinksGood
    /\ VarFinds

-----------------------------------------------------------------------------
(* Links.                                                                  *)

\* Heads, tails and nodes are different cells.
LEMMA Cells ==
    /\ \A p, q : (Head_(p) = Head_(q) => p = q) /\ (Tail_(p) = Tail_(q) => p = q) /\ (Node(p) = Node(q) => p = q)
    /\ \A p, q : Head_(p) # Tail_(q) /\ Head_(p) # Node(q) /\ Tail_(p) # Node(q)
BY DEF Head_, Tail_, Node

\* A list is the same below any bound of its nodes.
LEMMA ChainTop ==
    ASSUME NEW succ, NEW pred, NEW p, NEW top \in Nat, NEW top2 \in Nat, NEW S, S \subseteq 1..(top - 1),
           top <= top2, Chain(succ, pred, p, S, top)
    PROVE  Chain(succ, pred, p, S, top2)
<1>1. \A b \in S : b < top /\ b < top2
  OBVIOUS
<1>2. Older(S, top2, p, succ[Head_(p)])
  BY <1>1 DEF Chain, Older
<1> QED BY <1>2 DEF Chain

\* It does not depend on other cells.
LEMMA ChainElse ==
    ASSUME NEW succ, NEW pred, NEW succ2, NEW pred2, NEW p, NEW top, NEW S, Chain(succ, pred, p, S, top),
           \A x \in {Head_(p)} \cup {Node(a) : a \in S} : x \in DOMAIN succ2 /\ succ2[x] = succ[x],
           \A x \in {Tail_(p)} \cup {Node(a) : a \in S} : x \in DOMAIN pred2 /\ pred2[x] = pred[x]
    PROVE  Chain(succ2, pred2, p, S, top)
<1>1. succ2[Head_(p)] = succ[Head_(p)] /\ pred2[Tail_(p)] = pred[Tail_(p)]
  OBVIOUS
<1>2. \A a \in S : succ2[Node(a)] = succ[Node(a)] /\ pred2[Node(a)] = pred[Node(a)]
  OBVIOUS
<1> QED BY <1>1, <1>2 DEF Chain

\* A new node goes to the head.
LEMMA ChainInsert ==
    ASSUME NEW succ, NEW pred, NEW p, NEW a \in Nat \ {0}, NEW S, S \subseteq 1..(a - 1), Chain(succ, pred, p, S, a),
           NEW succ2, NEW pred2,
           succ2 = Mapped(Mapped(succ, Node(a), succ[Head_(p)]), Head_(p), Node(a)),
           pred2 = Mapped(Mapped(pred, Node(a), Head_(p)), succ[Head_(p)], Node(a))
    PROVE  Chain(succ2, pred2, p, S \cup {a}, a + 1)
<1> DEFINE first == succ[Head_(p)]
           s1 == Mapped(succ, Node(a), first)
           p1 == Mapped(pred, Node(a), Head_(p))
           S2 == S \cup {a}
<1>1. /\ {Head_(p)} \cup {Node(b) : b \in S} \subseteq DOMAIN succ
      /\ {Tail_(p)} \cup {Node(b) : b \in S} \subseteq DOMAIN pred
      /\ Older(S, a, p, first) /\ (\A b \in S : Older(S, b, p, succ[Node(b)]))
      /\ Newer(S, 0, p, pred[Tail_(p)]) /\ \A b \in S : Newer(S, b, p, pred[Node(b)])
  BY DEF Chain
<1>2. \A b \in S : b \in Nat /\ 0 < b /\ b < a
  OBVIOUS
<1> HIDE DEF first
<1>3. DOMAIN s1 = DOMAIN succ \cup {Node(a)} /\ s1[Node(a)] = first /\ \A x \in DOMAIN succ : x # Node(a) => s1[x] = succ[x]
  BY DEF Mapped
<1>4. DOMAIN p1 = DOMAIN pred \cup {Node(a)} /\ p1[Node(a)] = Head_(p) /\ \A x \in DOMAIN pred : x # Node(a) => p1[x] = pred[x]
  BY DEF Mapped
<1> HIDE DEF s1, p1
<1>5. succ2 = Mapped(s1, Head_(p), Node(a)) /\ pred2 = Mapped(p1, first, Node(a))
  BY DEF s1, p1, first
<1>6. DOMAIN succ2 = DOMAIN s1 \cup {Head_(p)} /\ succ2[Head_(p)] = Node(a) /\ \A x \in DOMAIN s1 : x # Head_(p) => succ2[x] = s1[x]
  BY <1>5 DEF Mapped
<1>7. DOMAIN pred2 = DOMAIN p1 \cup {first} /\ pred2[first] = Node(a) /\ \A x \in DOMAIN p1 : x # first => pred2[x] = p1[x]
  BY <1>5 DEF Mapped
<1>8. first = Tail_(p) \/ \E b \in S : first = Node(b)
  BY <1>1 DEF Older
<1>9. first # Node(a)
  BY <1>8, <1>2, Cells
<1>10. succ2[Node(a)] = first /\ pred2[Node(a)] = Head_(p) /\ \A b \in S : succ2[Node(b)] = succ[Node(b)]
  <2>1. Node(a) # Head_(p) /\ \A b \in S : Node(b) # Head_(p) /\ Node(b) # Node(a) /\ Node(b) \in DOMAIN succ
    BY <1>1, <1>2, Cells
  <2> QED BY <2>1, <1>3, <1>4, <1>6, <1>7, <1>9
<1>11. /\ \A b \in S : Node(b) # first => pred2[Node(b)] = pred[Node(b)]
       /\ Tail_(p) # first => pred2[Tail_(p)] = pred[Tail_(p)]
  <2>1. \A b \in S : Node(b) # Node(a) /\ Node(b) \in DOMAIN pred
    BY <1>1, <1>2, Cells
  <2>2. Tail_(p) # Node(a) /\ Tail_(p) \in DOMAIN pred
    BY <1>1, Cells
  <2> QED BY <2>1, <2>2, <1>4, <1>7
<1>12. Older(S2, a + 1, p, Node(a))
  BY <1>2 DEF Older
<1>13. Older(S2, a, p, first)
  BY <1>1, <1>2 DEF Older
<1>14. ASSUME NEW b \in S PROVE Older(S2, b, p, succ[Node(b)])
  BY <1>1, <1>2 DEF Older
<1>15. Newer(S2, a, p, Head_(p))
  BY <1>2 DEF Newer
<1>16. Newer(S2, 0, p, pred2[Tail_(p)])
  <2>1. CASE first = Tail_(p)
    <3>1. S = {}
      BY <2>1, <1>1, <1>2, Cells DEF Older
    <3> QED BY <2>1, <3>1, <1>7 DEF Newer
  <2>2. CASE first # Tail_(p)
    <3>1. PICK b \in S : first = Node(b)
      BY <2>2, <1>8
    <3>2. PICK c \in S : pred[Tail_(p)] = Node(c) /\ \A d \in S : d > 0 => c <= d
      BY <3>1, <1>1, <1>2 DEF Newer
    <3> QED BY <2>2, <3>2, <1>2, <1>11 DEF Newer
  <2> QED BY <2>1, <2>2
<1>17. ASSUME NEW b \in S PROVE Newer(S2, b, p, pred2[Node(b)])
  <2>1. CASE first = Node(b)
    <3>1. \A d \in S : d <= b
      BY <2>1, <1>1, <1>2, Cells DEF Older
    <3> QED BY <2>1, <3>1, <1>2, <1>7 DEF Newer
  <2>2. CASE first # Node(b)
    <3>1. PICK c \in S : first = Node(c) /\ \A d \in S : d <= c
      BY <1>1, <1>2, <1>17 DEF Older
    <3>2. c # b /\ c > b
      BY <3>1, <2>2, <1>2
    <3>3. PICK e \in S : pred[Node(b)] = Node(e) /\ e > b /\ \A d \in S : d > b => e <= d
      BY <3>2, <1>1 DEF Newer
    <3> QED BY <2>2, <3>3, <1>2, <1>11 DEF Newer
  <2> QED BY <2>1, <2>2
<1>18. {Head_(p)} \cup {Node(b) : b \in S2} \subseteq DOMAIN succ2 /\ {Tail_(p)} \cup {Node(b) : b \in S2} \subseteq DOMAIN pred2
  BY <1>1, <1>3, <1>4, <1>6, <1>7
<1> QED BY <1>6, <1>10, <1>12, <1>13, <1>14, <1>15, <1>16, <1>17, <1>18 DEF Chain

\* A node goes, and its neighbours are linked.
LEMMA ChainDelete ==
    ASSUME NEW succ, NEW pred, NEW p, NEW top \in Nat, NEW S, S \subseteq 1..(top - 1), NEW a \in S, Chain(succ, pred, p, S, top),
           NEW succ2, NEW pred2,
           succ2 = Unmapped(Mapped(succ, pred[Node(a)], succ[Node(a)]), Node(a)),
           pred2 = Unmapped(Mapped(pred, succ[Node(a)], pred[Node(a)]), Node(a))
    PROVE  Chain(succ2, pred2, p, S \ {a}, top)
<1> DEFINE s == succ[Node(a)]
           q == pred[Node(a)]
           s1 == Mapped(succ, q, s)
           p1 == Mapped(pred, s, q)
           S2 == S \ {a}
<1>1. /\ {Head_(p)} \cup {Node(b) : b \in S} \subseteq DOMAIN succ
      /\ {Tail_(p)} \cup {Node(b) : b \in S} \subseteq DOMAIN pred
      /\ Older(S, top, p, succ[Head_(p)]) /\ (\A b \in S : Older(S, b, p, succ[Node(b)]))
      /\ Newer(S, 0, p, pred[Tail_(p)]) /\ \A b \in S : Newer(S, b, p, pred[Node(b)])
  BY DEF Chain
<1>2. Older(S, a, p, s) /\ Newer(S, a, p, q)
  BY <1>1
<1>3. \A b \in S : b \in Nat /\ 0 < b /\ b < top
  OBVIOUS
<1>4. succ2 = Unmapped(s1, Node(a)) /\ pred2 = Unmapped(p1, Node(a))
  OBVIOUS
<1> HIDE DEF s, q
<1>5. DOMAIN s1 = DOMAIN succ \cup {q} /\ s1[q] = s /\ \A x \in DOMAIN succ : x # q => s1[x] = succ[x]
  BY DEF Mapped
<1>6. DOMAIN p1 = DOMAIN pred \cup {s} /\ p1[s] = q /\ \A x \in DOMAIN pred : x # s => p1[x] = pred[x]
  BY DEF Mapped
<1> HIDE DEF s1, p1
<1>7. DOMAIN succ2 = DOMAIN s1 \ {Node(a)} /\ \A x \in DOMAIN s1 : x # Node(a) => succ2[x] = s1[x]
  BY <1>4 DEF Unmapped
<1>8. DOMAIN pred2 = DOMAIN p1 \ {Node(a)} /\ \A x \in DOMAIN p1 : x # Node(a) => pred2[x] = p1[x]
  BY <1>4 DEF Unmapped
<1>9. \/ q = Head_(p) /\ \A b \in S : ~(b > a)
      \/ \E c \in S : q = Node(c) /\ c > a /\ \A d \in S : d > a => c <= d
  BY <1>2 DEF Newer
<1>10. \/ s = Tail_(p) /\ \A b \in S : ~(b < a)
       \/ \E c \in S : s = Node(c) /\ c < a /\ \A d \in S : d < a => d <= c
  BY <1>2 DEF Older
<1>11. q # Node(a) /\ s # Node(a) /\ Head_(p) # Node(a) /\ Tail_(p) # Node(a) /\ \A e \in S2 : Node(e) # Node(a)
  <2>1. \A c \in S : c # a => Node(c) # Node(a)
    BY Cells
  <2>2. Head_(p) # Node(a) /\ Tail_(p) # Node(a)
    BY Cells
  <2>3. q # Node(a) /\ s # Node(a)
    BY <2>1, <2>2, <1>3, <1>9, <1>10
  <2> QED BY <2>1, <2>2, <2>3
<1>12. succ2[q] = s /\ pred2[s] = q
  BY <1>5, <1>6, <1>7, <1>8, <1>11
<1>13. \A x \in {Head_(p)} \cup {Node(b) : b \in S2} : x # Node(a) /\ x \in DOMAIN succ2 /\ (x # q => succ2[x] = succ[x])
  BY <1>1, <1>5, <1>7, <1>11
<1>14. \A x \in {Tail_(p)} \cup {Node(b) : b \in S2} : x # Node(a) /\ x \in DOMAIN pred2 /\ (x # s => pred2[x] = pred[x])
  BY <1>1, <1>6, <1>8, <1>11
<1>15. Older(S2, top, p, succ2[Head_(p)])
  <2>1. CASE q = Head_(p)
    <3>1. \A b \in S : ~(b > a)
      BY <2>1, <1>9, Cells
    <3> QED BY <2>1, <3>1, <1>3, <1>10, <1>12 DEF Older
  <2>2. CASE q # Head_(p)
    <3>1. PICK c \in S : q = Node(c) /\ c > a
      BY <2>2, <1>9
    <3>2. PICK m \in S : succ[Head_(p)] = Node(m) /\ \A d \in S : d <= m
      BY <1>1, <1>3 DEF Older
    <3>3. m # a
      BY <3>1, <3>2, <1>3
    <3> QED BY <2>2, <3>2, <3>3, <1>3, <1>13 DEF Older
  <2> QED BY <2>1, <2>2
<1>16. ASSUME NEW e \in S2 PROVE Older(S2, e, p, succ2[Node(e)])
  <2>0. e \in S /\ e # a /\ e \in Nat
    BY <1>3
  <2>1. CASE q = Node(e)
    <3>1. e > a /\ \A d \in S : d > a => e <= d
      BY <2>1, <1>9, Cells
    <3>2. succ2[Node(e)] = s
      BY <2>1, <1>12
    <3>3. Older(S2, e, p, s)
      BY <3>1, <1>3, <1>10 DEF Older
    <3> QED BY <3>2, <3>3
  <2>2. CASE q # Node(e)
    <3>1. succ2[Node(e)] = succ[Node(e)] /\ Older(S, e, p, succ[Node(e)])
      BY <2>2, <1>1, <1>13
    <3>2. CASE \E m \in S : succ[Node(e)] = Node(m) /\ m < e /\ \A d \in S : d < e => d <= m
      <4>1. PICK m \in S : succ[Node(e)] = Node(m) /\ m < e /\ \A d \in S : d < e => d <= m
        BY <3>2
      <4>2. ASSUME m = a PROVE FALSE
        <5>1. e > a
          BY <4>1, <4>2
        <5>2. PICK c \in S : q = Node(c) /\ c > a /\ \A d \in S : d > a => c <= d
          BY <5>1, <1>9, <2>0
        <5>3. c <= e /\ ~(c < e)
          BY <5>1, <5>2, <4>1, <4>2, <1>3, <2>0
        <5>4. c = e
          BY <5>3, <1>3, <2>0
        <5> QED BY <5>2, <5>4, <2>2
      <4> QED BY <3>1, <4>1, <4>2 DEF Older
    <3>3. CASE succ[Node(e)] = Tail_(p) /\ \A b \in S : ~(b < e)
      BY <3>1, <3>3 DEF Older
    <3> QED BY <3>1, <3>2, <3>3 DEF Older
  <2> QED BY <2>1, <2>2
<1>17. Newer(S2, 0, p, pred2[Tail_(p)])
  <2>1. CASE s = Tail_(p)
    <3>1. \A b \in S : ~(b < a)
      BY <2>1, <1>10, Cells
    <3> QED BY <2>1, <3>1, <1>3, <1>9, <1>12 DEF Newer
  <2>2. CASE s # Tail_(p)
    <3>1. PICK c \in S : s = Node(c) /\ c < a
      BY <2>2, <1>10
    <3>2. PICK m \in S : pred[Tail_(p)] = Node(m) /\ \A d \in S : m <= d
      BY <1>1, <1>3 DEF Newer
    <3>3. m # a
      BY <3>1, <3>2, <1>3
    <3> QED BY <2>2, <3>2, <3>3, <1>3, <1>14 DEF Newer
  <2> QED BY <2>1, <2>2
<1>18. ASSUME NEW e \in S2 PROVE Newer(S2, e, p, pred2[Node(e)])
  <2>0. e \in S /\ e # a /\ e \in Nat
    BY <1>3
  <2>1. CASE s = Node(e)
    <3>1. e < a /\ \A d \in S : d < a => d <= e
      BY <2>1, <1>10, Cells
    <3>2. pred2[Node(e)] = q
      BY <2>1, <1>12
    <3>3. Newer(S2, e, p, q)
      BY <3>1, <1>3, <1>9 DEF Newer
    <3> QED BY <3>2, <3>3
  <2>2. CASE s # Node(e)
    <3>1. pred2[Node(e)] = pred[Node(e)] /\ Newer(S, e, p, pred[Node(e)])
      BY <2>2, <1>1, <1>14
    <3>2. CASE \E m \in S : pred[Node(e)] = Node(m) /\ m > e /\ \A d \in S : d > e => m <= d
      <4>1. PICK m \in S : pred[Node(e)] = Node(m) /\ m > e /\ \A d \in S : d > e => m <= d
        BY <3>2
      <4>2. ASSUME m = a PROVE FALSE
        <5>1. e < a
          BY <4>1, <4>2
        <5>2. PICK c \in S : s = Node(c) /\ c < a /\ \A d \in S : d < a => d <= c
          BY <5>1, <1>10, <2>0
        <5>3. e <= c /\ ~(e < c)
          BY <5>1, <5>2, <4>1, <4>2, <1>3, <2>0
        <5>4. c = e
          BY <5>3, <1>3, <2>0
        <5> QED BY <5>2, <5>4, <2>2
      <4> QED BY <3>1, <4>1, <4>2 DEF Newer
    <3>3. CASE pred[Node(e)] = Head_(p) /\ \A b \in S : ~(b > e)
      BY <3>1, <3>3 DEF Newer
    <3> QED BY <3>1, <3>2, <3>3 DEF Newer
  <2> QED BY <2>1, <2>2
<1>19. {Head_(p)} \cup {Node(b) : b \in S2} \subseteq DOMAIN succ2 /\ {Tail_(p)} \cup {Node(b) : b \in S2} \subseteq DOMAIN pred2
  BY <1>13, <1>14
<1> QED BY <1>15, <1>16, <1>17, <1>18, <1>19 DEF Chain

-----------------------------------------------------------------------------
(* What calls keep.                                                        *)

\* The elements of a sequence with one more at either end, or one less.
LEMMA ToSetIs == ASSUME NEW T, NEW s \in Seq(T) PROVE ToSet(s) = {s[i] : i \in 1..Len(s)}
BY DEF ToSet

\* A sequence with one more at its end has one more element.
LEMMA ToSetAppend ==
    ASSUME NEW T, NEW s \in Seq(T), NEW e \in T
    PROVE  Append(s, e) \in Seq(T) /\ ToSet(Append(s, e)) = ToSet(s) \cup {e} /\ Append(s, e) # <<>>
<1> DEFINE u == Append(s, e)
<1>1. u \in Seq(T) /\ Len(u) = Len(s) + 1 /\ u[Len(s) + 1] = e /\ \A i \in 1..Len(s) : u[i] = s[i]
  OBVIOUS
<1>4. Len(s) \in Nat /\ \A i \in 1..(Len(s) + 1) : i = Len(s) + 1 \/ i \in 1..Len(s)
  OBVIOUS
<1> HIDE DEF u
<1>2. ToSet(u) = {u[i] : i \in 1..(Len(s) + 1)} /\ ToSet(s) = {s[i] : i \in 1..Len(s)}
  BY <1>1, ToSetIs
<1>6. ToSet(u) = ToSet(s) \cup {e}
  BY <1>1, <1>2, <1>4
<1>7. u # <<>>
  BY <1>1, <1>4
<1> QED BY <1>1, <1>6, <1>7 DEF u

\* So has one with one more in front, and the others move on by one.
LEMMA ToSetCons ==
    ASSUME NEW T, NEW s \in Seq(T), NEW e \in T
    PROVE  /\ <<e>> \o s \in Seq(T) /\ ToSet(<<e>> \o s) = ToSet(s) \cup {e} /\ Len(<<e>> \o s) = Len(s) + 1
           /\ (<<e>> \o s)[1] = e /\ \A i \in 1..Len(s) : (<<e>> \o s)[i + 1] = s[i]
<1> DEFINE w == <<e>> \o s
<1>2. w \in Seq(T) /\ Len(w) = Len(s) + 1 /\ w[1] = e /\ \A i \in 1..Len(s) : w[i + 1] = s[i]
  OBVIOUS
<1>4. Len(s) \in Nat /\ \A i \in 1..Len(s) : i + 1 \in 1..(Len(s) + 1)
  OBVIOUS
<1>5. \A i \in 1..(Len(s) + 1) : i = 1 \/ (i - 1 \in 1..Len(s) /\ (i - 1) + 1 = i)
  OBVIOUS
<1> HIDE DEF w
<1>3. ToSet(w) = {w[i] : i \in 1..(Len(s) + 1)} /\ ToSet(s) = {s[i] : i \in 1..Len(s)}
  BY <1>2, ToSetIs
<1>6. \A i \in 1..(Len(s) + 1) : w[i] = e \/ w[i] \in ToSet(s)
  <2> SUFFICES ASSUME NEW i \in 1..(Len(s) + 1), i # 1 PROVE w[i] \in ToSet(s)
    BY <1>2
  <2>1. i - 1 \in 1..Len(s) /\ (i - 1) + 1 = i
    BY <1>5
  <2>2. w[i] = s[i - 1]
    BY <2>1, <1>2
  <2> QED BY <2>1, <2>2, <1>3
<1>7. 1 \in 1..(Len(s) + 1)
  BY <1>4
<1>8. \A i \in 1..Len(s) : s[i] \in ToSet(w)
  BY <1>2, <1>3, <1>4
<1>9. e \in ToSet(w)
  BY <1>2, <1>3, <1>7
<1>10. ToSet(w) = ToSet(s) \cup {e}
  BY <1>3, <1>6, <1>8, <1>9
<1> QED BY <1>2, <1>10 DEF w

\* The last element of a sequence is what Front() leaves out.
LEMMA ToSetFront ==
    ASSUME NEW T, NEW s \in Seq(T), s # <<>>
    PROVE  /\ Front(s) \in Seq(T) /\ Last(s) \in T /\ ToSet(s) = ToSet(Front(s)) \cup {Last(s)}
           /\ Len(s) > 1 => Front(s) # <<>>
<1> DEFINE f == Front(s)
<1>1. Len(s) \in Nat \ {0} /\ f = SubSeq(s, 1, Len(s) - 1) /\ Last(s) = s[Len(s)]
  BY DEF Front, Last
<1>2. Len(s) - 1 \in Nat /\ Len(s) \in 1..Len(s) /\ \A i \in 1..Len(s) : i = Len(s) \/ i \in 1..(Len(s) - 1)
  BY <1>1
<1>3. \A i \in 1..(Len(s) - 1) : i \in 1..Len(s)
  BY <1>1
<1> HIDE DEF f
<1>4. f \in Seq(T) /\ Len(f) = Len(s) - 1 /\ \A i \in 1..(Len(s) - 1) : f[i] = s[i]
  <2> DEFINE n == Len(s) - 1
  <2>1. 1 \in Int /\ n \in Int /\ n \in Nat /\ \A i \in 1..n : s[i] \in T
    BY <1>1, <1>2, <1>3
  <2> HIDE DEF n
  <2>2. /\ SubSeq(s, 1, n) \in Seq(T) /\ Len(SubSeq(s, 1, n)) = IF 1 <= n THEN n - 1 + 1 ELSE 0
        /\ \A i \in 1..(n - 1 + 1) : SubSeq(s, 1, n)[i] = s[1 + i - 1]
    BY <2>1, SubSeqProperties
  <2>3. n - 1 + 1 = n /\ \A i \in 1..n : 1 + i - 1 = i
    BY <2>1
  <2>4. Len(SubSeq(s, 1, n)) = n
    BY <2>1, <2>2
  <2>5. \A i \in 1..n : SubSeq(s, 1, n)[i] = s[i]
    BY <2>2, <2>3
  <2> QED BY <2>2, <2>4, <2>5, <1>1 DEF n
<1>5. ToSet(f) = {f[i] : i \in 1..(Len(s) - 1)} /\ ToSet(s) = {s[i] : i \in 1..Len(s)}
  BY <1>4, ToSetIs
<1>6. ToSet(s) = ToSet(f) \cup {Last(s)}
  <2>1. ToSet(f) = {s[i] : i \in 1..(Len(s) - 1)}
    BY <1>4, <1>5
  <2> QED BY <2>1, <1>1, <1>2, <1>3, <1>5
<1>7. Last(s) \in T
  BY <1>1, <1>2
<1>8. Len(s) > 1 => f # <<>>
  <2>1. Len(s) > 1 => Len(f) # 0
    BY <1>1, <1>4
  <2>2. Len(<<>>) = 0
    OBVIOUS
  <2> QED BY <2>1, <2>2
<1> QED BY <1>4, <1>6, <1>7, <1>8 DEF f

\* The last element is one of the elements.
LEMMA LastIn == ASSUME NEW T, NEW s \in Seq(T), s # <<>> PROVE Last(s) \in ToSet(s)
<1>1. ToSet(s) = ToSet(Front(s)) \cup {Last(s)}
  BY ToSetFront
<1> QED BY <1>1

\* Addresses are used from below.
LEMMA Wider == ASSUME NEW m \in Nat, NEW n \in Nat, m <= n PROVE 1..(m - 1) \subseteq 1..(n - 1)
OBVIOUS

\* Calls that are not about variables or processes.
LEMMA VarsKept ==
    ASSUME VarsInv, UNCHANGED dv_var, UNCHANGED <<dv_procs, dv_ended, dv_got>>, dv_state' \in {dv_state, "raised"},
           dv_next' \in Nat, dv_next <= dv_next'
    PROVE  ProcsGood' /\ NodesGood' /\ Tabled' /\ (dv_state' = "run" => LinksGood') /\ VarFinds'
<1>1. dv_nodes' = dv_nodes /\ dv_succ' = dv_succ /\ dv_pred' = dv_pred /\ dv_table' = dv_table /\ dv_last' = dv_last
  BY DEF dv_var
<1>2. ProcsGood /\ NodesGood /\ Tabled /\ VarFinds
  BY DEF VarsInv
<1>3. Used \subseteq Used'
  <2>1. dv_next \in Nat
    BY <1>2 DEF ProcsGood
  <2>2. 1..(dv_next - 1) \subseteq 1..(dv_next' - 1)
    BY <2>1, Wider
  <2> QED BY <2>2 DEF Used
<1>4. ProcsGood'
  <2>1. dv_procs \in Seq(Used')
    BY <1>2, <1>3 DEF ProcsGood
  <2> QED BY <2>1, <1>2, <1>3 DEF ProcsGood
<1>5. Everyone' = Everyone /\ \A p \in Everyone : OwnVars(p)' = OwnVars(p)
  BY <1>1 DEF Everyone, OwnVars
<1>6. NodesGood' /\ Tabled' /\ VarFinds'
  BY <1>1, <1>2, <1>5 DEF NodesGood, Tabled, VarFinds
<1>7. ASSUME dv_state' = "run" PROVE LinksGood'
  <2>1. LinksGood
    BY <1>7 DEF VarsInv
  <2>2. ASSUME NEW p \in Everyone PROVE Chain(dv_succ, dv_pred, p, OwnVars(p), dv_next')
    <3>1. Chain(dv_succ, dv_pred, p, OwnVars(p), dv_next)
      BY <2>1 DEF LinksGood
    <3>2. OwnVars(p) \subseteq 1..(dv_next - 1)
      <4>1. DOMAIN dv_nodes \subseteq VarMem(dv_nodes)
        BY DEF VarMem
      <4> QED BY <4>1 DEF OwnVars, VarsInv, Apart, Used
    <3>3. dv_next \in Nat /\ dv_next' \in Nat
      BY <1>2 DEF ProcsGood
    <3> QED BY <3>1, <3>2, <3>3, ChainTop
  <2> QED BY <2>1, <2>2, <1>1, <1>5 DEF LinksGood
<1> QED BY <1>4, <1>6, <1>7

\* Memory, by what it is taken for.
LEMMA Owned == MemOwned <=> dv_mem = VarMem(dv_nodes) \cup SegMem(dv_segs) \cup ErrMem(dv_errs) \cup HeldMem(dv_held)
BY DEF MemOwned

\* Addresses from dv_next on are not taken.
LEMMA FreshMem ==
    ASSUME VarsInv
    PROVE  /\ dv_next \in Nat \ {0} /\ \A n \in Nat : n >= dv_next => n \notin Used
           /\ VarMem(dv_nodes) \subseteq Used /\ SegMem(dv_segs) \subseteq Used /\ ErrMem(dv_errs) \subseteq Used /\ HeldMem(dv_held) \subseteq Used
BY DEF VarsInv, ProcsGood, Apart, Used

\* AddSegment() takes memory for a segment and puts it in front.
LEMMA AddSegmentStep ==
    ASSUME VarsInv, NEW n \in VarNames, NEW system \in {1, -1}, AddSegment(n, system) PROVE VarsInv'
<1> DEFINE e == [addr |-> dv_next, name |-> n, uc |-> system]
           R == [addr : Nat, name : VarNames, uc : {1, -1}]
<1>1. /\ dv_state = "run" /\ Len(dv_segs) < 2 /\ dv_segs' = <<e>> \o dv_segs /\ dv_mem' = dv_mem \cup {dv_next} /\ dv_next' = dv_next + 1
      /\ UNCHANGED <<dv_var, dv_got, dv_procs, dv_ended, dv_state, dv_held, dv_errs>>
  BY DEF AddSegment, Call, KeepVars, KeepProcs
<1>2. dv_next \in Nat \ {0} /\ dv_next' \in Nat /\ dv_next <= dv_next' /\ Used' = Used \cup {dv_next} /\ dv_next \notin Used
  BY <1>1, FreshMem DEF Used
<1>3. ProcsGood' /\ NodesGood' /\ Tabled' /\ (dv_state' = "run" => LinksGood') /\ VarFinds'
  BY <1>1, <1>2, VarsKept
<1>4. dv_segs \in Seq(R) /\ e \in R
  BY <1>2 DEF VarsInv, SegsGood
<1> HIDE DEF R
<1>5. dv_segs' \in Seq(R) /\ ToSet(dv_segs') = ToSet(dv_segs) \cup {e} /\ Len(dv_segs') = Len(dv_segs) + 1
  <2>1. dv_segs' = <<e>> \o dv_segs
    BY <1>1
  <2> HIDE DEF e
  <2>2. <<e>> \o dv_segs \in Seq(R) /\ ToSet(<<e>> \o dv_segs) = ToSet(dv_segs) \cup {e} /\ Len(<<e>> \o dv_segs) = Len(dv_segs) + 1
    BY <1>4, ToSetCons
  <2> QED BY <2>1, <2>2
<1>6. SegMem(dv_segs') = SegMem(dv_segs) \cup {dv_next}
  <2>1. \A u : u \in ToSet(dv_segs') <=> u \in ToSet(dv_segs) \/ u = e
    BY <1>5
  <2>2. e.addr = dv_next
    OBVIOUS
  <2> HIDE DEF e
  <2> QED BY <2>1, <2>2 DEF SegMem
<1>7. dv_nodes' = dv_nodes /\ dv_errs' = dv_errs /\ dv_held' = dv_held
  BY <1>1 DEF dv_var
<1>8. MemOwned'
  <2>1. dv_mem = VarMem(dv_nodes) \cup SegMem(dv_segs) \cup ErrMem(dv_errs) \cup HeldMem(dv_held)
    BY Owned DEF VarsInv
  <2>2. dv_mem' = VarMem(dv_nodes') \cup SegMem(dv_segs') \cup ErrMem(dv_errs') \cup HeldMem(dv_held')
    BY <2>1, <1>1, <1>6, <1>7
  <2> QED BY <2>2 DEF MemOwned
<1>9. Apart'
  BY <1>2, <1>6, <1>7, FreshMem DEF VarsInv, Apart
<1>10. SegsGood'
  <2> USE DEF R
  <2>1. Len(dv_segs) \in Nat /\ Len(dv_segs') <= 2
    BY <1>1, <1>4, <1>5
  <2>2. dv_segs'[1] = e /\ \A i \in 1..Len(dv_segs) : dv_segs'[i + 1] = dv_segs[i]
    BY <1>1, <1>4
  <2>3. \A i \in 1..Len(dv_segs) : dv_segs[i].addr # dv_next
    <3>1. \A i \in 1..Len(dv_segs) : dv_segs[i].addr \in SegMem(dv_segs)
      BY <1>4 DEF SegMem, ToSet
    <3> QED BY <3>1, <1>2, FreshMem
  <2>4. \A i, j \in 1..Len(dv_segs) : dv_segs[i].addr = dv_segs[j].addr => i = j
    BY DEF VarsInv, SegsGood
  <2>5. ASSUME NEW i \in 1..Len(dv_segs'), NEW j \in 1..Len(dv_segs'), dv_segs'[i].addr = dv_segs'[j].addr PROVE i = j
    <3>1. \A k \in 1..Len(dv_segs') : k = 1 \/ (k - 1 \in 1..Len(dv_segs) /\ (k - 1) + 1 = k)
      BY <1>5, <2>1
    <3>2. \A k \in 1..Len(dv_segs') : k = 1 \/ (k - 1 \in 1..Len(dv_segs) /\ dv_segs'[k] = dv_segs[k - 1])
      BY <3>1, <2>2
    <3>3. dv_segs'[1].addr = dv_next
      BY <2>2
    <3>4. CASE i = 1 \/ j = 1
      BY <3>4, <3>2, <3>3, <2>3, <2>5
    <3>5. CASE i # 1 /\ j # 1
      <4>1. /\ i - 1 \in 1..Len(dv_segs) /\ dv_segs'[i] = dv_segs[i - 1]
            /\ j - 1 \in 1..Len(dv_segs) /\ dv_segs'[j] = dv_segs[j - 1]
        BY <3>5, <3>2
      <4>2. i - 1 = j - 1
        BY <4>1, <2>4, <2>5
      <4> QED BY <4>2
    <3> QED BY <3>4, <3>5
  <2> QED BY <2>1, <2>5, <1>5 DEF SegsGood
<1>11. HeldGood'
  BY <1>7 DEF VarsInv, HeldGood
<1> QED BY <1>3, <1>8, <1>9, <1>10, <1>11 DEF VarsInv

\* DosGetString() takes memory for a text once.
LEMMA GetStringStep ==
    ASSUME VarsInv, NEW errno, DosGetString(errno) PROVE VarsInv'
<1>1. /\ dv_state = "run" /\ UNCHANGED <<dv_var, dv_got, dv_procs, dv_ended, dv_state, dv_held, dv_segs>>
      /\ \/ UNCHANGED <<dv_errs, dv_mem, dv_next>>
         \/ errno \notin DOMAIN dv_errs /\ dv_errs' = Mapped(dv_errs, errno, dv_next) /\ dv_mem' = dv_mem \cup {dv_next} /\ dv_next' = dv_next + 1
  BY DEF DosGetString, Call, KeepVars, KeepProcs
<1>2. dv_next \in Nat \ {0} /\ dv_next \notin Used
  BY FreshMem
<1>3. dv_next' \in Nat /\ dv_next <= dv_next'
  BY <1>1, <1>2
<1>4. ProcsGood' /\ NodesGood' /\ Tabled' /\ (dv_state' = "run" => LinksGood') /\ VarFinds'
  BY <1>1, <1>3, VarsKept
<1>5. dv_nodes' = dv_nodes /\ dv_segs' = dv_segs /\ dv_held' = dv_held
  BY <1>1 DEF dv_var
<1>6. HeldGood' /\ SegsGood'
  BY <1>5 DEF VarsInv, HeldGood, SegsGood
<1>7. CASE UNCHANGED <<dv_errs, dv_mem, dv_next>>
  <2>1. MemOwned' /\ Apart'
    BY <1>5, <1>7 DEF VarsInv, MemOwned, Apart, Used
  <2> QED BY <2>1, <1>4, <1>6 DEF VarsInv
<1>8. CASE errno \notin DOMAIN dv_errs /\ dv_errs' = Mapped(dv_errs, errno, dv_next) /\ dv_mem' = dv_mem \cup {dv_next} /\ dv_next' = dv_next + 1
  <2>1. ErrMem(dv_errs') = ErrMem(dv_errs) \cup {dv_next}
    BY <1>8 DEF ErrMem, Mapped
  <2>2. Used' = Used \cup {dv_next}
    BY <1>2, <1>8 DEF Used
  <2>3. Apart'
    BY <2>1, <2>2, <1>2, <1>5, FreshMem DEF VarsInv, Apart
  <2>4. MemOwned'
    <3>1. dv_mem = VarMem(dv_nodes) \cup SegMem(dv_segs) \cup ErrMem(dv_errs) \cup HeldMem(dv_held)
      BY Owned DEF VarsInv
    <3>2. dv_mem' = VarMem(dv_nodes') \cup SegMem(dv_segs') \cup ErrMem(dv_errs') \cup HeldMem(dv_held')
      BY <3>1, <2>1, <1>5, <1>8
    <3> QED BY <3>2 DEF MemOwned
  <2> QED BY <2>3, <2>4, <1>4, <1>6 DEF VarsInv
<1> QED BY <1>1, <1>7, <1>8

\* ReadArgs(), GetDeviceProc(), AllocDosObject() and MakeDosEntry() take what they hold.
LEMMA HoldsStep ==
    ASSUME VarsInv, NEW kind, NEW buf \in BOOLEAN, kind = "devproc" => ~buf, Holds(kind, buf) PROVE VarsInv'
<1> DEFINE x == [kind |-> kind, addr |-> dv_next, buf |-> IF buf THEN dv_next + 1 ELSE 0]
           new == (IF kind = "devproc" THEN {dv_next} ELSE {}) \cup (IF buf THEN {dv_next + 1} ELSE {})
<1>1. /\ dv_state = "run" /\ dv_held = {} /\ dv_held' = {x} /\ dv_mem' = dv_mem \cup new /\ dv_next' = dv_next + 2
      /\ UNCHANGED <<dv_var, dv_got, dv_procs, dv_ended, dv_state, dv_segs, dv_errs>>
  BY DEF Holds, Call, KeepVars, KeepProcs
<1>2. dv_next \in Nat \ {0} /\ dv_next \notin Used /\ dv_next + 1 \notin Used /\ dv_next' \in Nat /\ dv_next <= dv_next'
  <2>1. dv_next \in Nat \ {0} /\ \A n \in Nat : n >= dv_next => n \notin Used
    BY FreshMem
  <2>2. dv_next + 1 \in Nat /\ dv_next + 1 >= dv_next
    BY <2>1
  <2> QED BY <2>1, <2>2, <1>1
<1>3. ProcsGood' /\ NodesGood' /\ Tabled' /\ (dv_state' = "run" => LinksGood') /\ VarFinds'
  BY <1>1, <1>2, VarsKept
<1>4. HeldMem(dv_held) = {} /\ HeldMem(dv_held') = new
  BY <1>1, <1>2 DEF HeldMem
<1>5. dv_nodes' = dv_nodes /\ dv_segs' = dv_segs /\ dv_errs' = dv_errs
  BY <1>1 DEF dv_var
<1>6. Used \subseteq Used' /\ new \subseteq Used' /\ new \cap Used = {}
  BY <1>1, <1>2 DEF Used
<1>7. HeldGood' /\ SegsGood'
  BY <1>1, <1>5 DEF VarsInv, HeldGood, SegsGood
<1> HIDE DEF new, x
<1>8. Apart'
  BY <1>4, <1>5, <1>6 DEF VarsInv, Apart
<1>9. MemOwned'
  <2>1. dv_mem = VarMem(dv_nodes) \cup SegMem(dv_segs) \cup ErrMem(dv_errs) \cup HeldMem(dv_held)
    BY Owned DEF VarsInv
  <2>2. dv_mem' = VarMem(dv_nodes') \cup SegMem(dv_segs') \cup ErrMem(dv_errs') \cup HeldMem(dv_held')
    BY <2>1, <1>1, <1>4, <1>5
  <2> QED BY <2>2 DEF MemOwned
<1> QED BY <1>3, <1>7, <1>8, <1>9 DEF VarsInv

\* What is given back is freed.
LEMMA GivesStep ==
    ASSUME VarsInv, NEW x \in dv_held, Gives(x) PROVE VarsInv'
<1> DEFINE old == {x.buf} \cup (IF x.kind = "devproc" THEN {x.addr} ELSE {})
<1>1. /\ dv_state = "run" /\ dv_held' = dv_held \ {x} /\ dv_mem' = dv_mem \ old
      /\ UNCHANGED <<dv_var, dv_got, dv_procs, dv_ended, dv_state, dv_segs, dv_errs, dv_next>>
  BY DEF Gives, Call, KeepVars, KeepProcs
<1>2. dv_held = {x} /\ dv_held' = {} /\ dv_next \in Nat
  BY <1>1, FreshMem DEF VarsInv, HeldGood
<1>3. ProcsGood' /\ NodesGood' /\ Tabled' /\ (dv_state' = "run" => LinksGood') /\ VarFinds'
  BY <1>1, <1>2, VarsKept
<1>4. HeldMem(dv_held') = {} /\ HeldMem(dv_held) = old \ (IF x.buf = 0 /\ ~(x.kind = "devproc" /\ x.addr = 0) THEN {0} ELSE {})
  <2>1. HeldMem({}) = {}
    BY DEF HeldMem
  <2>2. HeldMem({x}) = (IF x.kind = "devproc" THEN {x.addr} ELSE {}) \cup ({x.buf} \ {0})
    BY DEF HeldMem
  <2> QED BY <2>1, <2>2, <1>2
<1>5. dv_nodes' = dv_nodes /\ dv_segs' = dv_segs /\ dv_errs' = dv_errs /\ Used' = Used /\ 0 \notin Used
  BY <1>1 DEF dv_var, Used
<1>6. HeldGood' /\ SegsGood'
  BY <1>2, <1>5 DEF VarsInv, HeldGood, SegsGood
<1> HIDE DEF old
<1>7. Apart'
  BY <1>4, <1>5 DEF VarsInv, Apart
<1>8. MemOwned'
  <2>1. dv_mem = VarMem(dv_nodes) \cup SegMem(dv_segs) \cup ErrMem(dv_errs) \cup HeldMem(dv_held)
    BY Owned DEF VarsInv
  <2>2. old \subseteq HeldMem(dv_held) \cup {0} /\ HeldMem(dv_held) \subseteq old
    BY <1>4
  <2>3. /\ VarMem(dv_nodes) \cap HeldMem(dv_held) = {} /\ SegMem(dv_segs) \cap HeldMem(dv_held) = {} /\ ErrMem(dv_errs) \cap HeldMem(dv_held) = {}
        /\ 0 \notin VarMem(dv_nodes) /\ 0 \notin SegMem(dv_segs) /\ 0 \notin ErrMem(dv_errs)
    BY <1>5 DEF VarsInv, Apart
  <2>4. dv_mem' = VarMem(dv_nodes') \cup SegMem(dv_segs') \cup ErrMem(dv_errs') \cup HeldMem(dv_held')
    BY <2>1, <2>2, <2>3, <1>1, <1>4, <1>5
  <2> QED BY <2>4 DEF MemOwned
<1> QED BY <1>3, <1>6, <1>7, <1>8 DEF VarsInv

\* When vamos ends nothing is taken or freed.
LEMMA VarsRaiseStep ==
    ASSUME VarsInv, VarsRaise PROVE VarsInv'
<1>1. /\ dv_state' = "raised" /\ UNCHANGED <<dv_var, dv_got, dv_procs, dv_ended, dv_segs, dv_held, dv_errs, dv_mem, dv_next>>
  BY DEF VarsRaise, KeepVars, KeepRest
<1>2. dv_next' \in Nat /\ dv_next <= dv_next'
  BY <1>1, FreshMem
<1>3. ProcsGood' /\ NodesGood' /\ Tabled' /\ (dv_state' = "run" => LinksGood') /\ VarFinds'
  BY <1>1, <1>2, VarsKept
<1>4. dv_nodes' = dv_nodes
  BY <1>1 DEF dv_var
<1>5. MemOwned' /\ Apart' /\ HeldGood' /\ SegsGood'
  BY <1>1, <1>4 DEF VarsInv, MemOwned, Apart, Used, HeldGood, SegsGood
<1> QED BY <1>3, <1>5 DEF VarsInv

-----------------------------------------------------------------------------
(* Variables and processes.                                                *)

\* Variables that exist have addresses.
LEMMA NodeUsed ==
    ASSUME VarsInv
    PROVE  /\ DOMAIN dv_nodes \subseteq Used /\ \A a \in DOMAIN dv_nodes : dv_nodes[a].buf \in Used /\ a # 0
           /\ \A p : OwnVars(p) \subseteq DOMAIN dv_nodes /\ OwnVars(p) \subseteq 1..(dv_next - 1)
<1>1. VarMem(dv_nodes) \subseteq 1..(dv_next - 1)
  BY DEF VarsInv, Apart, Used
<1>2. \A a \in DOMAIN dv_nodes : a \in VarMem(dv_nodes) /\ dv_nodes[a].buf \in VarMem(dv_nodes)
  BY DEF VarMem
<1>3. \A a \in 1..(dv_next - 1) : a # 0
  OBVIOUS
<1> QED BY <1>1, <1>2, <1>3 DEF OwnVars, Used

\* The text that GetVar() gives is the beginning of the value.
LEMMA TextFits ==
    ASSUME NEW v \in Seq(STRING), NEW size \in Nat \ {0}
    PROVE  IsPrefix(VarText(v, size), v) /\ Len(VarText(v, size)) = Min({Len(v), size - 1})
<1> DEFINE m == Min({size - 1, Len(v)})
<1>1. Len(v) \in Nat /\ size - 1 \in Nat
  OBVIOUS
<1>2. m = IF size - 1 <= Len(v) THEN size - 1 ELSE Len(v)
  BY <1>1, MinTwo
<1> HIDE DEF m
<1>3. m \in 0..Len(v)
  BY <1>1, <1>2
<1>4. VarText(v, size) = SubSeq(v, 1, m) /\ {size - 1, Len(v)} = {Len(v), size - 1}
  BY DEF VarText, m
<1>5. Len(SubSeq(v, 1, m)) = m /\ Len(v) \in Nat /\ m <= Len(v)
  BY <1>1, <1>3
<1>6. IsPrefix(SubSeq(v, 1, m), v)
  <2> DEFINE w == SubSeq(v, 1, m)
  <2>1. SubSeq(w, 1, m) = w
    <3>1. w \in Seq(STRING) /\ Len(w) = m
      BY <1>1, <1>3
    <3> HIDE DEF w
    <3>2. \A i \in 1..m : SubSeq(w, 1, m)[i] = w[i]
      BY <3>1
    <3>3. SubSeq(w, 1, m) \in Seq(STRING) /\ Len(SubSeq(w, 1, m)) = m
      BY <3>1, <1>3
    <3> QED BY <3>1, <3>2, <3>3
  <2> QED BY <2>1, <1>5 DEF IsPrefix
<1> QED BY <1>4, <1>5, <1>6 DEF m

\* GetVar() finds the variable that is in the table.
LEMMA GetVarStep ==
    ASSUME VarsInv, NEW n, NEW t, NEW size \in Nat, GetVar(n, t, size) PROVE VarsInv'
<1> DEFINE k == Key(n, t)
           a == find_var(n, t)
           stored == size # 0 /\ k \in DOMAIN dv_last
<1>1. /\ dv_state = "run" /\ UNCHANGED <<dv_var, dv_mem, dv_next, dv_procs, dv_ended, dv_state, dv_segs, dv_held, dv_errs>>
      /\ dv_got' = [ok |-> size # 0 /\ a # 0, text |-> IF size = 0 \/ a = 0 THEN <<>> ELSE VarText(dv_nodes[a].value, size),
                    stored |-> stored, size |-> size, want |-> IF stored THEN dv_last[k] ELSE <<>>]
  BY DEF GetVar, Call, KeepProcs, KeepRest
<1>2. Tabled /\ NodesGood
  BY DEF VarsInv
<1>3. (k \in DOMAIN dv_table => a = dv_table[k] /\ a \in DOMAIN dv_nodes /\ a # 0) /\ (k \notin DOMAIN dv_table => a = 0)
  BY <1>2, NodeUsed DEF find_var, Tabled
<1>4. DOMAIN dv_last = DOMAIN dv_table /\ \A x \in DOMAIN dv_table : dv_last[x] = dv_nodes[dv_table[x]].value
  BY <1>2 DEF Tabled
<1> HIDE DEF a, k
<1>5. VarFinds'
  <2>1. dv_got'.ok = dv_got'.stored
    BY <1>1, <1>3, <1>4
  <2>2. ASSUME dv_got'.ok PROVE IsPrefix(dv_got'.text, dv_got'.want) /\ Len(dv_got'.text) = Min({Len(dv_got'.want), dv_got'.size - 1})
    <3>1. size # 0 /\ a # 0
      BY <1>1, <2>2
    <3>2. k \in DOMAIN dv_table /\ a = dv_table[k] /\ a \in DOMAIN dv_nodes /\ dv_last[k] = dv_nodes[a].value
      BY <3>1, <1>3, <1>4
    <3>3. dv_got'.text = VarText(dv_last[k], size) /\ dv_got'.want = dv_last[k] /\ dv_got'.size = size
      BY <3>1, <3>2, <1>1, <1>4
    <3>4. dv_last[k] \in Seq(STRING)
      BY <3>2, <1>2 DEF NodesGood, VarNodes
    <3> QED BY <3>1, <3>3, <3>4, TextFits
  <2> QED BY <2>1, <2>2 DEF VarFinds
<1>6. dv_nodes' = dv_nodes /\ dv_succ' = dv_succ /\ dv_pred' = dv_pred /\ dv_table' = dv_table /\ dv_last' = dv_last
  BY <1>1 DEF dv_var
<1>7. Used' = Used /\ Everyone' = Everyone /\ \A p : OwnVars(p)' = OwnVars(p)
  BY <1>1, <1>6 DEF Used, Everyone, OwnVars
<1>8. ProcsGood' /\ NodesGood' /\ Tabled' /\ MemOwned' /\ Apart' /\ HeldGood' /\ SegsGood'
  BY <1>1, <1>6, <1>7 DEF VarsInv, ProcsGood, NodesGood, Tabled, MemOwned, Apart, HeldGood, SegsGood
<1>9. LinksGood'
  BY <1>1, <1>6, <1>7 DEF VarsInv, LinksGood
<1> QED BY <1>5, <1>8, <1>9 DEF VarsInv

\* finish_lib() takes what variables and segments have.
LEMMA VarsFinishStep ==
    ASSUME VarsInv, VarsFinish PROVE VarsInv'
<1>1. /\ dv_state' = "done" /\ dv_mem' = dv_mem \ (SegMem(dv_segs) \cup VarMem(dv_nodes))
      /\ dv_nodes' = <<>> /\ dv_table' = <<>> /\ dv_last' = <<>> /\ dv_segs' = <<>>
      /\ UNCHANGED <<dv_procs, dv_ended, dv_got, dv_held, dv_errs, dv_next>>
  BY DEF VarsFinish
<1>2. VarMem(<<>>) = {} /\ SegMem(<<>>) = {} /\ DOMAIN <<>> = {}
  BY DEF VarMem, SegMem, ToSet
<1>3. Used' = Used
  BY <1>1 DEF Used
<1>4. ProcsGood' /\ HeldGood' /\ VarFinds'
  BY <1>1, <1>3 DEF VarsInv, ProcsGood, HeldGood, VarFinds
<1>5. NodesGood' /\ Tabled'
  <2>1. dv_nodes' = [x \in DOMAIN dv_nodes' |-> dv_nodes'[x]]
    BY <1>1, <1>2
  <2> QED BY <2>1, <1>1, <1>2 DEF NodesGood, Tabled
<1>6. SegsGood'
  <2>1. <<>> \in Seq([addr : Nat, name : VarNames, uc : {1, -1}]) /\ Len(<<>>) = 0
    OBVIOUS
  <2> QED BY <2>1, <1>1 DEF SegsGood
<1>7. Apart'
  BY <1>1, <1>2, <1>3 DEF VarsInv, Apart
<1>8. MemOwned'
  BY <1>1, <1>2 DEF VarsInv, Apart, MemOwned
<1> QED BY <1>1, <1>4, <1>5, <1>6, <1>7, <1>8 DEF VarsInv

\* A process starts with an empty list.
LEMMA StartProcessStep ==
    ASSUME VarsInv, StartProcess PROVE VarsInv'
<1> DEFINE q == dv_next
<1>1. /\ dv_state = "run" /\ dv_procs' = Append(dv_procs, q) /\ dv_next' = q + 1
      /\ dv_succ' = Mapped(dv_succ, Head_(q), Tail_(q)) /\ dv_pred' = Mapped(dv_pred, Tail_(q), Head_(q))
      /\ UNCHANGED <<dv_ended, dv_nodes, dv_table, dv_last, dv_got, dv_mem, dv_state, dv_segs, dv_held, dv_errs>>
  BY DEF StartProcess, Call, KeepRest
<1>2. q \in Nat \ {0} /\ q \notin Used
  BY FreshMem
<1>3. Used' = Used \cup {q}
  BY <1>1, <1>2 DEF Used
<1>4. dv_procs \in Seq(Used') /\ q \in Used' /\ dv_procs \in Seq(Used) /\ dv_ended \subseteq Used
  BY <1>3 DEF VarsInv, ProcsGood
<1>5. dv_procs' \in Seq(Used') /\ ToSet(dv_procs') = ToSet(dv_procs) \cup {q} /\ dv_procs' # <<>>
  BY <1>1, <1>4, ToSetAppend
<1>6. Everyone' = Everyone \cup {q} /\ Everyone \subseteq Used
  <2>1. ToSet(dv_procs) \subseteq Used
    BY <1>4, ToSetIs
  <2> QED BY <2>1, <1>1, <1>4, <1>5 DEF Everyone
<1>7. \A p : OwnVars(p)' = OwnVars(p)
  BY <1>1 DEF OwnVars
<1>8. OwnVars(q) = {}
  BY <1>2, <1>6 DEF OwnVars, VarsInv, NodesGood
<1>9. ProcsGood'
  BY <1>1, <1>2, <1>3, <1>4, <1>5 DEF ProcsGood
<1>10. NodesGood' /\ Tabled' /\ MemOwned' /\ HeldGood' /\ SegsGood' /\ VarFinds'
  BY <1>1, <1>6 DEF VarsInv, NodesGood, Tabled, MemOwned, HeldGood, SegsGood, VarFinds
<1>11. Apart'
  BY <1>1, <1>3 DEF VarsInv, Apart
<1>12. LinksGood'
  <2>1. LinksGood
    BY <1>1 DEF VarsInv
  <2>2. /\ DOMAIN dv_succ' = DOMAIN dv_succ \cup {Head_(q)} /\ dv_succ'[Head_(q)] = Tail_(q)
        /\ \A x \in DOMAIN dv_succ : x # Head_(q) => dv_succ'[x] = dv_succ[x]
    BY <1>1 DEF Mapped
  <2>3. /\ DOMAIN dv_pred' = DOMAIN dv_pred \cup {Tail_(q)} /\ dv_pred'[Tail_(q)] = Head_(q)
        /\ \A x \in DOMAIN dv_pred : x # Tail_(q) => dv_pred'[x] = dv_pred[x]
    BY <1>1 DEF Mapped
  <2>4. ASSUME NEW p \in Everyone PROVE Chain(dv_succ', dv_pred', p, OwnVars(p), dv_next')
    <3>1. Chain(dv_succ, dv_pred, p, OwnVars(p), dv_next)
      BY <2>1 DEF LinksGood
    <3>2. Head_(p) # Head_(q) /\ Tail_(p) # Tail_(q)
      BY <1>2, <1>6, Cells
    <3>3. \A a \in OwnVars(p) : Node(a) # Head_(q) /\ Node(a) # Tail_(q)
      BY Cells
    <3>4. {Head_(p)} \cup {Node(a) : a \in OwnVars(p)} \subseteq DOMAIN dv_succ /\ {Tail_(p)} \cup {Node(a) : a \in OwnVars(p)} \subseteq DOMAIN dv_pred
      BY <3>1 DEF Chain
    <3>5. \A x \in {Head_(p)} \cup {Node(a) : a \in OwnVars(p)} : x \in DOMAIN dv_succ' /\ dv_succ'[x] = dv_succ[x]
      BY <2>2, <3>2, <3>3, <3>4
    <3>6. \A x \in {Tail_(p)} \cup {Node(a) : a \in OwnVars(p)} : x \in DOMAIN dv_pred' /\ dv_pred'[x] = dv_pred[x]
      BY <2>3, <3>2, <3>3, <3>4
    <3>7. Chain(dv_succ', dv_pred', p, OwnVars(p), dv_next)
      BY <3>1, <3>5, <3>6, ChainElse
    <3>8. OwnVars(p) \subseteq 1..(dv_next - 1) /\ dv_next \in Nat /\ dv_next' \in Nat /\ dv_next <= dv_next'
      BY <1>1, <1>2, NodeUsed
    <3> QED BY <3>7, <3>8, ChainTop
  <2>5. Chain(dv_succ', dv_pred', q, OwnVars(q), dv_next')
    BY <2>2, <2>3, <1>8 DEF Chain, Older, Newer
  <2>6. \A p \in Everyone' : Chain(dv_succ', dv_pred', p, OwnVars(p)', dv_next')
    BY <2>4, <2>5, <1>6, <1>7
  <2> QED BY <2>1, <2>2, <2>3, <2>6, <1>1, <1>6 DEF LinksGood
<1> QED BY <1>9, <1>10, <1>11, <1>12 DEF VarsInv

\* A process ends, its variables stay.
LEMMA EndProcessStep ==
    ASSUME VarsInv, EndProcess PROVE VarsInv'
<1>1. /\ dv_state = "run" /\ Len(dv_procs) > 1 /\ dv_procs' = Front(dv_procs) /\ dv_ended' = dv_ended \cup {Last(dv_procs)}
      /\ UNCHANGED <<dv_var, dv_got, dv_mem, dv_next, dv_state, dv_segs, dv_held, dv_errs>>
  BY DEF EndProcess, Call, KeepRest, Me
<1>2. dv_procs \in Seq(Used) /\ dv_procs # <<>> /\ dv_ended \subseteq Used
  BY DEF VarsInv, ProcsGood
<1>3. /\ Front(dv_procs) \in Seq(Used) /\ Last(dv_procs) \in Used /\ ToSet(dv_procs) = ToSet(Front(dv_procs)) \cup {Last(dv_procs)}
      /\ Front(dv_procs) # <<>>
  BY <1>1, <1>2, ToSetFront
<1>4. Used' = Used
  BY <1>1 DEF Used
<1>5. Everyone' = Everyone
  BY <1>1, <1>3 DEF Everyone
<1>6. dv_nodes' = dv_nodes /\ dv_succ' = dv_succ /\ dv_pred' = dv_pred /\ dv_table' = dv_table /\ dv_last' = dv_last
  BY <1>1 DEF dv_var
<1>7. \A p : OwnVars(p)' = OwnVars(p)
  BY <1>6 DEF OwnVars
<1>8. ProcsGood'
  BY <1>1, <1>2, <1>3, <1>4 DEF VarsInv, ProcsGood
<1>9. NodesGood' /\ Tabled' /\ MemOwned' /\ Apart' /\ HeldGood' /\ SegsGood' /\ VarFinds'
  BY <1>1, <1>4, <1>5, <1>6 DEF VarsInv, NodesGood, Tabled, MemOwned, Apart, HeldGood, SegsGood, VarFinds
<1>10. LinksGood'
  BY <1>1, <1>5, <1>6, <1>7 DEF VarsInv, LinksGood
<1> QED BY <1>8, <1>9, <1>10 DEF VarsInv

\* What is stored has a key in small letters.
LEMMA KeyIs == ASSUME NEW n \in VarNames, NEW t \in VarTypes PROVE Key(n, t) \in (VarNames \cup {"v"}) \X VarTypes
BY DEF Key, SmallName

\* A variable that exists keeps its node and gets new memory for the value.
LEMMA SetOldStep ==
    ASSUME VarsInv, NEW n \in VarNames, NEW t \in VarTypes, NEW v \in Seq(STRING), find_var(n, t) # 0, SetVar(n, t, v) PROVE VarsInv'
<1> DEFINE k == Key(n, t)
           a == find_var(n, t)
           b == dv_next
           old == dv_nodes[a].buf
<1>1. /\ dv_state = "run" /\ UNCHANGED <<dv_succ, dv_pred, dv_table, dv_got, dv_procs, dv_ended, dv_state, dv_segs, dv_held, dv_errs>>
      /\ dv_nodes' = Mapped(dv_nodes, a, [owner |-> IF a \in DOMAIN dv_nodes THEN dv_nodes[a].owner ELSE Me, key |-> k, buf |-> b, value |-> v])
      /\ dv_last' = Mapped(dv_last, k, v) /\ dv_mem' = (dv_mem \ {old}) \cup {b} /\ dv_next' = b + 1
  BY DEF SetVar, Call, KeepProcs, KeepRest, Stored, set_var_mem
<1>2. Tabled /\ NodesGood /\ LinksGood /\ Apart /\ HeldGood /\ SegsGood /\ ProcsGood /\ VarFinds
  BY <1>1 DEF VarsInv
<1>3. k \in DOMAIN dv_table /\ a = dv_table[k] /\ a \in DOMAIN dv_nodes /\ dv_nodes[a].key = k
  BY <1>2 DEF find_var, Tabled
<1>4. k \in (VarNames \cup {"v"}) \X VarTypes
  BY KeyIs
<1>5. b \in Nat \ {0} /\ b \notin Used /\ VarMem(dv_nodes) \subseteq Used /\ b + 1 \in Nat /\ b <= b + 1
  BY FreshMem
<1>6. Used' = Used \cup {b}
  BY <1>1, <1>5 DEF Used
<1> HIDE DEF k, a, b
<1> DEFINE e == [owner |-> dv_nodes[a].owner, key |-> k, buf |-> b, value |-> v]
<1>7. dv_nodes' = Mapped(dv_nodes, a, e)
  BY <1>1, <1>3
<1>8. e \in VarNodes /\ e.owner = dv_nodes[a].owner /\ e.key = k /\ e.buf = b /\ e.value = v
  <2>1. dv_nodes[a] \in VarNodes
    BY <1>2, <1>3 DEF NodesGood
  <2>2. dv_nodes[a].owner \in Nat
    BY <2>1 DEF VarNodes
  <2> QED BY <2>2, <1>4, <1>5 DEF VarNodes
<1> HIDE DEF e
<1>9. DOMAIN dv_nodes' = DOMAIN dv_nodes /\ dv_nodes'[a] = e /\ \A x \in DOMAIN dv_nodes : x # a => dv_nodes'[x] = dv_nodes[x]
  BY <1>3, <1>7 DEF Mapped
<1>10. dv_nodes' \in [DOMAIN dv_nodes' -> VarNodes]
  <2>1. \A x \in DOMAIN dv_nodes : dv_nodes[x] \in VarNodes
    BY <1>2 DEF NodesGood
  <2>2. \A x \in DOMAIN dv_nodes' : dv_nodes'[x] \in VarNodes
    BY <2>1, <1>8, <1>9
  <2>3. dv_nodes' = [x \in DOMAIN dv_nodes' |-> dv_nodes'[x]]
    BY <1>7 DEF Mapped
  <2> QED BY <2>2, <2>3
<1>11. \A x \in DOMAIN dv_nodes : dv_nodes'[x].owner = dv_nodes[x].owner /\ dv_nodes'[x].key = dv_nodes[x].key
  BY <1>3, <1>8, <1>9
<1>12. Everyone' = Everyone /\ \A p : OwnVars(p)' = OwnVars(p)
  BY <1>1, <1>9, <1>11 DEF Everyone, OwnVars
<1>13. \A x \in DOMAIN dv_nodes : dv_nodes[x].buf # b /\ x # b
  BY <1>5, NodeUsed
<1>14. \A x, y \in DOMAIN dv_nodes : dv_nodes[x].buf \notin DOMAIN dv_nodes /\ (dv_nodes[x].buf = dv_nodes[y].buf => x = y)
  BY <1>2 DEF NodesGood
<1>15. NodesGood'
  <2>1. \A x \in DOMAIN dv_nodes' : dv_nodes'[x].owner \in Everyone'
    BY <1>2, <1>9, <1>11, <1>12 DEF NodesGood
  <2>2. \A x, y \in DOMAIN dv_nodes' : dv_nodes'[x].buf \notin DOMAIN dv_nodes' /\ (dv_nodes'[x].buf = dv_nodes'[y].buf => x = y)
    BY <1>8, <1>9, <1>13, <1>14
  <2> QED BY <2>1, <2>2, <1>10 DEF NodesGood
<1>16. Tabled'
  <2>1. DOMAIN dv_last' = DOMAIN dv_last /\ dv_last'[k] = v /\ \A x \in DOMAIN dv_last : x # k => dv_last'[x] = dv_last[x]
    BY <1>1, <1>2, <1>3 DEF Mapped, Tabled
  <2>2. ASSUME NEW x \in DOMAIN dv_table PROVE dv_last'[x] = dv_nodes'[dv_table[x]].value
    <3>1. CASE x = k
      BY <3>1, <2>1, <1>3, <1>8, <1>9
    <3>2. CASE x # k
      <4>1. dv_table[x] \in DOMAIN dv_nodes /\ dv_nodes[dv_table[x]].key = x /\ x \in DOMAIN dv_last /\ dv_last[x] = dv_nodes[dv_table[x]].value
        BY <1>2 DEF Tabled
      <4>2. dv_table[x] # a
        BY <4>1, <3>2, <1>3
      <4> QED BY <4>1, <4>2, <3>2, <2>1, <1>9
    <3> QED BY <3>1, <3>2
  <2>3. \A x \in DOMAIN dv_table : dv_table[x] \in DOMAIN dv_nodes' /\ dv_nodes'[dv_table[x]].key = x
    BY <1>2, <1>9, <1>11 DEF Tabled
  <2>4. \A x \in DOMAIN dv_nodes' : dv_nodes'[x].key \in DOMAIN dv_table /\ dv_table[dv_nodes'[x].key] = x
    BY <1>2, <1>9, <1>11 DEF Tabled
  <2>5. DOMAIN dv_last' = DOMAIN dv_table
    BY <2>1, <1>2 DEF Tabled
  <2> QED BY <2>2, <2>3, <2>4, <2>5, <1>1 DEF Tabled
<1>17. VarMem(dv_nodes') = (VarMem(dv_nodes) \ {old}) \cup {b}
  <2>1. \A m : m \in VarMem(dv_nodes') <=> \E x \in DOMAIN dv_nodes' : m = x \/ m = dv_nodes'[x].buf
    BY DEF VarMem
  <2>2. \A m : m \in VarMem(dv_nodes) <=> \E x \in DOMAIN dv_nodes : m = x \/ m = dv_nodes[x].buf
    BY DEF VarMem
  <2>3. ASSUME NEW m \in VarMem(dv_nodes') PROVE m \in (VarMem(dv_nodes) \ {old}) \cup {b}
    BY <2>1, <2>2, <2>3, <1>3, <1>8, <1>9, <1>14
  <2>4. ASSUME NEW m \in VarMem(dv_nodes), m # old PROVE m \in VarMem(dv_nodes')
    BY <2>1, <2>2, <2>4, <1>3, <1>8, <1>9, <1>14
  <2>5. b \in VarMem(dv_nodes')
    BY <2>1, <1>3, <1>8, <1>9
  <2> QED BY <2>3, <2>4, <2>5
<1>18. old \in VarMem(dv_nodes)
  BY <1>3 DEF VarMem
<1> HIDE DEF old
<1>19. Apart'
  BY <1>1, <1>2, <1>5, <1>6, <1>17 DEF Apart
<1>20. MemOwned'
  <2>1. dv_mem = VarMem(dv_nodes) \cup SegMem(dv_segs) \cup ErrMem(dv_errs) \cup HeldMem(dv_held)
    BY Owned DEF VarsInv
  <2>2. old \notin SegMem(dv_segs) /\ old \notin ErrMem(dv_errs) /\ old \notin HeldMem(dv_held)
    BY <1>2, <1>18 DEF Apart
  <2>3. dv_mem' = VarMem(dv_nodes') \cup SegMem(dv_segs') \cup ErrMem(dv_errs') \cup HeldMem(dv_held')
    BY <2>1, <2>2, <1>1, <1>17
  <2> QED BY <2>3 DEF MemOwned
<1>21. ProcsGood'
  <2>1. dv_procs \in Seq(Used')
    BY <1>2, <1>6 DEF ProcsGood
  <2>2. dv_next' \in Nat \ {0}
    BY <1>1, <1>5 DEF b
  <2> QED BY <2>1, <2>2, <1>1, <1>2, <1>6 DEF ProcsGood
<1>22. HeldGood' /\ SegsGood' /\ VarFinds'
  BY <1>1, <1>2 DEF HeldGood, SegsGood, VarFinds
<1>23. LinksGood'
  <2>1. ASSUME NEW p \in Everyone PROVE Chain(dv_succ, dv_pred, p, OwnVars(p), dv_next')
    <3>1. Chain(dv_succ, dv_pred, p, OwnVars(p), dv_next)
      BY <1>2 DEF LinksGood
    <3>2. OwnVars(p) \subseteq 1..(dv_next - 1) /\ dv_next \in Nat /\ dv_next' \in Nat /\ dv_next <= dv_next'
      BY <1>1, <1>5, NodeUsed DEF b
    <3> QED BY <3>1, <3>2, ChainTop
  <2> QED BY <2>1, <1>1, <1>2, <1>9, <1>12 DEF LinksGood
<1> QED BY <1>15, <1>16, <1>19, <1>20, <1>21, <1>22, <1>23 DEF VarsInv

\* A new variable is the first in the list of the process that runs.
LEMMA SetNewLinks ==
    ASSUME VarsInv, dv_state = "run", NEW a, a = dv_next, dv_succ' = linked(a).succ, dv_pred' = linked(a).pred
    PROVE  /\ Me \in Everyone
           /\ DOMAIN dv_succ' = DOMAIN dv_succ \cup {Node(a)} /\ DOMAIN dv_pred' = DOMAIN dv_pred \cup {Node(a)}
           /\ \A p \in Everyone : Chain(dv_succ', dv_pred', p, IF p = Me THEN OwnVars(p) \cup {a} ELSE OwnVars(p), a + 2)
<1> DEFINE first == dv_succ[Head_(Me)]
           s1 == Mapped(dv_succ, Node(a), first)
           p1 == Mapped(dv_pred, Node(a), Head_(Me))
<1>1. dv_succ' = Mapped(s1, Head_(Me), Node(a)) /\ dv_pred' = Mapped(p1, first, Node(a))
  BY DEF linked
<1>2. LinksGood /\ ProcsGood
  BY DEF VarsInv
<1>3. Me \in Everyone
  <2>1. Last(dv_procs) \in ToSet(dv_procs)
    <3>1. dv_procs \in Seq(Used) /\ dv_procs # <<>>
      BY <1>2 DEF ProcsGood
    <3> QED BY <3>1, LastIn
  <2> QED BY <2>1 DEF Me, Everyone
<1>4. a \in Nat \ {0} /\ a + 1 \in Nat /\ a + 2 \in Nat /\ a <= a + 2 /\ a + 1 <= a + 2
  BY FreshMem
<1>5. \A p : OwnVars(p) \subseteq 1..(a - 1) /\ OwnVars(p) \subseteq DOMAIN dv_nodes
  BY NodeUsed
<1>6. \A p \in Everyone : Chain(dv_succ, dv_pred, p, OwnVars(p), a)
  BY <1>2 DEF LinksGood
<1>7. Chain(dv_succ', dv_pred', Me, OwnVars(Me) \cup {a}, a + 1)
  BY <1>1, <1>3, <1>4, <1>5, <1>6, ChainInsert
<1>8. Chain(dv_succ', dv_pred', Me, OwnVars(Me) \cup {a}, a + 2)
  <2>1. OwnVars(Me) \cup {a} \subseteq 1..(a + 1 - 1)
    BY <1>4, <1>5
  <2> QED BY <2>1, <1>4, <1>7, ChainTop
<1>9. /\ {Head_(Me)} \cup {Node(b) : b \in OwnVars(Me)} \subseteq DOMAIN dv_succ
      /\ {Tail_(Me)} \cup {Node(b) : b \in OwnVars(Me)} \subseteq DOMAIN dv_pred
      /\ first = Tail_(Me) \/ \E b \in OwnVars(Me) : first = Node(b)
  BY <1>3, <1>6 DEF Chain, Older
<1> HIDE DEF first
<1>10. DOMAIN s1 = DOMAIN dv_succ \cup {Node(a)} /\ \A x \in DOMAIN dv_succ : x # Node(a) => s1[x] = dv_succ[x]
  BY DEF Mapped
<1>11. DOMAIN p1 = DOMAIN dv_pred \cup {Node(a)} /\ \A x \in DOMAIN dv_pred : x # Node(a) => p1[x] = dv_pred[x]
  BY DEF Mapped
<1> HIDE DEF s1, p1
<1>12. DOMAIN dv_succ' = DOMAIN s1 \cup {Head_(Me)} /\ \A x \in DOMAIN s1 : x # Head_(Me) => dv_succ'[x] = s1[x]
  BY <1>1 DEF Mapped
<1>13. DOMAIN dv_pred' = DOMAIN p1 \cup {first} /\ \A x \in DOMAIN p1 : x # first => dv_pred'[x] = p1[x]
  BY <1>1 DEF Mapped
<1>14. first \in DOMAIN dv_pred
  BY <1>9
<1>15. ASSUME NEW p \in Everyone, p # Me PROVE Chain(dv_succ', dv_pred', p, OwnVars(p), a + 2)
  <2>1. Chain(dv_succ, dv_pred, p, OwnVars(p), a)
    BY <1>6
  <2>2. {Head_(p)} \cup {Node(b) : b \in OwnVars(p)} \subseteq DOMAIN dv_succ /\ {Tail_(p)} \cup {Node(b) : b \in OwnVars(p)} \subseteq DOMAIN dv_pred
    BY <2>1 DEF Chain
  <2>3. \A b \in OwnVars(p) : b # a /\ b \notin OwnVars(Me)
    <3>1. \A b \in 1..(a - 1) : b # a
      BY <1>4
    <3>2. \A b \in OwnVars(p) : b \notin OwnVars(Me)
      BY <1>15 DEF OwnVars
    <3> QED BY <3>1, <3>2, <1>5
  <2>4. Head_(p) # Head_(Me) /\ Head_(p) # Node(a) /\ Tail_(p) # Node(a) /\ Tail_(p) # first
    BY <1>9, <1>15, Cells
  <2>5. \A b \in OwnVars(p) : Node(b) # Head_(Me) /\ Node(b) # Node(a) /\ Node(b) # first
    BY <2>3, <1>9, Cells
  <2>6. \A x \in {Head_(p)} \cup {Node(b) : b \in OwnVars(p)} : x \in DOMAIN dv_succ' /\ dv_succ'[x] = dv_succ[x]
    BY <2>2, <2>4, <2>5, <1>10, <1>12
  <2>7. \A x \in {Tail_(p)} \cup {Node(b) : b \in OwnVars(p)} : x \in DOMAIN dv_pred' /\ dv_pred'[x] = dv_pred[x]
    BY <2>2, <2>4, <2>5, <1>11, <1>13
  <2>8. Chain(dv_succ', dv_pred', p, OwnVars(p), a)
    BY <2>1, <2>6, <2>7, ChainElse
  <2> QED BY <2>8, <1>4, <1>5, ChainTop
<1> QED BY <1>3, <1>8, <1>9, <1>10, <1>11, <1>12, <1>13, <1>14, <1>15

\* A variable that is new gets a node, memory and an entry of the table.
LEMMA SetNewStep ==
    ASSUME VarsInv, NEW n \in VarNames, NEW t \in VarTypes, NEW v \in Seq(STRING), find_var(n, t) = 0, SetVar(n, t, v) PROVE VarsInv'
<1> DEFINE k == Key(n, t)
           a == dv_next
           b == dv_next + 1
<1>1. /\ dv_state = "run" /\ UNCHANGED <<dv_got, dv_procs, dv_ended, dv_state, dv_segs, dv_held, dv_errs>>
      /\ dv_nodes' = Mapped(dv_nodes, a, [owner |-> IF a \in DOMAIN dv_nodes THEN dv_nodes[a].owner ELSE Me, key |-> k, buf |-> b, value |-> v])
      /\ dv_last' = Mapped(dv_last, k, v) /\ dv_mem' = ((dv_mem \cup {a}) \ {0}) \cup {b} /\ dv_next' = dv_next + 2
      /\ dv_succ' = linked(a).succ /\ dv_pred' = linked(a).pred /\ dv_table' = Mapped(dv_table, k, a)
  BY DEF SetVar, Call, KeepProcs, KeepRest, Stored, set_var_mem
<1>2. Tabled /\ NodesGood /\ LinksGood /\ Apart /\ HeldGood /\ SegsGood /\ ProcsGood /\ VarFinds
  BY <1>1 DEF VarsInv
<1>3. k \notin DOMAIN dv_table
  <2>1. k \in DOMAIN dv_table => dv_table[k] = 0 /\ dv_table[k] \in DOMAIN dv_nodes
    BY <1>2 DEF find_var, Tabled
  <2> QED BY <2>1, NodeUsed
<1>4. k \in (VarNames \cup {"v"}) \X VarTypes
  BY KeyIs
<1>5. a \in Nat \ {0} /\ b \in Nat \ {0} /\ a \notin Used /\ b \notin Used /\ a # b /\ VarMem(dv_nodes) \subseteq Used /\ dv_next' \in Nat \ {0} /\ dv_next <= dv_next'
  <2>1. dv_next \in Nat \ {0} /\ (\A m \in Nat : m >= dv_next => m \notin Used) /\ VarMem(dv_nodes) \subseteq Used
    BY FreshMem
  <2>2. b \in Nat /\ b >= dv_next /\ b # 0 /\ a # b /\ dv_next + 2 \in Nat \ {0} /\ dv_next <= dv_next + 2 /\ dv_next >= dv_next
    BY <2>1
  <2> QED BY <2>1, <2>2, <1>1
<1>6. Used' = Used \cup {a, b}
  BY <1>1, <1>5 DEF Used
<1>7. /\ Me \in Everyone
      /\ DOMAIN dv_succ' = DOMAIN dv_succ \cup {Node(a)} /\ DOMAIN dv_pred' = DOMAIN dv_pred \cup {Node(a)}
      /\ \A p \in Everyone : Chain(dv_succ', dv_pred', p, IF p = Me THEN OwnVars(p) \cup {a} ELSE OwnVars(p), dv_next')
  BY <1>1, SetNewLinks
<1>8. a \notin DOMAIN dv_nodes
  BY <1>5, NodeUsed
<1> HIDE DEF k, a, b
<1> DEFINE e == [owner |-> Me, key |-> k, buf |-> b, value |-> v]
<1>9. dv_nodes' = Mapped(dv_nodes, a, e)
  BY <1>1, <1>8
<1>10. e \in VarNodes /\ e.owner = Me /\ e.key = k /\ e.buf = b /\ e.value = v
  <2>1. dv_ended \subseteq Nat /\ ToSet(dv_procs) \subseteq Nat
    <3>1. dv_procs \in Seq(Used) /\ dv_ended \subseteq Used
      BY <1>2 DEF ProcsGood
    <3>2. ToSet(dv_procs) \subseteq Used
      BY <3>1, ToSetIs
    <3>3. Used \subseteq Nat
      BY DEF Used
    <3> QED BY <3>1, <3>2, <3>3
  <2>2. Me \in Nat
    BY <2>1, <1>7 DEF Everyone
  <2> QED BY <2>2, <1>4, <1>5 DEF VarNodes
<1> HIDE DEF e
<1>11. DOMAIN dv_nodes' = DOMAIN dv_nodes \cup {a} /\ dv_nodes'[a] = e /\ \A x \in DOMAIN dv_nodes : dv_nodes'[x] = dv_nodes[x]
  BY <1>8, <1>9 DEF Mapped
<1>12. dv_nodes' \in [DOMAIN dv_nodes' -> VarNodes]
  <2>1. \A x \in DOMAIN dv_nodes : dv_nodes[x] \in VarNodes
    BY <1>2 DEF NodesGood
  <2>2. \A x \in DOMAIN dv_nodes' : dv_nodes'[x] \in VarNodes
    BY <2>1, <1>10, <1>11
  <2>3. dv_nodes' = [x \in DOMAIN dv_nodes' |-> dv_nodes'[x]]
    BY <1>9 DEF Mapped
  <2> QED BY <2>2, <2>3
<1>13. Everyone' = Everyone
  BY <1>1 DEF Everyone
<1>14. \A p : OwnVars(p)' = IF p = Me THEN OwnVars(p) \cup {a} ELSE OwnVars(p)
  BY <1>10, <1>11 DEF OwnVars
<1>15. \A x \in DOMAIN dv_nodes : dv_nodes[x].buf # a /\ dv_nodes[x].buf # b /\ x # b
  BY <1>5, NodeUsed
<1>16. NodesGood'
  <2>1. \A x \in DOMAIN dv_nodes' : dv_nodes'[x].owner \in Everyone'
    BY <1>2, <1>7, <1>10, <1>11, <1>13 DEF NodesGood
  <2>2. \A x, y \in DOMAIN dv_nodes : dv_nodes[x].buf \notin DOMAIN dv_nodes /\ (dv_nodes[x].buf = dv_nodes[y].buf => x = y)
    BY <1>2 DEF NodesGood
  <2>3. \A x, y \in DOMAIN dv_nodes' : dv_nodes'[x].buf \notin DOMAIN dv_nodes' /\ (dv_nodes'[x].buf = dv_nodes'[y].buf => x = y)
    BY <2>2, <1>5, <1>10, <1>11, <1>15
  <2> QED BY <2>1, <2>3, <1>12 DEF NodesGood
<1>17. Tabled'
  <2>1. DOMAIN dv_last' = DOMAIN dv_last \cup {k} /\ dv_last'[k] = v /\ \A x \in DOMAIN dv_last : x # k => dv_last'[x] = dv_last[x]
    BY <1>1 DEF Mapped
  <2>2. DOMAIN dv_table' = DOMAIN dv_table \cup {k} /\ dv_table'[k] = a /\ \A x \in DOMAIN dv_table : dv_table'[x] = dv_table[x]
    BY <1>1, <1>3 DEF Mapped
  <2>3. DOMAIN dv_last' = DOMAIN dv_table'
    BY <2>1, <2>2, <1>2 DEF Tabled
  <2>4. \A x \in DOMAIN dv_table : dv_table[x] \in DOMAIN dv_nodes /\ dv_nodes[dv_table[x]].key = x /\ x \in DOMAIN dv_last /\ dv_last[x] = dv_nodes[dv_table[x]].value
    BY <1>2 DEF Tabled
  <2>5. \A x \in DOMAIN dv_table' : dv_table'[x] \in DOMAIN dv_nodes' /\ dv_nodes'[dv_table'[x]].key = x /\ dv_last'[x] = dv_nodes'[dv_table'[x]].value
    BY <2>1, <2>2, <2>4, <1>3, <1>10, <1>11
  <2>6. \A x \in DOMAIN dv_nodes : dv_nodes[x].key \in DOMAIN dv_table /\ dv_table[dv_nodes[x].key] = x
    BY <1>2 DEF Tabled
  <2>7. \A x \in DOMAIN dv_nodes' : dv_nodes'[x].key \in DOMAIN dv_table' /\ dv_table'[dv_nodes'[x].key] = x
    BY <2>2, <2>6, <1>10, <1>11
  <2> QED BY <2>3, <2>5, <2>7 DEF Tabled
<1>18. VarMem(dv_nodes') = VarMem(dv_nodes) \cup {a, b}
  <2>1. \A m : m \in VarMem(dv_nodes') <=> \E x \in DOMAIN dv_nodes' : m = x \/ m = dv_nodes'[x].buf
    BY DEF VarMem
  <2>2. \A m : m \in VarMem(dv_nodes) <=> \E x \in DOMAIN dv_nodes : m = x \/ m = dv_nodes[x].buf
    BY DEF VarMem
  <2> QED BY <2>1, <2>2, <1>10, <1>11
<1>19. Apart'
  BY <1>1, <1>2, <1>5, <1>6, <1>18 DEF Apart
<1>20. MemOwned'
  <2>1. dv_mem = VarMem(dv_nodes) \cup SegMem(dv_segs) \cup ErrMem(dv_errs) \cup HeldMem(dv_held)
    BY Owned DEF VarsInv
  <2>2. 0 \notin dv_mem /\ a # 0
    <3>1. 0 \notin Used
      BY DEF Used
    <3> QED BY <2>1, <3>1, <1>2, <1>5 DEF Apart
  <2>3. dv_mem' = VarMem(dv_nodes') \cup SegMem(dv_segs') \cup ErrMem(dv_errs') \cup HeldMem(dv_held')
    BY <2>1, <2>2, <1>1, <1>18
  <2> QED BY <2>3 DEF MemOwned
<1>21. ProcsGood'
  <2>1. dv_procs \in Seq(Used')
    BY <1>2, <1>6 DEF ProcsGood
  <2> QED BY <2>1, <1>1, <1>2, <1>5, <1>6 DEF ProcsGood
<1>22. HeldGood' /\ SegsGood' /\ VarFinds'
  BY <1>1, <1>2 DEF HeldGood, SegsGood, VarFinds
<1>23. LinksGood'
  <2>1. \A p \in Everyone' : Chain(dv_succ', dv_pred', p, OwnVars(p)', dv_next')
    BY <1>7, <1>13, <1>14
  <2>2. {Node(x) : x \in DOMAIN dv_nodes'} = {Node(x) : x \in DOMAIN dv_nodes} \cup {Node(a)}
    BY <1>11
  <2> QED BY <2>1, <2>2, <1>2, <1>7, <1>13 DEF LinksGood
<1> QED BY <1>16, <1>17, <1>19, <1>20, <1>21, <1>22, <1>23 DEF VarsInv

\* What is deleted goes out of the list of the process that made it.
LEMMA DeleteLinks ==
    ASSUME VarsInv, dv_state = "run", NEW a \in DOMAIN dv_nodes, dv_succ' = unlinked(a).succ, dv_pred' = unlinked(a).pred
    PROVE  /\ DOMAIN dv_succ' = DOMAIN dv_succ \ {Node(a)} /\ DOMAIN dv_pred' = DOMAIN dv_pred \ {Node(a)}
           /\ \A p \in Everyone : Chain(dv_succ', dv_pred', p, OwnVars(p) \ {a}, dv_next)
<1> DEFINE s == dv_succ[Node(a)]
           q == dv_pred[Node(a)]
           o == dv_nodes[a].owner
           s1 == Mapped(dv_succ, q, s)
           p1 == Mapped(dv_pred, s, q)
<1>1. dv_succ' = Unmapped(s1, Node(a)) /\ dv_pred' = Unmapped(p1, Node(a))
  BY DEF unlinked
<1>2. LinksGood /\ NodesGood
  BY DEF VarsInv
<1>3. o \in Everyone /\ a \in OwnVars(o) /\ dv_next \in Nat
  BY <1>2, FreshMem DEF NodesGood, OwnVars
<1>4. \A p : OwnVars(p) \subseteq 1..(dv_next - 1)
  BY NodeUsed
<1>5. \A p \in Everyone : Chain(dv_succ, dv_pred, p, OwnVars(p), dv_next)
  BY <1>2 DEF LinksGood
<1>6. Chain(dv_succ', dv_pred', o, OwnVars(o) \ {a}, dv_next)
  BY <1>1, <1>3, <1>4, <1>5, ChainDelete
<1>7. /\ {Head_(o)} \cup {Node(b) : b \in OwnVars(o)} \subseteq DOMAIN dv_succ
      /\ {Tail_(o)} \cup {Node(b) : b \in OwnVars(o)} \subseteq DOMAIN dv_pred
      /\ s = Tail_(o) \/ \E b \in OwnVars(o) : s = Node(b)
      /\ q = Head_(o) \/ \E b \in OwnVars(o) : q = Node(b)
  BY <1>3, <1>5 DEF Chain, Older, Newer
<1>8. q \in DOMAIN dv_succ /\ s \in DOMAIN dv_pred
  BY <1>7
<1> HIDE DEF s, q, o
<1>9. DOMAIN s1 = DOMAIN dv_succ \cup {q} /\ \A x \in DOMAIN dv_succ : x # q => s1[x] = dv_succ[x]
  BY DEF Mapped
<1>10. DOMAIN p1 = DOMAIN dv_pred \cup {s} /\ \A x \in DOMAIN dv_pred : x # s => p1[x] = dv_pred[x]
  BY DEF Mapped
<1> HIDE DEF s1, p1
<1>11. DOMAIN dv_succ' = DOMAIN s1 \ {Node(a)} /\ \A x \in DOMAIN s1 : x # Node(a) => dv_succ'[x] = s1[x]
  BY <1>1 DEF Unmapped
<1>12. DOMAIN dv_pred' = DOMAIN p1 \ {Node(a)} /\ \A x \in DOMAIN p1 : x # Node(a) => dv_pred'[x] = p1[x]
  BY <1>1 DEF Unmapped
<1>13. ASSUME NEW p \in Everyone, p # o PROVE Chain(dv_succ', dv_pred', p, OwnVars(p) \ {a}, dv_next)
  <2>1. Chain(dv_succ, dv_pred, p, OwnVars(p), dv_next)
    BY <1>5
  <2>2. {Head_(p)} \cup {Node(b) : b \in OwnVars(p)} \subseteq DOMAIN dv_succ /\ {Tail_(p)} \cup {Node(b) : b \in OwnVars(p)} \subseteq DOMAIN dv_pred
    BY <2>1 DEF Chain
  <2>3. \A b \in OwnVars(p) : b \notin OwnVars(o)
    BY <1>13 DEF OwnVars
  <2>4. Head_(p) # Node(a) /\ Tail_(p) # Node(a) /\ Tail_(p) # s /\ Head_(p) # q
    BY <1>7, <1>13, Cells
  <2>5. \A b \in OwnVars(p) : Node(b) # Node(a) /\ Node(b) # s /\ Node(b) # q
    BY <2>3, <1>3, <1>7, Cells
  <2>6. \A x \in {Head_(p)} \cup {Node(b) : b \in OwnVars(p)} : x \in DOMAIN dv_succ' /\ dv_succ'[x] = dv_succ[x]
    BY <2>2, <2>4, <2>5, <1>9, <1>11
  <2>7. \A x \in {Tail_(p)} \cup {Node(b) : b \in OwnVars(p)} : x \in DOMAIN dv_pred' /\ dv_pred'[x] = dv_pred[x]
    BY <2>2, <2>4, <2>5, <1>10, <1>12
  <2>8. Chain(dv_succ', dv_pred', p, OwnVars(p), dv_next)
    BY <2>1, <2>6, <2>7, ChainElse
  <2>9. OwnVars(p) \ {a} = OwnVars(p)
    BY <2>3, <1>3
  <2> QED BY <2>8, <2>9
<1> QED BY <1>6, <1>8, <1>9, <1>10, <1>11, <1>12, <1>13

\* delete_var() frees both and takes it out of list and table.
LEMMA DeleteVarStep ==
    ASSUME VarsInv, NEW n \in VarNames, NEW t \in VarTypes, DeleteVar(n, t) PROVE VarsInv'
<1> DEFINE k == Key(n, t)
           a == find_var(n, t)
           old == dv_nodes[a].buf
<1>1. /\ dv_state = "run" /\ UNCHANGED <<dv_got, dv_next, dv_procs, dv_ended, dv_state, dv_segs, dv_held, dv_errs>>
      /\ IF a = 0 THEN UNCHANGED <<dv_var, dv_mem>>
         ELSE /\ dv_mem' = dv_mem \ {a, old} /\ dv_succ' = unlinked(a).succ /\ dv_pred' = unlinked(a).pred
              /\ dv_nodes' = Unmapped(dv_nodes, a) /\ dv_table' = [x \in {y \in DOMAIN dv_table : dv_table[y] # a} |-> dv_table[x]]
              /\ dv_last' = Unmapped(dv_last, k)
  BY DEF DeleteVar, Call, KeepProcs, KeepRest
<1>2. Tabled /\ NodesGood /\ LinksGood /\ Apart /\ HeldGood /\ SegsGood /\ ProcsGood /\ VarFinds /\ MemOwned
  BY <1>1 DEF VarsInv
<1>3. Used' = Used /\ Everyone' = Everyone
  BY <1>1 DEF Used, Everyone
<1>4. ProcsGood' /\ HeldGood' /\ SegsGood' /\ VarFinds'
  BY <1>1, <1>2, <1>3 DEF ProcsGood, HeldGood, SegsGood, VarFinds
<1>5. CASE a = 0
  <2>1. dv_nodes' = dv_nodes /\ dv_succ' = dv_succ /\ dv_pred' = dv_pred /\ dv_table' = dv_table /\ dv_last' = dv_last /\ dv_mem' = dv_mem
    BY <1>1, <1>5 DEF dv_var
  <2>2. \A p : OwnVars(p)' = OwnVars(p)
    BY <2>1 DEF OwnVars
  <2>3. NodesGood' /\ Tabled' /\ MemOwned' /\ Apart'
    BY <2>1, <1>1, <1>2, <1>3 DEF NodesGood, Tabled, MemOwned, Apart
  <2>4. LinksGood'
    BY <2>1, <2>2, <1>1, <1>2, <1>3 DEF LinksGood
  <2> QED BY <2>3, <2>4, <1>4 DEF VarsInv
<1>6. CASE a # 0
  <2>1. k \in DOMAIN dv_table /\ a = dv_table[k] /\ a \in DOMAIN dv_nodes /\ dv_nodes[a].key = k
    BY <1>2, <1>6 DEF find_var, Tabled
  <2>2. /\ dv_mem' = dv_mem \ {a, old} /\ dv_nodes' = Unmapped(dv_nodes, a) /\ dv_last' = Unmapped(dv_last, k)
        /\ dv_table' = [x \in {y \in DOMAIN dv_table : dv_table[y] # a} |-> dv_table[x]]
        /\ dv_succ' = unlinked(a).succ /\ dv_pred' = unlinked(a).pred
    BY <1>1, <1>6
  <2> HIDE DEF k, a
  <2>3. /\ DOMAIN dv_succ' = DOMAIN dv_succ \ {Node(a)} /\ DOMAIN dv_pred' = DOMAIN dv_pred \ {Node(a)}
        /\ \A p \in Everyone : Chain(dv_succ', dv_pred', p, OwnVars(p) \ {a}, dv_next)
    BY <2>1, <2>2, <1>1, DeleteLinks
  <2>4. DOMAIN dv_nodes' = DOMAIN dv_nodes \ {a} /\ \A x \in DOMAIN dv_nodes : x # a => dv_nodes'[x] = dv_nodes[x]
    BY <2>2 DEF Unmapped
  <2>5. \A p : OwnVars(p)' = OwnVars(p) \ {a}
    BY <2>4 DEF OwnVars
  <2>6. NodesGood'
    <3>1. \A x \in DOMAIN dv_nodes : dv_nodes[x] \in VarNodes
      BY <1>2 DEF NodesGood
    <3>2. \A x \in DOMAIN dv_nodes' : dv_nodes'[x] \in VarNodes
      BY <3>1, <2>4
    <3>3. dv_nodes' = [x \in DOMAIN dv_nodes' |-> dv_nodes'[x]]
      BY <2>2 DEF Unmapped
    <3>4. dv_nodes' \in [DOMAIN dv_nodes' -> VarNodes]
      BY <3>2, <3>3
    <3>5. \A x \in DOMAIN dv_nodes : dv_nodes[x].owner \in Everyone
      BY <1>2 DEF NodesGood
    <3>6. \A x, y \in DOMAIN dv_nodes : dv_nodes[x].buf \notin DOMAIN dv_nodes /\ (dv_nodes[x].buf = dv_nodes[y].buf => x = y)
      BY <1>2 DEF NodesGood
    <3>7. \A x \in DOMAIN dv_nodes' : dv_nodes'[x].owner \in Everyone'
      BY <3>5, <2>4, <1>3
    <3>8. \A x, y \in DOMAIN dv_nodes' : dv_nodes'[x].buf \notin DOMAIN dv_nodes' /\ (dv_nodes'[x].buf = dv_nodes'[y].buf => x = y)
      BY <3>6, <2>4
    <3> QED BY <3>4, <3>7, <3>8 DEF NodesGood
  <2>7. Tabled'
    <3>1. \A x \in DOMAIN dv_table : dv_table[x] \in DOMAIN dv_nodes /\ dv_nodes[dv_table[x]].key = x /\ dv_last[x] = dv_nodes[dv_table[x]].value
      BY <1>2 DEF Tabled
    <3>2. \A x \in DOMAIN dv_nodes : dv_nodes[x].key \in DOMAIN dv_table /\ dv_table[dv_nodes[x].key] = x
      BY <1>2 DEF Tabled
    <3>3. \A x \in DOMAIN dv_table : dv_table[x] # a <=> x # k
      BY <3>1, <2>1
    <3>4. DOMAIN dv_table' = DOMAIN dv_table \ {k} /\ \A x \in DOMAIN dv_table : x # k => dv_table'[x] = dv_table[x]
      BY <3>3, <2>2
    <3>5. DOMAIN dv_last' = DOMAIN dv_last \ {k} /\ \A x \in DOMAIN dv_last : x # k => dv_last'[x] = dv_last[x]
      BY <2>2 DEF Unmapped
    <3>6. DOMAIN dv_last = DOMAIN dv_table
      BY <1>2 DEF Tabled
    <3>7. \A x \in DOMAIN dv_table' : dv_table'[x] \in DOMAIN dv_nodes' /\ dv_nodes'[dv_table'[x]].key = x /\ dv_last'[x] = dv_nodes'[dv_table'[x]].value
      BY <3>1, <3>3, <3>4, <3>5, <3>6, <2>4
    <3>8. \A x \in DOMAIN dv_nodes' : dv_nodes'[x].key \in DOMAIN dv_table' /\ dv_table'[dv_nodes'[x].key] = x
      BY <3>2, <3>4, <2>1, <2>4
    <3> QED BY <3>4, <3>5, <3>6, <3>7, <3>8 DEF Tabled
  <2>8. VarMem(dv_nodes') = VarMem(dv_nodes) \ {a, old} /\ a \in VarMem(dv_nodes) /\ old \in VarMem(dv_nodes)
    <3>1. \A m : m \in VarMem(dv_nodes') <=> \E x \in DOMAIN dv_nodes' : m = x \/ m = dv_nodes'[x].buf
      BY DEF VarMem
    <3>2. \A m : m \in VarMem(dv_nodes) <=> \E x \in DOMAIN dv_nodes : m = x \/ m = dv_nodes[x].buf
      BY DEF VarMem
    <3>3. \A x, y \in DOMAIN dv_nodes : dv_nodes[x].buf \notin DOMAIN dv_nodes /\ (dv_nodes[x].buf = dv_nodes[y].buf => x = y)
      BY <1>2 DEF NodesGood
    <3>4. ASSUME NEW m \in VarMem(dv_nodes') PROVE m \in VarMem(dv_nodes) /\ m # a /\ m # old
      BY <3>1, <3>2, <3>3, <3>4, <2>1, <2>4
    <3>5. ASSUME NEW m \in VarMem(dv_nodes), m # a, m # old PROVE m \in VarMem(dv_nodes')
      BY <3>1, <3>2, <3>5, <2>1, <2>4
    <3> QED BY <3>2, <3>4, <3>5, <2>1
  <2> HIDE DEF old
  <2>9. Apart'
    BY <2>8, <1>1, <1>2, <1>3 DEF Apart
  <2>10. MemOwned'
    <3>1. dv_mem = VarMem(dv_nodes) \cup SegMem(dv_segs) \cup ErrMem(dv_errs) \cup HeldMem(dv_held)
      BY <1>2, Owned
    <3>2. dv_mem' = VarMem(dv_nodes') \cup SegMem(dv_segs') \cup ErrMem(dv_errs') \cup HeldMem(dv_held')
      BY <3>1, <2>2, <2>8, <1>1, <1>2 DEF Apart
    <3> QED BY <3>2 DEF MemOwned
  <2>11. LinksGood'
    <3>1. \A p \in Everyone' : Chain(dv_succ', dv_pred', p, OwnVars(p)', dv_next')
      BY <2>3, <2>5, <1>1, <1>3
    <3>2. /\ {Head_(p) : p \in Everyone'} \cup {Node(x) : x \in DOMAIN dv_nodes'} = ({Head_(p) : p \in Everyone} \cup {Node(x) : x \in DOMAIN dv_nodes}) \ {Node(a)}
          /\ {Tail_(p) : p \in Everyone'} \cup {Node(x) : x \in DOMAIN dv_nodes'} = ({Tail_(p) : p \in Everyone} \cup {Node(x) : x \in DOMAIN dv_nodes}) \ {Node(a)}
      BY <2>4, <1>3, Cells
    <3> QED BY <3>1, <3>2, <2>3, <1>2 DEF LinksGood
  <2> QED BY <2>6, <2>7, <2>9, <2>10, <2>11, <1>4 DEF VarsInv
<1> QED BY <1>5, <1>6

-----------------------------------------------------------------------------
(* The invariant holds.                                                    *)

\* At the start there is a process with an empty list.
LEMMA VarsStarts == VarsInit => VarsInv
<1> SUFFICES ASSUME VarsInit PROVE VarsInv
  OBVIOUS
<1>1. /\ dv_procs = <<1>> /\ dv_ended = {} /\ dv_nodes = <<>> /\ dv_table = <<>> /\ dv_last = <<>> /\ dv_got = NoGet
      /\ dv_mem = {} /\ dv_segs = <<>> /\ dv_held = {} /\ dv_errs = <<>> /\ dv_next = 2
      /\ dv_succ = [x \in {Head_(1)} |-> Tail_(1)] /\ dv_pred = [x \in {Tail_(1)} |-> Head_(1)]
  BY DEF VarsInit
<1>2. DOMAIN <<>> = {} /\ VarMem(<<>>) = {} /\ SegMem(<<>>) = {} /\ ErrMem(<<>>) = {} /\ HeldMem({}) = {}
  BY DEF VarMem, SegMem, ErrMem, HeldMem, ToSet
<1>3. Used = {1} /\ ToSet(<<1>>) = {1}
  <2>1. Used = 1..1
    BY <1>1 DEF Used
  <2>2. 1..1 = {1}
    OBVIOUS
  <2>3. Append(<<>>, 1) = <<1>> /\ <<>> \in Seq({1}) /\ ToSet(<<>>) = {}
    BY DEF ToSet
  <2>4. ToSet(<<1>>) = {} \cup {1}
    BY <2>3, ToSetAppend
  <2> QED BY <2>1, <2>2, <2>4
<1>4. ProcsGood
  BY <1>1, <1>3 DEF ProcsGood
<1>5. Everyone = {1} /\ \A p : OwnVars(p) = {}
  BY <1>1, <1>2, <1>3 DEF Everyone, OwnVars
<1>6. NodesGood /\ Tabled
  <2>1. dv_nodes = [x \in DOMAIN dv_nodes |-> dv_nodes[x]]
    BY <1>1, <1>2
  <2> QED BY <2>1, <1>1, <1>2 DEF NodesGood, Tabled
<1>7. MemOwned /\ Apart /\ HeldGood
  BY <1>1, <1>2 DEF MemOwned, Apart, HeldGood
<1>8. SegsGood
  BY <1>1 DEF SegsGood
<1>9. VarFinds
  BY <1>1 DEF VarFinds, NoGet
<1>10. LinksGood
  <2>1. Chain(dv_succ, dv_pred, 1, {}, 2)
    BY <1>1 DEF Chain, Older, Newer
  <2> QED BY <2>1, <1>1, <1>2, <1>5 DEF LinksGood
<1> QED BY <1>4, <1>6, <1>7, <1>8, <1>9, <1>10 DEF VarsInv

\* Every call keeps the invariant.
LEMMA VarsSteps == VarsInv /\ [VarsNext]_dv_vars => VarsInv'
<1> SUFFICES ASSUME VarsInv, [VarsNext]_dv_vars PROVE VarsInv'
  OBVIOUS
<1>1. ASSUME NEW n \in VarNames, NEW t \in VarTypes, NEW v \in VarValues, SetVar(n, t, v) PROVE VarsInv'
  <2>1. v \in Seq(STRING)
    BY VarsAssumption
  <2> QED BY <2>1, <1>1, SetOldStep, SetNewStep
<1>2. ASSUME NEW n \in VarNames, NEW t \in VarTypes, DeleteVar(n, t) PROVE VarsInv'
  BY <1>2, DeleteVarStep
<1>3. ASSUME NEW n \in VarNames, NEW t \in VarTypes, NEW size \in {0, 2}, GetVar(n, t, size) PROVE VarsInv'
  <2>1. size \in Nat
    OBVIOUS
  <2> QED BY <2>1, <1>3, GetVarStep
<1>4. CASE StartProcess
  BY <1>4, StartProcessStep
<1>5. CASE EndProcess
  BY <1>5, EndProcessStep
<1>6. ASSUME NEW n \in VarNames, NEW uc \in {1, -1}, AddSegment(n, uc) PROVE VarsInv'
  BY <1>6, AddSegmentStep
<1>7. CASE DosGetString(205)
  BY <1>7, GetStringStep
<1>8. ASSUME NEW extra \in BOOLEAN, ReadArgsKeeps(extra) PROVE VarsInv'
  BY <1>8, HoldsStep DEF ReadArgsKeeps
<1>9. CASE DevProcKeeps
  BY <1>9, HoldsStep DEF DevProcKeeps
<1>10. CASE AllocDosObject
  BY <1>10, HoldsStep DEF AllocDosObject
<1>11. CASE MakeDosEntry
  BY <1>11, HoldsStep DEF MakeDosEntry
<1>12. ASSUME NEW x \in dv_held, Gives(x) PROVE VarsInv'
  BY <1>12, GivesStep
<1>13. CASE VarsRaise
  BY <1>13, VarsRaiseStep
<1>14. CASE VarsFinish
  BY <1>14, VarsFinishStep
<1>15. CASE UNCHANGED dv_vars
  <2>1. /\ dv_nodes' = dv_nodes /\ dv_succ' = dv_succ /\ dv_pred' = dv_pred /\ dv_table' = dv_table /\ dv_last' = dv_last
        /\ UNCHANGED <<dv_procs, dv_ended, dv_got, dv_mem, dv_segs, dv_held, dv_errs, dv_next, dv_state>>
    BY <1>15 DEF dv_vars, dv_var
  <2>2. Used' = Used /\ Everyone' = Everyone /\ \A p : OwnVars(p)' = OwnVars(p)
    BY <2>1 DEF Used, Everyone, OwnVars
  <2>3. ProcsGood' /\ NodesGood' /\ Tabled' /\ MemOwned' /\ Apart' /\ HeldGood' /\ SegsGood' /\ VarFinds'
    BY <2>1, <2>2 DEF VarsInv, ProcsGood, NodesGood, Tabled, MemOwned, Apart, HeldGood, SegsGood, VarFinds
  <2>4. dv_state' = "run" => LinksGood'
    BY <2>1, <2>2 DEF VarsInv, LinksGood
  <2> QED BY <2>3, <2>4 DEF VarsInv
<1> QED BY <1>1, <1>2, <1>3, <1>4, <1>5, <1>6, <1>7, <1>8, <1>9, <1>10, <1>11, <1>12, <1>13, <1>14, <1>15 DEF VarsNext

-----------------------------------------------------------------------------
(* What the invariant says.                                                *)

\* A list can be walked back the way it was walked.
LEMMA ChainBack ==
    ASSUME NEW succ, NEW pred, NEW p, NEW top \in Nat, NEW S, S \subseteq 1..(top - 1), Chain(succ, pred, p, S, top)
    PROVE  pred[succ[Head_(p)]] = Head_(p) /\ \A a \in S : pred[succ[Node(a)]] = Node(a)
<1>1. \A b \in S : b \in Nat /\ 0 < b /\ b < top
  OBVIOUS
<1>2. /\ Older(S, top, p, succ[Head_(p)]) /\ (\A a \in S : Older(S, a, p, succ[Node(a)]))
      /\ Newer(S, 0, p, pred[Tail_(p)]) /\ \A a \in S : Newer(S, a, p, pred[Node(a)])
  BY DEF Chain
<1>3. pred[succ[Head_(p)]] = Head_(p)
  <2>1. CASE succ[Head_(p)] = Tail_(p) /\ \A b \in S : ~(b < top)
    BY <2>1, <1>1, <1>2 DEF Newer
  <2>2. CASE \E b \in S : succ[Head_(p)] = Node(b) /\ b < top /\ \A d \in S : d < top => d <= b
    <3>1. PICK b \in S : succ[Head_(p)] = Node(b) /\ \A d \in S : d <= b
      BY <2>2, <1>1
    <3>2. Newer(S, b, p, pred[Node(b)])
      BY <1>2
    <3>3. \A d \in S : ~(d > b)
      BY <3>1, <1>1
    <3> QED BY <3>1, <3>2, <3>3 DEF Newer
  <2> QED BY <2>1, <2>2, <1>2 DEF Older
<1>4. ASSUME NEW a \in S PROVE pred[succ[Node(a)]] = Node(a)
  <2>1. CASE succ[Node(a)] = Tail_(p) /\ \A b \in S : ~(b < a)
    <3>1. PICK c \in S : pred[Tail_(p)] = Node(c) /\ \A d \in S : c <= d
      BY <1>1, <1>2 DEF Newer
    <3>2. c = a
      BY <3>1, <2>1, <1>1
    <3> QED BY <3>1, <3>2, <2>1
  <2>2. CASE \E b \in S : succ[Node(a)] = Node(b) /\ b < a /\ \A d \in S : d < a => d <= b
    <3>1. PICK b \in S : succ[Node(a)] = Node(b) /\ b < a /\ \A d \in S : d < a => d <= b
      BY <2>2
    <3>2. PICK c \in S : pred[Node(b)] = Node(c) /\ c > b /\ \A d \in S : d > b => c <= d
      BY <3>1, <1>1, <1>2 DEF Newer
    <3>3. c = a
      BY <3>1, <3>2, <1>1
    <3> QED BY <3>1, <3>2, <3>3
  <2> QED BY <2>1, <2>2, <1>2 DEF Older
<1> QED BY <1>3, <1>4

\* The nodes of S that are not older than a.
Since(S, a) == {b \in S : b >= a}
\* Their number tells a node from the others.
LEMMA SinceSize ==
    ASSUME NEW S, S \subseteq Nat, IsFiniteSet(S), NEW a \in S
    PROVE  /\ Cardinality(Since(S, a)) \in Nat \ {0} /\ Cardinality(Since(S, a)) <= Cardinality(S)
           /\ \A b \in S : Cardinality(Since(S, a)) = Cardinality(Since(S, b)) => a = b
<1>1. \A b \in S : IsFiniteSet(Since(S, b)) /\ b \in Since(S, b) /\ Since(S, b) \subseteq S
  <2>1. \A b \in S : b \in Since(S, b) /\ Since(S, b) \subseteq S
    BY DEF Since
  <2> QED BY <2>1, FS_Subset
<1>2. Cardinality(Since(S, a)) \in Nat /\ Cardinality(Since(S, a)) # 0
  BY <1>1, FS_CardinalityType, FS_EmptySet
<1>3. Cardinality(Since(S, a)) <= Cardinality(S)
  BY <1>1, FS_Subset
<1>4. ASSUME NEW b \in S, NEW c \in S, b < c PROVE Cardinality(Since(S, b)) # Cardinality(Since(S, c))
  <2>0. b \in Nat /\ c \in Nat /\ \A d \in S : d \in Nat
    OBVIOUS
  <2>1. Since(S, c) \subseteq Since(S, b) /\ b \notin Since(S, c)
    <3>1. \A d \in S : d >= c => d >= b
      BY <2>0, <1>4
    <3>2. ~(b >= c)
      BY <2>0, <1>4
    <3> QED BY <3>1, <3>2 DEF Since
  <2>2. Since(S, c) # Since(S, b)
    BY <2>1, <1>1
  <2> QED BY <2>1, <2>2, <1>1, FS_Subset
<1>5. \A b \in S : a < b \/ b < a \/ a = b
  OBVIOUS
<1> QED BY <1>2, <1>3, <1>4, <1>5

\* The walk over a list is made step by step.
LEMMA WalkRec ==
    ASSUME NEW p, NEW N \in Nat, N = Cardinality(DOMAIN dv_nodes)
    PROVE  \E r : /\ r[0] = Head_(p) /\ Reaches(p) = {r[i] : i \in 0..N} \ {Head_(p), Tail_(p)}
                  /\ \A i \in 1..N : r[i] = IF r[i - 1] \in DOMAIN dv_succ THEN dv_succ[r[i - 1]] ELSE r[i - 1]
<1> DEFINE h == Head_(p)
           nx(x) == IF x \in DOMAIN dv_succ THEN dv_succ[x] ELSE x
           A == DOMAIN dv_succ \cup {dv_succ[x] : x \in DOMAIN dv_succ} \cup {h}
           st == [x \in (1..N) \X A |-> nx(x[2])]
           Is(r) == r = [i \in 0..N |-> IF i = 0 THEN h ELSE IF r[i - 1] \in DOMAIN dv_succ THEN dv_succ[r[i - 1]] ELSE r[i - 1]]
           R == CHOOSE r : Is(r)
<1>1. \A x \in A : nx(x) \in A
  OBVIOUS
<1>2. st \in [(1..N) \X A -> A] /\ h \in A
  BY <1>1
<1> HIDE DEF A
<1>3. PICK f : IsRecursive(f, N, A, h, st)
  BY <1>2, Recursion
<1>4. f \in [0..N -> A] /\ f[0] = h /\ \A i \in 1..N : f[i] = nx(f[i - 1])
  <2>1. f \in [0..N -> A] /\ f[0] = h /\ \A i \in 1..N : f[i] = st[<<i, f[i - 1]>>]
    BY <1>3 DEF IsRecursive
  <2>2. \A i \in 1..N : i - 1 \in 0..N
    OBVIOUS
  <2>3. \A i \in 1..N : <<i, f[i - 1]>> \in (1..N) \X A
    BY <2>1, <2>2
  <2> HIDE DEF nx
  <2>4. \A i \in 1..N : st[<<i, f[i - 1]>>] = nx(f[i - 1])
    BY <2>3
  <2> QED BY <2>1, <2>4
<1>5. Is(f)
  BY <1>4
<1>6. Is(R)
  BY <1>5
<1>7. R[0] = h /\ DOMAIN R = 0..N /\ \A i \in 1..N : R[i] = nx(R[i - 1])
  <2>1. 0 \in 0..N /\ \A i \in 1..N : i \in 0..N /\ i # 0
    OBVIOUS
  <2> QED BY <1>6, <2>1
<1>8. Reaches(p) = {R[i] : i \in DOMAIN R} \ {h, Tail_(p)}
  BY DEF Reaches
<1> HIDE DEF R
<1> QED BY <1>7, <1>8

\* Step by step it comes from the newest variable to the oldest.
LEMMA WalkAll ==
    ASSUME VarsInv, LinksGood, NEW p \in Everyone
    PROVE  Reaches(p) = {Node(a) : a \in OwnVars(p)}
<1> DEFINE S == OwnVars(p)
           N == Cardinality(DOMAIN dv_nodes)
<1>1. DOMAIN dv_nodes \subseteq 1..(dv_next - 1) /\ S \subseteq DOMAIN dv_nodes /\ dv_next \in Nat
  BY NodeUsed, FreshMem DEF Used
<1>2. IsFiniteSet(DOMAIN dv_nodes) /\ N \in Nat
  <2>1. IsFiniteSet(1..(dv_next - 1))
    BY <1>1, FS_Interval
  <2> QED BY <2>1, <1>1, FS_Subset, FS_CardinalityType
<1>3. IsFiniteSet(S) /\ S \subseteq Nat /\ Cardinality(S) \in Nat /\ Cardinality(S) <= N
  <2>1. S \subseteq Nat
    BY <1>1
  <2> QED BY <2>1, <1>1, <1>2, FS_Subset, FS_CardinalityType
<1>4. Chain(dv_succ, dv_pred, p, S, dv_next) /\ \A b \in S : b < dv_next
  BY <1>1 DEF LinksGood
<1>5. Tail_(p) \notin DOMAIN dv_succ
  BY Cells DEF LinksGood
<1> HIDE DEF S, N
<1>6. PICK r : /\ r[0] = Head_(p) /\ Reaches(p) = {r[i] : i \in 0..N} \ {Head_(p), Tail_(p)}
               /\ \A i \in 1..N : r[i] = IF r[i - 1] \in DOMAIN dv_succ THEN dv_succ[r[i - 1]] ELSE r[i - 1]
  BY <1>2, WalkRec DEF N
<1>7. /\ Head_(p) \in DOMAIN dv_succ /\ \A a \in S : Node(a) \in DOMAIN dv_succ
      /\ Older(S, dv_next, p, dv_succ[Head_(p)]) /\ \A a \in S : Older(S, a, p, dv_succ[Node(a)])
  BY <1>4 DEF Chain
<1> DEFINE At_(i) == \/ \E a \in S : r[i] = Node(a) /\ Cardinality(Since(S, a)) = i
                     \/ r[i] = Tail_(p) /\ Cardinality(S) < i
           T == {i \in Nat : i + 1 <= N => At_(i + 1)}
<1>8. 0 \in T
  <2> SUFFICES ASSUME 1 <= N PROVE At_(1)
    OBVIOUS
  <2>1. r[1] = dv_succ[Head_(p)]
    <3>1. 1 \in 1..N /\ 1 - 1 = 0
      BY <1>2
    <3> QED BY <3>1, <1>6, <1>7
  <2>2. CASE r[1] = Tail_(p) /\ \A b \in S : ~(b < dv_next)
    <3>1. S = {}
      BY <2>2, <1>4
    <3>2. Cardinality(S) = 0
      BY <3>1, FS_EmptySet
    <3> QED BY <2>2, <3>2
  <2>3. CASE \E b \in S : r[1] = Node(b) /\ b < dv_next /\ \A d \in S : d < dv_next => d <= b
    <3>1. PICK b \in S : r[1] = Node(b) /\ \A d \in S : d <= b
      BY <2>3, <1>4
    <3>2. Since(S, b) = {b}
      <4>1. \A d \in S : d \in Nat
        BY <1>3
      <4> QED BY <3>1, <4>1 DEF Since
    <3>3. Cardinality(Since(S, b)) = 1
      BY <3>2, FS_Singleton
    <3> QED BY <3>1, <3>3
  <2> QED BY <2>1, <2>2, <2>3, <1>7 DEF Older
<1>9. ASSUME NEW n \in Nat, n \in T PROVE n + 1 \in T
  <2> DEFINE i == n + 1
  <2> SUFFICES ASSUME i + 1 <= N PROVE At_(i + 1)
    OBVIOUS
  <2>1. i \in Nat /\ i + 1 \in 1..N /\ (i + 1) - 1 = i /\ At_(i)
    BY <1>2, <1>9
  <2>2. r[i + 1] = IF r[i] \in DOMAIN dv_succ THEN dv_succ[r[i]] ELSE r[i]
    BY <2>1, <1>6
  <2> HIDE DEF i
  <2>3. CASE r[i] = Tail_(p) /\ Cardinality(S) < i
    <3>1. r[i + 1] = Tail_(p)
      BY <2>2, <2>3, <1>5
    <3>2. Cardinality(S) < i + 1
      BY <2>1, <2>3, <1>3
    <3> QED BY <3>1, <3>2
  <2>4. CASE \E a \in S : r[i] = Node(a) /\ Cardinality(Since(S, a)) = i
    <3>1. PICK a \in S : r[i] = Node(a) /\ Cardinality(Since(S, a)) = i
      BY <2>4
    <3>2. r[i + 1] = dv_succ[Node(a)] /\ Older(S, a, p, dv_succ[Node(a)])
      BY <3>1, <2>2, <1>7
    <3>3. a \in Nat /\ \A d \in S : d \in Nat
      BY <1>3
    <3>4. CASE r[i + 1] = Tail_(p) /\ \A b \in S : ~(b < a)
      <4>0. \A d \in S : d >= a
        BY <3>3, <3>4
      <4>1. Since(S, a) = S
        BY <4>0 DEF Since
      <4>2. Cardinality(S) < i + 1
        BY <4>1, <3>1, <2>1
      <4> QED BY <3>4, <4>2
    <3>5. CASE \E b \in S : r[i + 1] = Node(b) /\ b < a /\ \A d \in S : d < a => d <= b
      <4>1. PICK b \in S : r[i + 1] = Node(b) /\ b < a /\ \A d \in S : d < a => d <= b
        BY <3>5
      <4>2. Since(S, b) = Since(S, a) \cup {b} /\ b \notin Since(S, a) /\ Since(S, a) \subseteq S
        <5>1. \A d \in S : d >= b <=> d >= a \/ d = b
          BY <4>1, <3>3
        <5>2. ~(b >= a)
          BY <4>1, <3>3
        <5> QED BY <5>1, <5>2 DEF Since
      <4>3. Cardinality(Since(S, b)) = i + 1
        BY <4>2, <3>1, <1>3, FS_Subset, FS_AddElement
      <4> QED BY <4>1, <4>3
    <3> QED BY <3>2, <3>4, <3>5 DEF Older
  <2> QED BY <2>1, <2>3, <2>4
<1> HIDE DEF T
<1>10. Nat \subseteq T
  BY <1>8, <1>9, NatInd
<1>11. \A i \in 1..N : At_(i)
  <2> SUFFICES ASSUME NEW i \in 1..N PROVE At_(i)
    OBVIOUS
  <2>1. i - 1 \in Nat /\ (i - 1) + 1 = i /\ i <= N
    BY <1>2
  <2>2. i - 1 \in T
    BY <2>1, <1>10
  <2> HIDE DEF At_
  <2>3. At_((i - 1) + 1)
    BY <2>1, <2>2 DEF T
  <2> QED BY <2>1, <2>3
<1>12. ASSUME NEW x \in Reaches(p) PROVE x \in {Node(a) : a \in S}
  <2>1. PICK i \in 0..N : x = r[i]
    BY <1>6, <1>12
  <2>2. x # Head_(p) /\ x # Tail_(p)
    BY <1>6, <1>12
  <2>3. i \in 1..N
    <3>1. i # 0
      BY <2>1, <2>2, <1>6
    <3> QED BY <3>1, <1>2
  <2> QED BY <2>1, <2>2, <2>3, <1>11
<1>13. ASSUME NEW a \in S PROVE Node(a) \in Reaches(p)
  <2> DEFINE i == Cardinality(Since(S, a))
  <2>1. i \in Nat \ {0} /\ i <= Cardinality(S) /\ \A b \in S : i = Cardinality(Since(S, b)) => a = b
    BY <1>3, SinceSize
  <2> HIDE DEF i
  <2>2. i \in 1..N /\ i \in 0..N /\ ~(Cardinality(S) < i)
    BY <2>1, <1>2, <1>3
  <2>3. r[i] = Node(a)
    BY <2>1, <2>2, <1>11
  <2>4. Node(a) # Head_(p) /\ Node(a) # Tail_(p)
    BY Cells
  <2> QED BY <2>2, <2>3, <2>4, <1>6
<1> QED BY <1>12, <1>13 DEF S

\* Every variable of a live process is reached from its list, and is in the table.
LEMMA LinkedAll == VarsInv => VarsLinked
<1> SUFFICES ASSUME VarsInv, dv_state = "run", NEW p \in ToSet(dv_procs)
             PROVE  /\ Reaches(p) = {Node(a) : a \in OwnVars(p)} /\ OwnVars(p) \subseteq {dv_table[k] : k \in DOMAIN dv_table}
                    /\ \A x \in {Head_(p)} \cup Reaches(p) : dv_pred[dv_succ[x]] = x
  BY DEF VarsLinked
<1>1. p \in Everyone /\ LinksGood /\ Tabled
  BY DEF VarsInv, Everyone
<1>2. Reaches(p) = {Node(a) : a \in OwnVars(p)}
  BY <1>1, WalkAll
<1>3. OwnVars(p) \subseteq {dv_table[k] : k \in DOMAIN dv_table}
  BY <1>1 DEF Tabled, OwnVars
<1>4. Chain(dv_succ, dv_pred, p, OwnVars(p), dv_next) /\ OwnVars(p) \subseteq 1..(dv_next - 1) /\ dv_next \in Nat
  BY <1>1, NodeUsed, FreshMem DEF LinksGood
<1>5. dv_pred[dv_succ[Head_(p)]] = Head_(p) /\ \A a \in OwnVars(p) : dv_pred[dv_succ[Node(a)]] = Node(a)
  BY <1>4, ChainBack
<1> QED BY <1>2, <1>3, <1>5

\* The least number of a set.
LEMMA MinIs == ASSUME NEW T, T \subseteq Nat, T # {} PROVE Min(T) \in T /\ \A m \in T : Min(T) <= m
<1>1. \E n \in T : \A m \in T : n <= m
  BY NatLeast
<1> QED BY <1>1 DEF Min

\* Searching on goes over all the segments of a name and kind.
LEMMA SegmentsAll == VarsInv => SegmentsFound
<1> SUFFICES ASSUME VarsInv, NEW n \in VarNames, NEW system \in BOOLEAN
             PROVE  LET first == FindSegment(n, 0, system)
                        all == {s.addr : s \in {x \in ToSet(dv_segs) : SmallName(x.name) = SmallName(n) /\ (x.uc < 0) = system}}
                    IN all = (IF first = 0 THEN {} ELSE {first} \union ({FindSegment(n, first, system)} \ {0}))
  BY DEF SegmentsFound
<1> DEFINE N == Len(dv_segs)
           M(i) == SmallName(dv_segs[i].name) = SmallName(n) /\ (IF system THEN dv_segs[i].uc < 0 ELSE dv_segs[i].uc > 0)
           H(from) == {i \in from..N : M(i)}
           all == {s.addr : s \in {x \in ToSet(dv_segs) : SmallName(x.name) = SmallName(n) /\ (x.uc < 0) = system}}
           first == FindSegment(n, 0, system)
           second == FindSegment(n, first, system)
<1>1. /\ dv_segs \in Seq([addr : Nat, name : VarNames, uc : {1, -1}]) /\ N \in Nat /\ N <= 2
      /\ \A i, j \in 1..N : dv_segs[i].addr = dv_segs[j].addr => i = j
  BY DEF VarsInv, SegsGood
<1>2. ToSet(dv_segs) = {dv_segs[i] : i \in 1..N}
  BY <1>1, ToSetIs
<1>3. \A i \in 1..N : dv_segs[i].addr # 0
  <2>1. SegMem(dv_segs) \subseteq Used /\ 0 \notin Used
    BY FreshMem DEF Used
  <2> QED BY <2>1, <1>2 DEF SegMem
<1>4. \A i \in 1..N : dv_segs[i].uc \in {1, -1}
  <2> DEFINE R == [addr : Nat, name : VarNames, uc : {1, -1}]
  <2>1. dv_segs \in Seq(R)
    BY <1>1
  <2>2. \A x \in R : x.uc \in {1, -1}
    OBVIOUS
  <2> HIDE DEF R
  <2>3. \A i \in 1..N : dv_segs[i] \in R
    BY <2>1
  <2> QED BY <2>2, <2>3
<1>5. \A i \in 1..N : (dv_segs[i].uc < 0) = system <=> (IF system THEN dv_segs[i].uc < 0 ELSE dv_segs[i].uc > 0)
  BY <1>4
<1>6. all = {dv_segs[i].addr : i \in H(1)}
  <2>1. \A i \in 1..N : M(i) <=> SmallName(dv_segs[i].name) = SmallName(n) /\ (dv_segs[i].uc < 0) = system
    BY <1>5
  <2> HIDE DEF M
  <2>2. \A i : i \in H(1) <=> i \in 1..N /\ M(i)
    OBVIOUS
  <2> HIDE DEF H
  <2> QED BY <2>1, <2>2, <1>2
<1>7. first = IF H(1) = {} THEN 0 ELSE dv_segs[Min(H(1))].addr
  BY DEF FindSegment
<1>8. first # 0 => FindSegment(n, first, system) = LET F == H(1 + CHOOSE i \in DOMAIN dv_segs : dv_segs[i].addr = first) IN IF F = {} THEN 0 ELSE dv_segs[Min(F)].addr
  <2> HIDE DEF first
  <2> QED BY DEF FindSegment
<1>9. DOMAIN dv_segs = 1..N
  BY <1>1
<1> HIDE DEF M, all, first
<1>10. \A from \in Nat : H(from) \subseteq Nat /\ \A i : i \in H(from) <=> i \in from..N /\ M(i)
  <2>1. \A from \in Nat : from..N \subseteq Nat
    BY <1>1
  <2> QED BY <2>1
<1> HIDE DEF H, second
<1>11. CASE H(1) = {}
  <2>1. first = 0 /\ all = {}
    BY <1>6, <1>7, <1>11
  <2> QED BY <2>1 DEF first, all
<1>12. CASE H(1) # {}
  <2> DEFINE m == Min(H(1))
  <2>1. m \in H(1) /\ \A i \in H(1) : m <= i
    BY <1>10, <1>12, MinIs
  <2>2. m \in 1..N /\ first = dv_segs[m].addr /\ first # 0
    BY <2>1, <1>3, <1>7, <1>10, <1>12
  <2> HIDE DEF m
  <2>3. (CHOOSE i \in DOMAIN dv_segs : dv_segs[i].addr = first) = m
    BY <2>2, <1>1, <1>9
  <2>4. second = IF H(1 + m) = {} THEN 0 ELSE dv_segs[Min(H(1 + m))].addr
    <3> DEFINE c == CHOOSE i \in DOMAIN dv_segs : dv_segs[i].addr = first
    <3>1. FindSegment(n, first, system) = IF H(1 + c) = {} THEN 0 ELSE dv_segs[Min(H(1 + c))].addr
      BY <2>2, <1>8
    <3>2. c = m
      BY <2>3
    <3> HIDE DEF c
    <3> QED BY <3>1, <3>2 DEF second
  <2>5. \A i : i \in H(1 + m) <=> i \in H(1) /\ i # m
    <3>1. 1 + m \in Nat /\ \A i : i \in (1 + m)..N <=> i \in 1..N /\ i # m /\ m <= i
      BY <2>2, <1>1
    <3> QED BY <3>1, <2>1, <1>10
  <2>6. CASE H(1 + m) = {}
    <3>1. H(1) = {m} /\ second = 0
      BY <2>1, <2>4, <2>5, <2>6
    <3>2. all = {first} \cup ({second} \ {0})
      BY <3>1, <2>2, <1>6
    <3> QED BY <3>2, <2>2 DEF first, all, second
  <2>7. CASE H(1 + m) # {}
    <3> DEFINE u == Min(H(1 + m))
    <3>1. u \in H(1 + m)
      BY <2>2, <2>7, <1>10, MinIs
    <3> HIDE DEF u
    <3>2. u \in H(1) /\ u # m /\ u \in 1..N
      BY <3>1, <2>5, <1>10
    <3>3. \A i \in 1..N : i = m \/ i = u
      BY <3>2, <2>2, <1>1
    <3>4. H(1) = {m, u}
      BY <3>2, <3>3, <2>1, <1>10
    <3>5. second = dv_segs[u].addr /\ second # 0
      BY <3>2, <2>4, <2>7, <1>3 DEF u
    <3>6. all = {first} \cup ({second} \ {0})
      BY <3>4, <3>5, <2>2, <1>6
    <3> QED BY <3>6, <2>2 DEF first, all, second
  <2> QED BY <2>6, <2>7
<1> QED BY <1>11, <1>12

(***************************************************************************)
(* However processes start and end and whoever sets or deletes variables,  *)
(* lists in memory and the table have the same ones, GetVar() gives what   *)
(* was stored last, segments are all found and memory has one owner, for   *)
(* any names, values and number of calls.                                  *)
(***************************************************************************)
THEOREM VariablesAreRight == VarsSpec => []VarsRight
<1>1. VarsInv => VarsRight
  BY LinkedAll, SegmentsAll DEF VarsRight, VarsInv
<1> QED BY <1>1, VarsStarts, VarsSteps, PTL DEF VarsSpec
==============================================================================
