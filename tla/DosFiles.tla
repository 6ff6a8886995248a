------------------------------ MODULE DosFiles ------------------------------
(***************************************************************************)
(* File handles of dos.library: FileManager and FileHandle (lib/dos) and   *)
(* the functions of DosLibrary that read, write and seek.  A program keeps *)
(* the rules of AmigaDOS (it uses handles it has opened, and puts input    *)
(* and output back before it closes them) and opens a file of the host     *)
(* once at a time, so that the buffers of Python's file objects stay       *)
(* invisible.  An exception that no function catches ends vamos.           *)
(***************************************************************************)
EXTENDS Sequences, SequencesExt, Integers, FiniteSets, FiniteSetsExt

-----------------------------------------------------------------------------
(* EscCsiConverter of lib/dos/terminal.py: reads of a terminal turn the    *)
(* pair ESC '[' into the one character CSI, although the two may arrive in *)
(* different chunks.  The user types Typing; a read gets what has arrived. *)

CONSTANTS
    TypeChars,    \* what is typed: "esc", "[" and others
    MaxTyped,     \* bound: characters typed
    ReadSizes     \* sizes a program reads with

ASSUME TerminalAssumption ==
    /\ MaxTyped \in Nat /\ ReadSizes \subseteq Nat \ {0}
    /\ "csi" \notin TypeChars /\ "none" \notin TypeChars

None == <<"none">>   \* next_ch is None
VARIABLES
    tt_typing,    \* what will be typed and was not read yet
    tt_next,      \* next_ch: None, <<>> after the end of file, or one character
    tt_taken,     \* history: what was read from the terminal
    tt_got        \* history: what read() returned to the program
tt_vars == <<tt_typing, tt_next, tt_taken, tt_got>>

TerminalInit == tt_typing = None /\ tt_next = None /\ tt_taken = <<>> /\ tt_got = <<>>
\* _convert(): bytes.replace().
with_char(r, c) == IF c = "[" /\ r # <<>> /\ Last(r) = "esc" THEN Front(r) \o <<"csi">> ELSE Append(r, c)
convert_esc(s) ==
    LET r[i \in 0..Len(s)] == IF i = 0 THEN <<>> ELSE with_char(r[i - 1], s[i])
    IN r[Len(s)]
\* CsiEscConverter, on output.
convert_csi(s) ==
    LET r[i \in 0..Len(s)] == IF i = 0 THEN <<>> ELSE r[i - 1] \o (IF s[i] = "csi" THEN <<"esc", "[">> ELSE <<s[i]>>)
    IN r[Len(s)]

\* The user, who types one of all short texts.
StartTyping == /\ tt_typing = None /\ tt_typing' \in UNION {[1..n -> TypeChars] : n \in 1..MaxTyped}
               /\ UNCHANGED <<tt_next, tt_taken, tt_got>>
Returns(data, next, n) ==
    /\ tt_got' = tt_got \o data /\ tt_next' = next
    /\ tt_taken' = tt_taken \o SubSeq(tt_typing, 1, n)
    /\ tt_typing' = SubSeq(tt_typing, n + 1, Len(tt_typing))
Kept == IF tt_next = None THEN <<>> ELSE tt_next
with_kept(data) == Kept \o data
\* read(): k characters have arrived, late if no more come within the timeout.
TerminalRead(size, k, late) ==
    LET left == IF tt_next = None THEN size ELSE size - 1
        data == convert_esc(with_kept(SubSeq(tt_typing, 1, k)))
        ahead == SubSeq(tt_typing, k + 1, Min({k + 1, Len(tt_typing)}))
    IN /\ tt_typing # None
       /\ IF tt_next # None /\ size = 1 THEN k = 0 /\ ~late /\ Returns(tt_next, None, 0)
          ELSE /\ k <= Min({left, Len(tt_typing)}) /\ (k = 0 => tt_typing = <<>>)
               /\ IF k = 0 THEN ~late /\ Returns(Kept, None, 0)
                  ELSE IF Last(data) # "esc" \/ late THEN Returns(data, None, k)
                  ELSE IF ahead = <<"[">> THEN Returns(Front(data) \o <<"csi">>, None, k + 1)
                  ELSE Returns(data, ahead, k + Len(ahead))
TerminalNext == StartTyping \/ \E size \in ReadSizes, late \in BOOLEAN : \E k \in 0..size : TerminalRead(size, k, late)

\* Whatever the chunks, sizes and timeouts, the program gets each character that
\* was typed exactly once and in order, an ESC '[' possibly as CSI.
TerminalLossless == convert_csi(tt_got) \o Kept = tt_taken

-----------------------------------------------------------------------------
(* FileManager, FileHandle and the library's functions *)

CONSTANTS
    FhAddrs,      \* addresses (BPTRs) for FileHandle structures
    FileNames,    \* names of host files
    HostFiles,    \* files there are at the start: name -> [data, writable]
    FileBytes,    \* bytes a program writes
    NewLine,      \* byte 10
    FhWord,       \* 2^32: registers hold 0..FhWord-1
    MaxData,      \* bound: length of a file
    MaxPackets,   \* bound: packets sent
    MaxFileOps    \* bound: calls of a program

\* Files are less than 2^31 bytes long, so that a register holds every distance.
ASSUME FilesAssumption ==
    /\ FhAddrs \subseteq Nat \ {0} /\ \E a, b \in FhAddrs : a # b
    /\ FhWord \in Nat /\ FhWord % 2 = 0 /\ MaxData \in Nat /\ MaxData < FhWord \div 2
    /\ NewLine \in Nat /\ FileBytes \subseteq Nat /\ FileBytes # {}
    /\ DOMAIN HostFiles \subseteq FileNames
    /\ HostFiles \in [DOMAIN HostFiles -> [data : Seq(Nat), writable : BOOLEAN]]
    /\ \A n \in DOMAIN HostFiles : Len(HostFiles[n].data) <= MaxData
    /\ MaxPackets \in Nat /\ MaxFileOps \in Nat

VARIABLES
    fm_disk,      \* files of the host
    fm_fh,        \* files_by_b_addr
    fm_std,       \* [in, out]: the handles for stdin and stdout
    fm_cis, fm_cos,  \* pr_CIS, pr_COS
    fm_closed,    \* file objects of the host that were closed though shared
    fm_tty,       \* mode of the terminal behind stdin and stdout
    fm_err,       \* IoErr()
    fm_sent, fm_replies,  \* packets: the number sent, the reply port's queue
    fm_view,      \* history: the program's handles and where in the file each is
    fm_ops,       \* calls so far
    fm_state      \* "run", "done" after finish(), "raised"
fm_vars == <<fm_disk, fm_fh, fm_std, fm_cis, fm_cos, fm_closed, fm_tty, fm_err, fm_sent, fm_replies, fm_view, fm_ops, fm_state>>

Unknown == -1
EofCh == -2
ErrCh == -1
SeekError == "seek_error"

\* FileHandle.__init__(): a Terminal keeps the mode it finds.
FileHandle(obj, name, need_close, writable) ==
    [obj |-> obj, name |-> name, need_close |-> need_close, writable |-> writable, pos |-> 0, unch |-> <<>>, saved |-> fm_tty]
IsTty(h) == h.obj \in {"stdin", "stdout"}
create_stdout_fh == FileHandle("stdout", "stdout", FALSE, TRUE)

FilesInit ==
    LET a == CHOOSE x \in FhAddrs : \A y \in FhAddrs : x <= y
        b == CHOOSE x \in FhAddrs \ {a} : \A y \in FhAddrs \ {a} : x <= y
        H(o) == [obj |-> o, name |-> o, need_close |-> FALSE, writable |-> TRUE, pos |-> 0, unch |-> <<>>, saved |-> "cooked"]
    IN /\ fm_disk = HostFiles
       /\ fm_std = [in |-> a, out |-> b]
       /\ fm_fh = [x \in {a, b} |-> H(IF x = a THEN "stdin" ELSE "stdout")]
       /\ fm_cis = a /\ fm_cos = b
       /\ fm_closed = {} /\ fm_tty = "cooked" /\ fm_err = 0
       /\ fm_sent = 0 /\ fm_replies = <<>> /\ fm_view = <<>> /\ fm_ops = 0 /\ fm_state = "run"

FhCall == fm_state = "run" /\ fm_ops < MaxFileOps /\ fm_ops' = fm_ops + 1
StdHandles == {fm_std.in, fm_std.out}
Own == DOMAIN fm_view
Usable == Own \union (StdHandles \ {0})
Content(h) == IF h.obj = "file" THEN fm_disk[h.name].data ELSE <<>>
Rest(s, n) == SubSeq(s, n + 1, Len(s))
\* f with the entry k.
Entered(f, k, v) == [x \in DOMAIN f \union {k} |-> IF x = k THEN v ELSE f[x]]
View(a, v) == fm_view' = IF a \in Own THEN [fm_view EXCEPT ![a] = v] ELSE fm_view
FhRaise == fm_state' = "raised" /\ UNCHANGED <<fm_disk, fm_fh, fm_std, fm_cis, fm_cos, fm_closed, fm_tty, fm_err, fm_sent, fm_replies, fm_view>>
FhKeep == UNCHANGED <<fm_std, fm_cis, fm_cos, fm_closed, fm_tty, fm_sent, fm_replies, fm_state>>

-----------------------------------------------------------------------------
\* FileManager.open(): "w" empties or makes the file, "rw" makes it only when it
\* is missing; a file that may not be written is opened for reading.
register_file(h, v) ==
    \E a \in {x \in FhAddrs \ DOMAIN fm_fh : \A y \in FhAddrs \ DOMAIN fm_fh : x <= y} :
        fm_fh' = Entered(fm_fh, a, h) /\ fm_view' = Entered(fm_view, a, v)
Open(name, mode) ==
    LET there == name \in DOMAIN fm_disk
        m == IF mode # "rw" THEN mode ELSE IF there THEN "r" ELSE "w"
        can == there => fm_disk[name].writable
        fails == IF m = "w" THEN ~can ELSE ~there
    IN /\ FhCall /\ \A a \in Own : fm_fh[a].name # name
       /\ \/ /\ fails
             /\ fm_err' = "not_found" /\ UNCHANGED <<fm_disk, fm_fh, fm_view>>
          \/ /\ ~fails
             /\ register_file(FileHandle("file", name, TRUE, can), 0)
             /\ fm_disk' = IF m = "w" THEN Entered(fm_disk, name, [data |-> <<>>, writable |-> TRUE]) ELSE fm_disk
             /\ UNCHANGED fm_err
       /\ FhKeep
OpenConsole == FhCall /\ register_file(create_stdout_fh, Unknown) /\ UNCHANGED <<fm_disk, fm_err>> /\ FhKeep
OpenNil == FhCall /\ register_file(FileHandle("nil", "nil", TRUE, TRUE), Unknown) /\ UNCHANGED <<fm_disk, fm_err>> /\ FhKeep

\* FileHandle.close() and FileManager.close(): the two standard handles stay
\* registered until finish(); a Terminal puts its mode back.
close_obj(h) == IF h.need_close /\ IsTty(h) THEN {h.obj} ELSE {}
Close(a) ==
    LET h == fm_fh[a]
    IN /\ FhCall /\ a \in Usable /\ (a \in Own => a \notin {fm_cis, fm_cos})
       /\ fm_closed' = fm_closed \union close_obj(h)
       /\ fm_tty' = IF IsTty(h) THEN h.saved ELSE fm_tty
       /\ fm_fh' = IF a \in StdHandles THEN fm_fh ELSE [x \in DOMAIN fm_fh \ {a} |-> fm_fh[x]]
       /\ fm_view' = [x \in Own \ {a} |-> fm_view[x]]
       /\ fm_err' = 0
       /\ UNCHANGED <<fm_disk, fm_std, fm_cis, fm_cos, fm_sent, fm_replies, fm_state>>

\* read(): not through the characters that were put back.
ReadBytes(h, n) == SubSeq(Content(h), h.pos + 1, Min({h.pos + n, Len(Content(h))}))
Read(a, n) ==
    LET h == fm_fh[a]
        got == Len(ReadBytes(h, n))
    IN /\ FhCall /\ a \in Own /\ h.obj = "file"
       /\ fm_fh' = [fm_fh EXCEPT ![a].pos = @ + got]
       /\ View(a, IF h.unch = <<>> /\ fm_view[a] # Unknown THEN fm_view[a] + got ELSE Unknown)
       /\ UNCHANGED <<fm_disk, fm_err>> /\ FhKeep
\* write(): a file that is open for reading only gives -1.
WriteTo(a, s) ==
    LET h == fm_fh[a]
        d == Content(h)
    IN IF h.obj = "file" /\ h.writable
       THEN /\ fm_disk' = [fm_disk EXCEPT ![h.name].data = SubSeq(d, 1, h.pos) \o s \o Rest(d, h.pos + Len(s))]
            /\ fm_fh' = [fm_fh EXCEPT ![a].pos = @ + Len(s)]
            /\ View(a, IF h.unch = <<>> /\ a \in Own /\ fm_view[a] # Unknown THEN fm_view[a] + Len(s) ELSE Unknown)
       ELSE UNCHANGED <<fm_disk, fm_fh, fm_view>>
Write(a, s) ==
    /\ FhCall /\ a \in Usable /\ fm_fh[a].pos + Len(s) <= MaxData
    /\ IF IsTty(fm_fh[a]) /\ fm_fh[a].obj \in fm_closed THEN FhRaise
       ELSE WriteTo(a, s) /\ UNCHANGED fm_err /\ FhKeep
\* PutStr(), VPrintf(), WriteChars(): to the handle in pr_COS, None for BNULL.
PutStr(s) ==
    /\ FhCall /\ (fm_cos \in DOMAIN fm_fh => fm_fh[fm_cos].pos + Len(s) <= MaxData)
    /\ IF fm_cos \in DOMAIN fm_fh => fm_fh[fm_cos].obj \in fm_closed THEN FhRaise
       ELSE WriteTo(fm_cos, s) /\ UNCHANGED fm_err /\ FhKeep

\* Seek(): registers are unsigned; a position past the end becomes the end, and
\* is an error.
Signed(n) == IF n >= FhWord \div 2 THEN n - FhWord ELSE n
seek_target(h, n, mode) ==
    CASE mode = "beginning" -> n [] mode = "current" -> h.pos + Signed(n)
      [] mode = "end" -> Len(Content(h)) + (IF n > 0 THEN n - FhWord ELSE n)
seek(h, n, mode) ==
    LET t == seek_target(h, n, mode)
    IN [ok |-> t \in 0..Len(Content(h)), pos |-> IF t < 0 THEN h.pos ELSE Min({t, Len(Content(h))})]
Seek(a, n, mode) ==
    LET h == fm_fh[a]
        r == seek(h, n, mode)
        from == CASE mode = "beginning" -> 0 [] mode = "current" -> fm_view[a] [] mode = "end" -> Len(Content(h))
    IN /\ FhCall /\ a \in Own /\ h.obj = "file"
       /\ fm_fh' = [fm_fh EXCEPT ![a].pos = r.pos]
       /\ fm_err' = IF r.ok THEN 0 ELSE SeekError
       /\ View(a, IF r.ok /\ h.unch = <<>> /\ from # Unknown THEN from + Signed(n) ELSE Unknown)
       /\ UNCHANGED fm_disk /\ FhKeep

\* getc(): what was put back comes first.  Characters of a terminal are those
\* of the environment.
\* Mutant: a character that was put back is put back for good.
getc_Kept(h, typed) ==
    IF h.unch # <<>> THEN [c |-> Head(h.unch), h |-> h]
    ELSE IF h.obj = "nil" THEN [c |-> ErrCh, h |-> h]
    ELSE IF IsTty(h) THEN [c |-> typed, h |-> h]
    ELSE IF h.pos >= Len(Content(h)) THEN [c |-> EofCh, h |-> h]
    ELSE LET c == Content(h)[h.pos + 1] IN [c |-> c, h |-> [h EXCEPT !.pos = @ + 1]]
getc(h, typed) ==
    IF h.unch # <<>> THEN [c |-> Head(h.unch), h |-> [h EXCEPT !.unch = Tail(@)]]
    ELSE IF h.obj = "nil" THEN [c |-> ErrCh, h |-> h]
    ELSE IF IsTty(h) THEN [c |-> typed, h |-> h]
    ELSE IF h.pos >= Len(Content(h)) THEN [c |-> EofCh, h |-> h]
    ELSE LET c == Content(h)[h.pos + 1] IN [c |-> c, h |-> [h EXCEPT !.pos = @ + 1]]
\* stdout cannot be read, which is an error.
Typed(h) == CASE h.obj = "stdin" -> {NewLine, EofCh} [] h.obj = "stdout" -> {ErrCh} [] OTHER -> {NewLine}
Moved(a, n) == View(a, IF a \in Own /\ fm_view[a] # Unknown THEN fm_view[a] + n ELSE Unknown)
FGetC(a) ==
    \E typed \in Typed(fm_fh[a]) :
        LET g == getc(fm_fh[a], typed)
        IN /\ FhCall /\ a \in Usable
           /\ fm_fh' = [fm_fh EXCEPT ![a] = g.h]
           /\ fm_err' = IF g.c >= 0 THEN 0 ELSE fm_err
           /\ Moved(a, IF g.c >= 0 THEN 1 ELSE 0)
           /\ UNCHANGED fm_disk /\ FhKeep
\* gets(): up to n characters or one line.
gets_step(s) ==
    LET g == getc(s.h, EofCh)
    IN IF s.stop THEN s
       ELSE [h |-> g.h, got |-> IF g.c >= 0 THEN s.got + 1 ELSE s.got, stop |-> g.c < 0 \/ g.c = NewLine]
gets(h, n) ==
    LET r[i \in 0..n] ==
          IF i = 0 THEN [h |-> h, got |-> 0, stop |-> FALSE] ELSE gets_step(r[i - 1])
    IN r[n]
FGets(a, n) ==
    LET r == gets(fm_fh[a], n)
    IN /\ FhCall /\ a \in Usable
       /\ fm_fh' = [fm_fh EXCEPT ![a] = r.h] /\ Moved(a, r.got)
       /\ UNCHANGED <<fm_disk, fm_err>> /\ FhKeep

\* ungetc(): -1 stands for the last character, which is returned but not put back.
ungetc(h, v) ==
    IF v < 0 THEN h ELSE [h EXCEPT !.unch = <<v>> \o @]
UnGetC(a, last) ==
    LET h == fm_fh[a]
        at == fm_view[a]
    IN /\ FhCall /\ a \in Own /\ h.obj = "file" /\ Len(h.unch) < 2
       /\ last \/ at > 0
       /\ fm_fh' = [fm_fh EXCEPT ![a] = ungetc(@, IF last THEN -1 ELSE Content(h)[at])]
       /\ View(a, IF last THEN Unknown ELSE at - 1)
       /\ UNCHANGED <<fm_disk, fm_err>> /\ FhKeep
\* setbuf(): the arguments of a command replace what was put back on its input.
SetBuf(s) ==
    /\ FhCall /\ fm_cis \in DOMAIN fm_fh
    /\ fm_fh' = [fm_fh EXCEPT ![fm_cis].unch = s] /\ View(fm_cis, Unknown)
    /\ UNCHANGED <<fm_disk, fm_err>> /\ FhKeep

SelectInput(a) == FhCall /\ a \in Usable \union {0} /\ fm_cis' = a /\ UNCHANGED <<fm_disk, fm_fh, fm_std, fm_cos, fm_closed, fm_tty, fm_err, fm_sent, fm_replies, fm_view, fm_state>>
SelectOutput(a) == FhCall /\ a \in Usable \union {0} /\ fm_cos' = a /\ UNCHANGED <<fm_disk, fm_fh, fm_std, fm_cis, fm_closed, fm_tty, fm_err, fm_sent, fm_replies, fm_view, fm_state>>
\* SetMode() of a terminal; else ERROR_ACTION_NOT_KNOWN.
SetMode(a, mode) ==
    /\ FhCall /\ a \in Usable
    /\ fm_tty' = IF IsTty(fm_fh[a]) THEN mode ELSE fm_tty
    /\ fm_err' = IF IsTty(fm_fh[a]) THEN 0 ELSE "action_not_known"
    /\ UNCHANGED <<fm_disk, fm_fh, fm_std, fm_cis, fm_cos, fm_closed, fm_sent, fm_replies, fm_view, fm_state>>
\* WaitForChar(): the terminal has a character or not.
WaitForChar(a, some) ==
    /\ FhCall /\ a \in Usable
    /\ fm_err' = IF ~IsTty(fm_fh[a]) THEN "action_not_known" ELSE IF some THEN 1 ELSE 0
    /\ UNCHANGED <<fm_disk, fm_fh, fm_std, fm_cis, fm_cos, fm_closed, fm_tty, fm_sent, fm_replies, fm_view, fm_state>>

-----------------------------------------------------------------------------
(* Packets to the two handler ports; PutMsg() calls the handler at once *)

reply_packet(res) == fm_replies' = Append(fm_replies, [no |-> fm_sent + 1, res |-> res]) /\ fm_sent' = fm_sent + 1
\* fs_put_msg(): an action it does not know raises NameError (dos_pkg).
FsPacket(type, a, s) ==
    /\ FhCall /\ a \in Own /\ fm_fh[a].obj = "file" /\ fm_sent < MaxPackets
    /\ fm_fh[a].pos + Len(s) <= MaxData
    /\ CASE type = "read" ->
              LET got == Len(ReadBytes(fm_fh[a], Len(s)))
              IN /\ fm_fh' = [fm_fh EXCEPT ![a].pos = @ + got] /\ reply_packet(got)
                 /\ View(a, IF fm_fh[a].unch = <<>> /\ fm_view[a] # Unknown THEN fm_view[a] + got ELSE Unknown)
                 /\ UNCHANGED <<fm_disk, fm_std, fm_cis, fm_cos, fm_closed, fm_tty, fm_err, fm_state>>
         [] type = "write" ->
              /\ WriteTo(a, s) /\ reply_packet(Len(s))
              /\ UNCHANGED <<fm_std, fm_cis, fm_cos, fm_closed, fm_tty, fm_err, fm_state>>
         [] OTHER -> FhRaise
\* console_put_msg(): every packet is answered, but for one whose number is no
\* DosAction: ValueError.
console_put_msg(mode) == reply_packet(CASE mode = "other" -> "action_not_known" [] mode = "bad" -> "bad_number" [] OTHER -> -1)
ConsolePacket(mode) ==
    /\ FhCall /\ fm_sent < MaxPackets
    /\ IF mode = "no_action" THEN FhRaise
       ELSE /\ console_put_msg(mode)
            /\ fm_tty' = IF mode \in {"cooked", "raw"} THEN mode ELSE fm_tty
            /\ UNCHANGED <<fm_disk, fm_fh, fm_std, fm_cis, fm_cos, fm_closed, fm_err, fm_view, fm_state>>

\* finish(): the standard handles go, and with them the mode of the terminal.
finish_tty == fm_fh[fm_std.out].saved
FilesFinish ==
    /\ fm_state = "run" /\ UNCHANGED fm_ops
    /\ fm_fh' = [a \in DOMAIN fm_fh \ StdHandles |-> fm_fh[a]]
    /\ fm_tty' = finish_tty
    /\ fm_std' = [in |-> 0, out |-> 0] /\ fm_state' = "done"
    /\ UNCHANGED <<fm_disk, fm_cis, fm_cos, fm_closed, fm_err, fm_sent, fm_replies, fm_view>>

Strings == {<<b>> : b \in FileBytes} \union {<<CHOOSE b \in FileBytes : TRUE, NewLine>>}
FilesNext ==
    \/ \E n \in FileNames, m \in {"r", "w", "rw"} : Open(n, m)
    \/ OpenConsole \/ OpenNil
    \/ \E a \in Usable : \/ Close(a) \/ FGetC(a) \/ FGets(a, 2) \/ SelectInput(a) \/ SelectOutput(a) \/ Read(a, 2)
                         \/ \E s \in Strings : Write(a, s) \/ \E t \in {"read", "write", "other"} : FsPacket(t, a, s)
                         \/ \E m \in {"cooked", "raw"} : SetMode(a, m)
                         \/ \E b \in BOOLEAN : UnGetC(a, b) \/ WaitForChar(a, b)
                         \/ \E n \in {0, 1, 2, FhWord - 1}, m \in {"beginning", "current", "end"} : Seek(a, n, m)
    \/ SelectInput(0) \/ SelectOutput(0)
    \/ \E s \in Strings : PutStr(s) \/ SetBuf(s)
    \/ \E m \in {"cooked", "raw", "bad", "other", "no_action"} : ConsolePacket(m)
    \/ FilesFinish

\* The file handles, beside the terminal.
FilesSpec ==
    /\ FilesInit /\ TerminalInit
    /\ [][(FilesNext /\ UNCHANGED tt_vars) \/ (TerminalNext /\ UNCHANGED fm_vars)]_<<fm_vars, tt_vars>>

-----------------------------------------------------------------------------
(* What holds *)

\* The handles a program has opened, the two standard ones, and what each stands
\* for stay as they are until closed, whatever handles are closed in between:
\* closing a console handle or a standard handle never closes stdin or stdout.
HandlesStand ==
    fm_state = "run" =>
        /\ DOMAIN fm_fh = Own \union StdHandles
        /\ fm_closed = {}
        /\ {fm_cis, fm_cos} \subseteq Usable \union {0}
\* A program that keeps count of its position finds there, character by character,
\* what getc() gives it: characters put back, lines, blocks and seeks together.
ReadsOn ==
    \A a \in Own : a \in DOMAIN fm_fh /\ fm_fh[a].obj = "file" /\ fm_view[a] # Unknown =>
        fm_fh[a].unch \o Rest(Content(fm_fh[a]), fm_fh[a].pos) = Rest(Content(fm_fh[a]), fm_view[a])
\* No Seek() leaves a handle behind the end of its file, where the next write
\* would make a hole.
PosInFile == \A a \in DOMAIN fm_fh : fm_fh[a].pos <= Len(Content(fm_fh[a]))
\* Every packet has exactly one reply, in the order sent, unless vamos ends.
PacketsAnswered == fm_state # "raised" => Len(fm_replies) = fm_sent /\ \A i \in DOMAIN fm_replies : fm_replies[i].no = i
\* When vamos is done the terminal is as it was, whatever modes were set and
\* console handles opened and closed.
TtyRestored == fm_state = "done" => fm_tty = "cooked"

\* A handle reads and writes on where it was, keeps its terminal and its file as long as
\* anyone uses it, and answers its packets (FileManager, FileHandle, EscCsiConverter).
StreamsRight ==
    /\ HandlesStand /\ PosInFile /\ ReadsOn /\ PacketsAnswered /\ TtyRestored
    /\ TerminalLossless
=============================================================================
