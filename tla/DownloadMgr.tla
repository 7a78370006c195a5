----------------------------- MODULE DownloadMgr -----------------------------
(***************************************************************************)
(* DownloadMgr::DownloadFile (common/Utilities/DownloadMgr.cpp): a file is *)
(* fetched over HTTPS; what an earlier call or an earlier run of the       *)
(* program has left is completed with a range request.  A progress bar     *)
(* (ProgressBar) counts what the reads return.                             *)
(*                                                                         *)
(* The content of a file is a sequence of blocks.  Block k of version v of *)
(* the remote file is <<v, k>>; the text of an error page is Page.         *)
(* The server, the network and the disk may misbehave: `trouble' remembers *)
(* in which ways they have.                                                *)
(***************************************************************************)
EXTENDS ProgressBar, Sequences, SequencesExt

CONSTANTS Length,       \* the number of blocks of the remote file
          MaxVersion,   \* bound: how often the remote file is replaced
          MaxCalls,     \* bound: calls of DownloadFile
          NoFile,       \* the local file does not exist
          Page          \* a block of an error page

Blocks == (0 .. MaxVersion) \X (1 .. Length) \union {Page}

ASSUME DownloadAssumption ==
    /\ Length \in Nat \ {0}
    /\ MaxVersion \in Nat /\ MaxCalls \in Nat
    /\ Page \notin (0 .. MaxVersion) \X (1 .. Length)
    /\ NoFile \notin Seq(Blocks)

VARIABLES version,      \* of the remote file
          ranges,       \* the Accept-Ranges field of the server: "bytes", "none" or "absent"
          file,         \* the local file
          kept,         \* how much of it has left the stream's buffer
          good,         \* outFile is open and every write so far worked
          socket,       \* _socket is set
          pc,           \* "idle", "connected", "reconnect", "ranged" or "body"
          coming,       \* the blocks of the response that are still to come
          bar,          \* the progress bar of the last call, NoBar if it drew none
          result,       \* of the last call: "none", "true", "false" or "thrown"
          calls,        \* calls so far
          trouble       \* the ways in which the outside has misbehaved

answer == <<pc, coming>>
disk == <<file, kept, good>>
vars == <<version, ranges, disk, socket, answer, bar, result, calls, trouble>>

NoBar == NewBar(0, 0)

Remote == [k \in 1 .. Length |-> <<version, k>>]

Size == IF file = NoFile THEN 0 ELSE Len(file)
-----------------------------------------------------------------------------
Init ==
    /\ version = 0
    /\ ranges \in {"bytes", "none", "absent"}
    /\ file = NoFile
    /\ kept = 0
    /\ good = FALSE
    /\ socket = FALSE
    /\ pc = "idle"
    /\ coming = <<>>
    /\ bar = NoBar
    /\ result = "none"
    /\ calls = 0
    /\ trouble = {}

Returns(r) == pc' = "idle" /\ coming' = <<>> /\ result' = r

Shutdown == socket' = FALSE

(* Connect creates the socket first and reports a failure afterwards. *)
Connect(next) ==
    /\ socket' = TRUE
    /\ \/ pc' = next /\ UNCHANGED <<coming, result>>
       \/ Returns("false")

DownloadFile ==
    /\ pc = "idle"
    /\ calls < MaxCalls
    /\ calls' = calls + 1
    /\ Connect("connected")
    /\ bar' = NoBar
    /\ UNCHANGED <<version, ranges, disk, trouble>>

(* Plausible bug: the file is always opened without app. *)
AlwaysTruncates(size) == <<>>

(* WriteDataToFile opens the file: app, or truncated if size is 0. *)
OpenedFor(size) == IF size > 0 THEN file ELSE <<>>

(* The n blocks that came with the header are written before the bar is made, *)
(* which counts the others.  Opening may fail, like every write, which may    *)
(* have emptied the file before, and nobody looks.                            *)
WriteDataToFile(body, size, problems) ==
    \E n \in 0 .. Len(body) :
       /\ pc' = "body"
       /\ coming' = SubSeq(body, n + 1, Len(body))
       /\ bar' = NewBar(Len(coming') + size, size)
       /\ \/ /\ file' = OpenedFor(size) \o SubSeq(body, 1, n)
             /\ kept' \in Len(OpenedFor(size)) .. Len(file')
             /\ good' = TRUE
             /\ trouble' = trouble \union problems
          \/ /\ good' = FALSE
             /\ trouble' = trouble \union problems \union {"disk"}
             /\ \/ UNCHANGED <<file, kept>>
                \/ file' = OpenedFor(size) /\ kept' = Len(file')
       /\ UNCHANGED result

IsActual(n) == Size = n

(* The first response, with the length it declares.  Its status is not looked *)
(* at; the Accept-Ranges field is, and at() throws if it is not there.        *)
HandleFirst(body, hasRanges, problems) ==
    LET unwritten == UNCHANGED <<disk, bar>> /\ trouble' = trouble \union problems
    IN  IF ~hasRanges
        THEN Returns("thrown") /\ unwritten /\ UNCHANGED socket
        ELSE IF file # NoFile /\ IsActual(Len(body))
        THEN Returns("true") /\ unwritten /\ UNCHANGED socket
        ELSE IF file # NoFile /\ ranges = "bytes"
        THEN Shutdown /\ pc' = "reconnect" /\ unwritten /\ UNCHANGED <<coming, result>>
        ELSE WriteDataToFile(body, 0, problems) /\ UNCHANGED socket

(* The request could not be sent, or no header or no content length came. *)
NoResponse == Returns("false") /\ UNCHANGED <<disk, socket, bar, trouble>>

FirstResponse ==
    /\ pc = "connected"
    /\ \/ HandleFirst(Remote, ranges # "absent", {})
       \/ \E hasRanges \in {FALSE, ranges # "absent"} :
             HandleFirst(<<Page>>, hasRanges, {"error page"})
       \/ NoResponse
    /\ UNCHANGED <<version, ranges, calls>>

Reconnect ==
    /\ pc = "reconnect"
    /\ Connect("ranged")
    /\ UNCHANGED <<version, ranges, disk, bar, calls, trouble>>

(* Plausible bug: the range starts at the last byte, not after it. *)
RangeFromLast(size) == IF size > 0 THEN size - 1 ELSE 0

RangeStart(size) == size

(* The rest of the remote file from position n on. *)
Rest(n) == SubSeq(Remote, n + 1, Length)

(* FinishDownloadFile: whatever has a content length is appended, be it an    *)
(* error page (416) or the whole file again, for a server may ignore a range. *)
RangeResponse ==
    /\ pc = "ranged"
    /\ \/ /\ RangeStart(Size) < Length
          /\ WriteDataToFile(Rest(RangeStart(Size)), Size, {})
          /\ UNCHANGED socket
       \/ /\ WriteDataToFile(<<Page>>, Size, {"error page"})
          /\ UNCHANGED socket
       \/ /\ Size > 0
          /\ WriteDataToFile(Remote, Size, {"range ignored"})
          /\ UNCHANGED socket
       \/ NoResponse
    /\ UNCHANGED <<version, ranges, calls>>

(* A read returns some blocks, which are written as long as writing works.    *)
ReadBody ==
    /\ pc = "body"
    /\ \E n \in 1 .. Len(coming) :
          /\ coming' = SubSeq(coming, n + 1, Len(coming))
          /\ \E due \in BOOLEAN : bar' = Update(bar, n, due)
          /\ \/ /\ good
                /\ file' = file \o SubSeq(coming, 1, n)
                /\ kept' \in kept .. Len(file')
                /\ UNCHANGED <<good, trouble>>
             \/ /\ good' = FALSE
                /\ trouble' = trouble \union {"disk"}
                /\ UNCHANGED <<file, kept>>
    /\ UNCHANGED <<version, ranges, socket, pc, result, calls>>

(* Plausible bug: an aborted connection counts as the end of the file. *)
AnyEnd(cleanly) == "true"

ReportOf(cleanly) == IF cleanly THEN "true" ELSE "false"

Early(cleanly) == IF cleanly /\ coming # <<>> THEN {"early eof"} ELSE {}

(* The connection ends, cleanly (eof) or not; eof may come too early, and the *)
(* length is not compared.  Closing the file writes what is buffered, or      *)
(* loses it, which nobody notices either.                                     *)
EndOfBody ==
    /\ pc = "body"
    /\ \E cleanly \in BOOLEAN :
          /\ Returns(ReportOf(cleanly))
          /\ \/ /\ kept' = Size
                /\ trouble' = trouble \union Early(cleanly)
                /\ UNCHANGED file
             \/ /\ kept < Size
                /\ \E n \in kept .. Size - 1 : file' = SubSeq(file, 1, n)
                /\ kept' = Len(file')
                /\ trouble' = trouble \union Early(cleanly) \union {"disk"}
    /\ bar' = Stop(bar)
    /\ Shutdown
    /\ UNCHANGED <<version, ranges, good, calls>>

(* The program dies; what was in the stream's buffer is lost. *)
Crash ==
    /\ pc # "idle"
    /\ pc' = "idle" /\ coming' = <<>> /\ result' = "none"
    /\ socket' = FALSE
    /\ file' = IF Size > kept THEN SubSeq(file, 1, kept) ELSE file
    /\ bar' = NoBar
    /\ UNCHANGED <<version, ranges, kept, good, calls, trouble>>

(* The remote file is replaced, which is no trouble while nothing of the old  *)
(* one is here or on its way.                                                 *)
Replaced ==
    /\ version < MaxVersion
    /\ version' = version + 1
    /\ trouble' = IF Size > 0 \/ pc # "idle" THEN trouble \union {"replaced"} ELSE trouble
    /\ UNCHANGED <<ranges, disk, socket, answer, bar, result, calls>>

Next ==
    \/ DownloadFile
    \/ FirstResponse
    \/ Reconnect
    \/ RangeResponse
    \/ ReadBody
    \/ EndOfBody
    \/ Crash
    \/ Replaced

Spec == Init /\ [][Next]_vars
-----------------------------------------------------------------------------
(* While the server and the disk behave, what is on the disk is the beginning *)
(* of the remote file, over dropped connections, crashes and any number of    *)
(* calls that continue each other (DownloadMgr.cpp:178-181, 144, 294).        *)
LocalIsPrefix ==
    trouble = {} /\ file # NoFile => IsPrefix(file, Remote)

(* Under the same condition a call that reports success has the whole file:   *)
(* connections that break off and crashes are reported, or repaired by a      *)
(* later call (DownloadMgr.cpp:215-221, 273-277).                             *)
SuccessIsComplete ==
    trouble = {} /\ pc = "idle" /\ result = "true" => file = Remote

(* What the bar draws and what it has collected are together the blocks that  *)
(* were read, none lost or counted twice by updates that come too soon, and   *)
(* it fills by itself with the last block and not before.  A download that    *)
(* is continued is the exception: its bar starts at 0 all the same, lacks     *)
(* what was there already, and is never full until Stop says so               *)
(* (ProgressBar.cpp:40-41, 97-114, 151-161; DownloadMgr.cpp:197, 207).        *)
BarCountsWhatCame ==
    pc = "body" =>
      /\ bar.progress + bar.unprinted = bar.size - bar.min - Len(coming)
      /\ bar.full <=> bar.min = 0 /\ coming = <<>> /\ bar.size > 0

(* A call never throws away what an earlier call has fetched if the server    *)
(* can continue from there, whatever goes wrong (DownloadMgr.cpp:178, 289).   *)
ResumeLosesNothing ==
    [][/\ ranges = "bytes" /\ file # NoFile /\ pc # "body"
       => IsPrefix(file, file')]_vars

(* DownloadMgr.cpp:290 says what happens with a server that offers no ranges: *)
(* "This file don't support accept ranges. Start download again".  So no call *)
(* to a server that works ends with an exception.                             *)
NoRangesIsHandled == trouble = {} => result # "thrown"
=============================================================================
