----------------------------- MODULE CliImports -----------------------------
(***************************************************************************)
(* The imports of the vcon command (vcon/cli.py, add): recordings, e-mail  *)
(* messages, Zoom directories and Google Meet recordings, one after the    *)
(* other, each of them by a process of its own that reads a vCon, adds to  *)
(* it and writes it.  A process that raises writes nothing.                *)
(*                                                                         *)
(* A directory is listed in any order.  Entries that are passed over (the  *)
(* configuration, the audio beside a video) are left out.  A file that     *)
(* cannot be read before anything was added is not a step.  What a vCon    *)
(* holds besides lists is in VconLifecycle and Cli.                        *)
(***************************************************************************)
EXTENDS VconContent, ChatTime

CONSTANTS Loaded,         \* parties of a vCon that is read first
          ZoomDirectory,  \* directories written by Zoom
          MeetRecording,  \* recordings by Google Meet with their chats
          MachineZone,    \* time zones of machines this may run on
          MaxImports      \* bound: number of commands

\* What is listed: a video with its start and end in UTC, the chat, and other
\* files, the media type of which is known by their extension or not.
Entry == [kind : {"video"}, start : Int, end : Int]
             \cup [kind : {"chat"}]
             \cup [kind : {"file"}, known : BOOLEAN]

\* The zones there are in the world.
Zone == -12 * Hour .. 14 * Hour

\* chat: the messages with their senders and the times they were sent at.  zone
\* is the one of the clocks that the chat is written by.
ASSUME ImportsAssumption ==
    /\ Loaded \subseteq Seq([name : STRING, mailto : STRING])
    /\ \A z \in ZoomDirectory :
           /\ z.entries \subseteq Entry /\ IsFiniteSet(z.entries)
           /\ z.chat \in Seq([sender : STRING, sent : Int])
           /\ z.zone \in Zone
    /\ \A r \in MeetRecording :
           /\ r.named \in BOOLEAN
           /\ r.start \in Int
           /\ r.chat = Absent \/ r.chat \in Seq([sender : STRING, sent : Int])
    /\ MachineZone \subseteq Zone
    /\ MaxImports \in Nat

VARIABLES starts,       \* when the dialogs started
          attachments,
          job,          \* the command that runs
          saved,        \* the vCon as it was last written
          imports,      \* history: what was imported, and into which dialogs
          refused       \* history: the last message whose time was not accepted

listVars == <<contentVars, starts, attachments>>
importsVars == <<listVars, job, saved, imports, refused>>

Idle == [command |-> "none"]
NotRecorded == [kind |-> "none"]
NotDated == 0

\* -1, which the code has for a party it does not know, where indices count
\* from 1.
Unknown == 0

Held == [subject |-> subject, parties |-> parties, dialog |-> dialog,
         analysis |-> analysis, imported |-> imported, starts |-> starts,
         attachments |-> attachments]

ImportsInit ==
    /\ subject = FALSE
    /\ parties \in Loaded
    /\ dialog \in {<<>>, Absent}
    /\ analysis = Absent
    /\ imported = {}
    /\ starts = <<>>
    /\ attachments \in {<<>>, Absent}
    /\ job = Idle
    /\ saved = Held
    /\ imports = <<>>
    /\ refused = NotRecorded

\* A process starts to add to the vCon: the videos, the chat and the files
\* that are listed, or else a chat with known times.
Job(command, source, zone, todo) ==
    [command |-> command, source |-> source, zone |-> zone, todo |-> todo,
     recorded |-> NotRecorded, hasChat |-> FALSE, stage |-> "list",
     chat |-> <<>>, first |-> Len(starts), chatAt |-> Len(starts)]

Begin(entries, messages) ==
    /\ job = Idle
    /\ Len(imports) < MaxImports
    /\ Length(dialog) + entries + messages <= MaxDialogs
    /\ Len(parties) + messages <= MaxParties

\* Exceptions are reported, and what was added until then is written.
FaultyFail == /\ job' = [job EXCEPT !.stage = "done"]
              /\ UNCHANGED <<listVars, saved, imports>>

\* What a process that raises has added is lost.
Fail == /\ subject' = saved.subject
        /\ parties' = saved.parties
        /\ dialog' = saved.dialog
        /\ analysis' = saved.analysis
        /\ imported' = saved.imported
        /\ starts' = saved.starts
        /\ attachments' = saved.attachments
        /\ job' = Idle
        /\ UNCHANGED <<saved, imports>>

Finish ==
    /\ job # Idle
    /\ job.stage = "done"
    /\ saved' = Held
    /\ imports' = Append(imports, job)
    /\ job' = Idle
    /\ UNCHANGED <<listVars, refused>>

-----------------------------------------------------------------------------
\* Recordings and e-mail messages

\* The parties are what the user says.
InRecording(ps) ==
    /\ Begin(1, 0)
    /\ AddDialogRecording(ps, "audio")
    /\ starts' = Append(starts, NotDated)
    /\ job' = [Job("in-recording", NotRecorded, 0, {}) EXCEPT !.stage = "done"]
    /\ UNCHANGED <<attachments, saved, imports, refused>>

InEmail(m) ==
    /\ Begin(1, 0)
    /\ AddDialogInlineEmailMessage(m)
    /\ \/ /\ dialog' # dialog
          /\ starts' = Append(starts, NotDated)
          /\ job' = [Job("in-email", m, 0, {}) EXCEPT !.stage = "done"]
       \/ /\ dialog' = dialog
          /\ job' = [Job("in-email", m, 0, {}) EXCEPT !.stage = "raised"]
          /\ UNCHANGED starts
    /\ UNCHANGED <<attachments, saved, imports, refused>>

\* An e-mail without a date or from a known party, or a Meet recording the chat
\* of which is not there.
Raise ==
    /\ job # Idle
    /\ job.stage = "raised"
    /\ Fail
    /\ UNCHANGED refused

-----------------------------------------------------------------------------
\* Zoom

InZoom(z, zone) ==
    /\ Begin(Cardinality(z.entries), Len(z.chat))
    /\ job' = Job("in-zoom", z, zone, z.entries)
    /\ UNCHANGED <<listVars, saved, imports, refused>>

Listing(e) == /\ job # Idle
              /\ job.stage = "list"
              /\ e \in job.todo

Listed(e) == [job EXCEPT !.todo = @ \ {e}]

\* Start and end of the recording are those of the video listed last.
ReadVideo(e) ==
    /\ Listing(e)
    /\ e.kind = "video"
    /\ AddDialogRecording(<<Unknown>>, "other")
    /\ starts' = Append(starts, e.start)
    /\ job' = [Listed(e) EXCEPT !.recorded = e]
    /\ UNCHANGED <<attachments, saved, imports, refused>>

\* The chat is put off until the times of the recording are known.
ReadChatFile(e) ==
    /\ Listing(e)
    /\ e.kind = "chat"
    /\ job' = [Listed(e) EXCEPT !.hasChat = TRUE]
    /\ UNCHANGED <<listVars, saved, imports, refused>>

\* A file needs a media type, and is dated by a video that was listed before.
Datable(e) == e.known /\ job.recorded # NotRecorded

AddAttachmentInline(start) ==
    /\ attachments' = Added(attachments, [party |-> Unknown, start |-> start])
    /\ UNCHANGED <<contentVars, starts>>

ReadFile(e) ==
    /\ Listing(e)
    /\ e.kind = "file"
    /\ \/ /\ Datable(e)
          /\ AddAttachmentInline(IF job.recorded = NotRecorded THEN NotDated
                                 ELSE job.recorded.start)
          /\ job' = Listed(e)
          /\ UNCHANGED <<saved, imports>>
       \/ /\ ~Datable(e)
          /\ Fail
    /\ UNCHANGED refused

\* Time of day on the clocks of the meeting.
Written(z, message) == TimeOfDay(message.sent + z.zone)

\* All times are worked out before the first message is added.
ParseZoomChat ==
    LET z == job.source
        r == job.recorded
        Time(m) == ZoomChatToUtc(Written(z, m), r.start, r.end, job.zone)
        bad == {m \in Range(z.chat) :
                    Raises(Written(z, m), r.start, r.end, job.zone)}
    IN /\ job # Idle
       /\ job.stage = "list" /\ job.todo = {} /\ job.hasChat
       /\ \/ /\ r = NotRecorded
             /\ Fail
             /\ UNCHANGED refused
          \/ /\ r # NotRecorded
             /\ bad # {}
             /\ Fail
             /\ \E m \in bad : refused' = [message |-> m, job |-> job]
          \/ /\ r # NotRecorded
             /\ bad = {}
             /\ job' = [job EXCEPT !.stage = "chat",
                                   !.chatAt = Len(starts),
                                   !.chat = [k \in DOMAIN z.chat |->
                                                [sender |-> z.chat[k].sender,
                                                 start |-> Time(z.chat[k])]]]
             /\ UNCHANGED <<listVars, saved, imports, refused>>

NoZoomChat ==
    /\ job # Idle
    /\ job.stage = "list" /\ job.todo = {} /\ ~job.hasChat
    /\ job' = [job EXCEPT !.stage = "done"]
    /\ UNCHANGED <<listVars, saved, imports, refused>>

-----------------------------------------------------------------------------
\* Google Meet

\* The name of a recording tells the name of the meeting, its start, and that
\* there is a chat, whose times count from the start.
InMeet(r) ==
    /\ Begin(1, IF r.chat = Absent THEN 0 ELSE Len(r.chat))
    /\ subject' = (subject \/ r.named)
    /\ dialog' = Added(dialog, [type |-> "recording", parties |-> <<>>,
                                single |-> FALSE, media |-> "other"])
    /\ starts' = Append(starts, r.start)
    /\ job' = [Job("in-meet", r, 0, {}) EXCEPT
                   !.stage = IF ~r.named THEN "done"
                             ELSE IF r.chat = Absent THEN "raised"
                             ELSE "chat",
                   !.chatAt = Len(starts) + 1,
                   !.chat = IF r.chat = Absent THEN <<>>
                            ELSE [k \in DOMAIN r.chat |->
                                     [sender |-> r.chat[k].sender,
                                      start |-> r.start + r.chat[k].sent]]]
    /\ UNCHANGED <<parties, analysis, imported, attachments, saved, imports,
                   refused>>

-----------------------------------------------------------------------------
\* The chat, for both

SenderIndices(sender) == FindPartiesByParameter(parties, "name", sender)

\* The last of several.
FaultySenderIndex(sender) ==
    IF SenderIndices(sender) = <<>> THEN Len(parties) + 1
    ELSE Last(SenderIndices(sender))

\* The first of several, or the one that is added.
SenderIndex(sender) ==
    IF SenderIndices(sender) = <<>> THEN Len(parties) + 1
    ELSE SenderIndices(sender)[1]

AddMessage ==
    /\ job # Idle
    /\ job.stage = "chat"
    /\ job.chat # <<>>
    /\ LET message == Head(job.chat) IN
       /\ parties' = IF SenderIndices(message.sender) # <<>> THEN parties
                     ELSE Append(parties, [name |-> message.sender,
                                           mailto |-> ""])
       /\ dialog' = Added(dialog, TextDialog(<<SenderIndex(message.sender)>>,
                                             TRUE, "plain"))
       /\ starts' = Append(starts, message.start)
    /\ job' = [job EXCEPT !.chat = Tail(@)]
    /\ UNCHANGED <<subject, analysis, imported, attachments, saved, imports,
                   refused>>

EndOfChat ==
    /\ job # Idle
    /\ job.stage = "chat"
    /\ job.chat = <<>>
    /\ job' = [job EXCEPT !.stage = "done"]
    /\ UNCHANGED <<listVars, saved, imports, refused>>

ImportsNext ==
    \/ \E i \in 0 .. Len(parties) : InRecording(IF i = 0 THEN <<>> ELSE <<i>>)
    \/ \E m \in Message : InEmail(m)
    \/ Raise
    \/ \E z \in ZoomDirectory, zone \in MachineZone : InZoom(z, zone)
    \/ job # Idle /\ \E e \in job.todo : \/ ReadVideo(e) \/ ReadChatFile(e)
                                        \/ ReadFile(e)
    \/ ParseZoomChat
    \/ NoZoomChat
    \/ \E r \in MeetRecording : InMeet(r)
    \/ AddMessage
    \/ EndOfChat
    \/ Finish

ImportsSpec == ImportsInit /\ [][ImportsNext]_importsVars

-----------------------------------------------------------------------------

\* What was imported with a chat: the chat, and where its messages are.
Chat(im) == CASE im.command = "in-zoom" /\ im.hasChat -> im.source.chat
              [] im.command = "in-meet" /\ im.source.named -> im.source.chat
              [] OTHER -> <<>>

Recordings(im) ==
    IF im.command = "in-meet" THEN 1
    ELSE Cardinality({e \in im.source.entries : e.kind = "video"})

\* Message k of im is in dialog Place(im, k).
Place(im, k) == im.chatAt + k

Messages == {m \in Range(imports) \X (1 .. MaxDialogs) :
                 m[2] \in DOMAIN Chat(m[1])}

\* A vCon that was written has each chat that was imported as a whole: its
\* messages in their order, behind the recordings of the meeting, each with a
\* party in the name of which that of its sender occurs.
ChatsAreWhole ==
    /\ \A m \in Messages :
          LET place == Place(m[1], m[2]) IN
          /\ place <= Length(saved.dialog)
          /\ saved.dialog[place].type = "text"
          /\ Occurs(Chat(m[1])[m[2]].sender,
                    saved.parties[saved.dialog[place].parties[1]].name)
    /\ \A im \in Range(imports) :
          /\ Chat(im) # <<>> => im.chatAt = im.first + Recordings(im)
          /\ im.command = "in-zoom" =>
              im.hasChat = (\E e \in im.source.entries : e.kind = "chat")

\* Whoever writes under one name is one party, in all chats that are imported
\* into a vCon, whoever is added to it in between: no command adds a party under
\* a name that is listed already.
OneSenderOneParty ==
    /\ \A m, n \in Messages :
           Chat(m[1])[m[2]].sender = Chat(n[1])[n[2]].sender =>
               saved.dialog[Place(m[1], m[2])].parties =
                   saved.dialog[Place(n[1], n[2])].parties
    /\ \A i \in DOMAIN parties, j \in DOMAIN parties \ DOMAIN saved.parties :
           parties[i].name = parties[j].name /\ parties[j].name # "" => i = j

\* Sent while the meeting was recorded, which took at most half a day.
Recorded(sent, r) == /\ r.start <= sent /\ sent <= r.end
                     /\ r.end - r.start < 12 * Hour

\* Messages get the time they were sent at if the machine has the time zone of
\* the meeting and the recording does not start on an earlier date in UTC than
\* the sender's.  From a zone where it does, and over midnight in UTC, they
\* are a day early; on a machine that is an hour ahead (by using summer time
\* all the year) they are an hour early: no time before the start is refused.
ChatTimeIsKnown ==
    \A im \in Range(imports) : \A k \in DOMAIN Chat(im) :
        LET sent == Chat(im)[k].sent IN
        im.command = "in-zoom" /\ Recorded(sent, im.recorded)
        => TimeIsKnown(saved.starts[Place(im, k)], sent, im.recorded.start,
                       im.source.zone, im.zone)

\* On a machine in the time zone of the meeting, a message that was sent while
\* it was recorded stops the import only if it was sent before a midnight there
\* that the recording goes over, later than a midnight in UTC.
RefusedOverMidnight ==
    refused # NotRecorded =>
        LET r == refused.job.recorded
            zone == refused.job.zone
            sent == refused.message.sent
        IN  zone = refused.job.source.zone /\ Recorded(sent, r)
            => OverMidnight(sent, r.start, r.end, zone)
=============================================================================
