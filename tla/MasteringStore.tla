--------------------------- MODULE MasteringStore ----------------------------
(* The store of the mastering service (runtime/mastering.py) and the two      *)
(* processes that call it without a lock: the dedicated server                *)
(* (runtime/mastering_mcp_server.py, "panel") and the tools of the first MCP  *)
(* server (runtime/server_v2.py, "main").  Each process runs one call at a    *)
(* time on its event loop.  Every call that changes the metadata reads it,    *)
(* works on files for seconds or minutes, and writes back all that it read.   *)
(*                                                                            *)
(* One asset.  The audio and its measurements are left out; the MP3 and the   *)
(* private preview of an output are one derivative.                           *)
EXTENDS Integers, Sequences, SequencesExt

CONSTANTS MaxOutputs,   \* the metadata lists the newest outputs (50 in the code)
          MaxShown,     \* an output shows its newest links (10 in the code)
          MaxRenders,   \* bound: outputs are numbered up to this
          MaxLinks,     \* bound: tokens are numbered up to this
          MaxKills      \* bound: how often a process dies

ASSUME MasteringAssumption ==
  /\ MaxOutputs \in Nat \ {0} /\ MaxShown \in Nat \ {0}
  /\ MaxRenders \in Nat /\ MaxLinks \in Nat /\ MaxKills \in Nat

Servers == {"main", "panel"}
Outputs == 1 .. MaxRenders
Tokens == 1 .. MaxLinks

VARIABLES
  meta,      \* the metadata file
  upload,    \* the uploaded source: not yet there, there, or deleted
  audio,     \* the outputs and derivatives on disk
  link,      \* the share files: the output each leads to, 0 if there is none
  renders,   \* how many outputs and tokens were numbered
  links,
  call,      \* what each process is doing, with the metadata it read
  deleted,   \* history: outputs whose deletion was answered
  revoked,   \* history: tokens that were revoked, or deleted with what they led to
  unsure,    \* history: outputs a stale write brought back, or a death left half deleted
  kills

masteringVars ==
  <<meta, upload, audio, link, renders, links, call, deleted, revoked, unsure, kills>>
history == <<deleted, revoked, unsure>>

NoMeta == [there |-> FALSE, outputs |-> <<>>, derived |-> {}, shown |-> [o \in Outputs |-> <<>>]]

NoCall == [at |-> "idle", copy |-> NoMeta, output |-> 0]

Places == {"idle", "uploaded", "measure", "preview", "encode", "probe", "derive", "shrink",
           "unlink", "unshare", "unlist", "disown", "forget", "unload", "clear", "show",
           "unshow"}

Listed(o) == meta.there /\ o \in ToSet(meta.outputs)

\* resolve_output_file finds the WAV, or a derivative it has on record.
Downloadable(o) == Listed(o) /\ (o \in audio.wav \/ o \in meta.derived \cap audio.mp3)

At(p, place) == [call EXCEPT ![p].at = place]
Ended(p) == [call EXCEPT ![p] = NoCall]

\* The newest n of a list.
Newest(list, n) == SubSeq(list, IF Len(list) > n THEN Len(list) - n + 1 ELSE 1, Len(list))

\* The list without e.  No list has an entry twice.
Without(list, e) ==
  IF Contains(list, e) THEN RemoveAt(list, CHOOSE i \in DOMAIN list : list[i] = e) ELSE list

\* _read_meta, with which every call on an asset begins.
BeginCall(p, place, o) ==
  /\ call[p].at = "idle"
  /\ meta.there
  /\ call' = [call EXCEPT ![p] = [at |-> place, copy |-> meta, output |-> o]]

\* _write_meta replaces the whole file.  Outputs that were deleted since the
\* call read it are listed again.
WriteMeta(p, m) ==
  /\ meta' = m
  /\ call' = Ended(p)
  /\ unsure' = unsure \cup
       ((ToSet(m.outputs) \cap ToSet(call[p].copy.outputs)) \ ToSet(meta.outputs))

-----------------------------------------------------------------------------
(* store_upload, analyze and render: tools of both processes *)

\* A file that cannot be probed stays where it is.
Upload(p) ==
  /\ call[p].at = "idle" /\ upload = "none"
  /\ upload' = "there"
  /\ call' \in {At(p, "uploaded"), call}
  /\ UNCHANGED <<meta, audio, link, renders, links, history, kills>>

UploadSaves(p) ==
  /\ call[p].at = "uploaded"
  /\ WriteMeta(p, [NoMeta EXCEPT !.there = TRUE])
  /\ UNCHANGED <<upload, audio, link, renders, links, deleted, revoked, kills>>

Analyze(p) ==
  /\ upload = "there"
  /\ BeginCall(p, "measure", 0)
  /\ UNCHANGED <<meta, upload, audio, link, renders, links, history, kills>>

AnalyzeSaves(p) ==
  /\ call[p].at = "measure"
  /\ WriteMeta(p, call[p].copy)
  /\ UNCHANGED <<upload, audio, link, renders, links, deleted, revoked, kills>>

\* resolve_source_file: the panel makes a preview of the source if it finds none.
\* The preview lies next to the source and goes with it.
PreviewSource ==
  /\ upload = "there"
  /\ BeginCall("panel", "preview", 0)
  /\ UNCHANGED <<meta, upload, audio, link, renders, links, history, kills>>

\* ffmpeg or the probe of the preview may fail; else the preview is put on
\* record, even if the source has been deleted in the meantime.
PreviewSaves ==
  /\ call["panel"].at = "preview"
  /\ \/ WriteMeta("panel", call["panel"].copy)
     \/ call' = Ended("panel") /\ UNCHANGED <<meta, unsure>>
  /\ UNCHANGED <<upload, audio, link, renders, links, deleted, revoked, kills>>

Render(p) ==
  /\ upload = "there" /\ renders < MaxRenders
  /\ renders' = renders + 1
  /\ BeginCall(p, "encode", renders')
  /\ UNCHANGED <<meta, upload, audio, link, links, history, kills>>

\* ffmpeg writes the output, or fails and leaves nothing, or is killed at the
\* timeout and leaves a part of it.
Encodes(p) ==
  /\ call[p].at = "encode"
  /\ \/ /\ upload = "there"
        /\ audio' = [audio EXCEPT !.wav = @ \cup {call[p].output}]
        /\ call' \in {At(p, "probe"), Ended(p)}
     \/ call' = Ended(p) /\ UNCHANGED audio
  /\ UNCHANGED <<meta, upload, link, renders, links, history, kills>>

\* The report on the output; its file must still be there.
Probes(p) ==
  /\ call[p].at = "probe"
  /\ call' = IF call[p].output \in audio.wav THEN At(p, "shrink") ELSE Ended(p)
  /\ UNCHANGED <<meta, upload, audio, link, renders, links, history, kills>>

\* Only the newest outputs stay listed; the files and links of the others stay.
RenderSaves(p) ==
  LET m == call[p].copy
  IN /\ call[p].at = "shrink"
     /\ WriteMeta(p, [m EXCEPT !.outputs = Newest(Append(@, call[p].output), MaxOutputs)])
     /\ UNCHANGED <<upload, audio, link, renders, links, deleted, revoked, kills>>

-----------------------------------------------------------------------------
(* ensure_mp3 and ensure_preview_mp3 *)

\* A derivative on record and on disk is answered at once.
EnsureMp3(o) ==
  /\ Listed(o) /\ o \in audio.wav
  /\ ~ (o \in meta.derived /\ o \in audio.mp3)
  /\ BeginCall("panel", "derive", o)
  /\ UNCHANGED <<meta, upload, audio, link, renders, links, history, kills>>

Derives ==
  LET o == call["panel"].output
      m == call["panel"].copy
  IN /\ call["panel"].at = "derive"
     /\ \/ /\ o \in audio.wav
           /\ audio' = [audio EXCEPT !.mp3 = @ \cup {o}]
           /\ call' \in {[call EXCEPT !["panel"].at = "show",
                                      !["panel"].copy = [m EXCEPT !.derived = @ \cup {o}]],
                         Ended("panel")}
        \/ /\ audio' = [audio EXCEPT !.mp3 = @ \ {o}]
           /\ call' = Ended("panel")
     /\ UNCHANGED <<meta, upload, link, renders, links, history, kills>>

\* The copy, changed, is written back: the derivative is on record.
PanelSaves ==
  /\ call["panel"].at = "show"
  /\ WriteMeta("panel", call["panel"].copy)
  /\ UNCHANGED <<upload, audio, link, renders, links, deleted, revoked, kills>>

-----------------------------------------------------------------------------
(* delete_output *)

DeleteOutput(o) ==
  /\ Listed(o)
  /\ BeginCall("panel", "unlink", o)
  /\ UNCHANGED <<meta, upload, audio, link, renders, links, history, kills>>

\* Fault: the derivatives stay.
UnlinksMaster ==
  /\ call["panel"].at = "unlink"
  /\ audio' = [audio EXCEPT !.wav = @ \ {call["panel"].output}]
  /\ call' = At("panel", "unshare")
  /\ UNCHANGED <<meta, upload, link, renders, links, history, kills>>

\* The files on record.
Unlinks ==
  LET o == call["panel"].output
  IN /\ call["panel"].at = "unlink"
     /\ audio' = [wav |-> audio.wav \ {o},
                  mp3 |-> audio.mp3 \ ({o} \cap call["panel"].copy.derived)]
     /\ call' = At("panel", "unshare")
     /\ UNCHANGED <<meta, upload, link, renders, links, history, kills>>

\* Fault: only the links that the output shows.
ShownLinksOf(p) ==
  {t \in Tokens : link[t] # 0 /\ t \in ToSet(call[p].copy.shown[link[t]])
                  /\ call[p].output \in {0, link[t]}}

\* _remove_shares_for: the share files tell what they lead to.
LinksOf(p) == {t \in Tokens : link[t] # 0 /\ call[p].output \in {0, link[t]}}

Unshares(p) ==
  /\ call[p].at \in {"unshare", "disown"}
  /\ link' = [t \in Tokens |-> IF t \in LinksOf(p) THEN 0 ELSE link[t]]
  /\ call' = At(p, IF call[p].at = "unshare" THEN "unlist" ELSE "unload")
  /\ revoked' = revoked \cup {t \in Tokens : link[t] # 0 /\ call[p].output \in {0, link[t]}}
  /\ UNCHANGED <<meta, upload, audio, renders, links, deleted, unsure, kills>>

Unlists ==
  LET o == call["panel"].output
      m == call["panel"].copy
  IN /\ call["panel"].at = "unlist"
     /\ WriteMeta("panel", [m EXCEPT !.outputs = Without(@, o), !.derived = @ \ {o},
                                 !.shown[o] = <<>>])
     /\ deleted' = deleted \cup {o}
     /\ UNCHANGED <<upload, audio, link, renders, links, revoked, kills>>

-----------------------------------------------------------------------------
(* delete_asset, in either process *)

DeleteAsset(p) ==
  /\ call[p].at = "idle"
  /\ meta.there
  /\ call' = At(p, "disown")
  /\ UNCHANGED <<meta, upload, audio, link, renders, links, history, kills>>

Unloads(p) ==
  /\ call[p].at = "unload"
  /\ upload' = "deleted"
  /\ call' = At(p, "clear")
  /\ UNCHANGED <<meta, audio, link, renders, links, history, kills>>

Clears(p) ==
  /\ call[p].at = "clear"
  /\ audio' = [wav |-> {}, mp3 |-> {}]
  /\ call' = At(p, "forget")
  /\ UNCHANGED <<meta, upload, link, renders, links, history, kills>>

Forgets(p) ==
  /\ call[p].at = "forget"
  /\ meta' = NoMeta
  /\ call' = Ended(p)
  /\ deleted' = deleted \cup {o \in Outputs : Listed(o)}
  /\ UNCHANGED <<upload, audio, link, renders, links, revoked, unsure, kills>>

-----------------------------------------------------------------------------
(* create_share and revoke_share *)

\* The link works before the output shows it; an output shows the newest ones.
CreateLink(o) ==
  /\ Listed(o) /\ links < MaxLinks
  /\ links' = links + 1
  /\ call["panel"].at = "idle"
  /\ link' = [link EXCEPT ![links'] = o]
  /\ call' = [call EXCEPT !["panel"] =
       [at |-> "show", output |-> o,
        copy |-> [meta EXCEPT !.shown[o] = Newest(Append(@, links'), MaxShown)]]]
  /\ UNCHANGED <<meta, upload, audio, renders, history, kills>>

\* The file goes first; then the output stops to show the link, if it is listed.
RevokeShare(t) ==
  /\ call["panel"].at = "idle"
  /\ link[t] # 0
  /\ link' = [link EXCEPT ![t] = 0]
  /\ call' = IF Listed(link[t])
             THEN [call EXCEPT !["panel"] =
                    [at |-> "unshow", output |-> link[t],
                     copy |-> [meta EXCEPT !.shown[link[t]] = Without(@, t)]]]
             ELSE call
  /\ revoked' = revoked \cup {t}
  /\ UNCHANGED <<meta, upload, audio, renders, links, deleted, unsure, kills>>

Unshows ==
  /\ call["panel"].at = "unshow"
  /\ WriteMeta("panel", call["panel"].copy)
  /\ UNCHANGED <<upload, audio, link, renders, links, deleted, revoked, kills>>

\* _read_share removes the file of a link that ran out.
LinkExpires(t) ==
  /\ link[t] # 0
  /\ link' = [link EXCEPT ![t] = 0]
  /\ UNCHANGED <<meta, upload, audio, renders, links, call, history, kills>>

-----------------------------------------------------------------------------
\* A process dies in the middle of a call and is started again.
MasteringDies(p) ==
  /\ kills < MaxKills
  /\ call[p].at # "idle"
  /\ kills' = kills + 1
  /\ call' = Ended(p)
  /\ unsure' = IF call[p].at \in {"unshare", "unlist"} THEN unsure \cup {call[p].output}
               ELSE unsure
  /\ UNCHANGED <<meta, upload, audio, link, renders, links, deleted, revoked>>

MasteringInit ==
  /\ meta = NoMeta
  /\ upload = "none"
  /\ audio = [wav |-> {}, mp3 |-> {}]
  /\ link = [t \in Tokens |-> 0]
  /\ renders = 0
  /\ links = 0
  /\ call = [p \in Servers |-> NoCall]
  /\ deleted = {}
  /\ revoked = {}
  /\ unsure = {}
  /\ kills = 0

MasteringTool(p) == Upload(p) \/ Analyze(p) \/ Render(p) \/ DeleteAsset(p)

Continues(p) ==
  \/ UploadSaves(p) \/ AnalyzeSaves(p)
  \/ Encodes(p) \/ Probes(p) \/ RenderSaves(p)
  \/ Unshares(p) \/ Unloads(p) \/ Clears(p) \/ Forgets(p)

PanelTool ==
  \/ PreviewSource
  \/ \E o \in Outputs : EnsureMp3(o) \/ DeleteOutput(o) \/ CreateLink(o)
  \/ \E t \in Tokens : RevokeShare(t) \/ LinkExpires(t)

PanelContinues == PreviewSaves \/ Derives \/ PanelSaves \/ Unlinks \/ Unlists \/ Unshows

MasteringNext ==
  \/ \E p \in Servers : MasteringTool(p) \/ Continues(p) \/ MasteringDies(p)
  \/ PanelTool
  \/ PanelContinues

MasteringSpec == MasteringInit /\ [][MasteringNext]_masteringVars

-----------------------------------------------------------------------------
(* Properties *)

Metas == [there : BOOLEAN, outputs : Seq(Outputs), derived : SUBSET Outputs,
          shown : [Outputs -> Seq(Tokens)]]

\* Types.
MasteringTypeOK ==
  /\ meta \in Metas
  /\ upload \in {"none", "there", "deleted"}
  /\ audio \in [wav : SUBSET Outputs, mp3 : SUBSET Outputs]
  /\ link \in [Tokens -> Outputs \cup {0}]
  /\ renders \in 0 .. MaxRenders
  /\ links \in 0 .. MaxLinks
  /\ call \in [Servers -> [at : Places, copy : Metas, output : Outputs \cup {0}]]
  /\ deleted \subseteq Outputs /\ revoked \subseteq Tokens /\ unsure \subseteq Outputs
  /\ kills \in 0 .. MaxKills

Leaving(o) == call["panel"].at \in {"unshare", "unlist"} /\ call["panel"].output = o

\* An output whose deletion was answered is never served again, neither as WAV
\* nor as MP3, although a call of the other process, begun before, may put its
\* entry back into the metadata.  And what an asset lists has its audio: a
\* render that failed or was killed, or whose file is gone, is never listed;
\* the exceptions are the output that is being deleted, those a stale write
\* brought back, and the deletion cut short.
ServedAsListed ==
  /\ \A o \in deleted : ~ Downloadable(o)
  /\ \A o \in Outputs :
       Listed(o) /\ upload = "there" => o \in audio.wav \/ Leaving(o) \/ o \in unsure

\* A link that was revoked, or that was there when its output or asset was
\* deleted, is dead from then on, also if the metadata no longer showed it.
LinkEndsForGood == \A t \in Tokens : link[t] # 0 => t \notin revoked

\* What the description of mastering_delete promises: the source, its analysis
\* and every output are deleted permanently.
\* The code does not keep this one (README, Divergences).
DeletedStaysDeleted == [][upload = "deleted" /\ ~ meta.there => ~ meta'.there]_masteringVars
=============================================================================
