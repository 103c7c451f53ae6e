-------------------------------- MODULE Oracle --------------------------------
(***************************************************************************)
(* The Oracle tab of the GUI and its worker thread: questions, pings and   *)
(* changed settings go to the worker over one channel, its replies come    *)
(* back over another, which a frame of the GUI drains.  The tab edits its  *)
(* own copy of the settings; Save writes oracle.toml and sends a copy to   *)
(* the worker.                                                             *)
(*                                                                         *)
(* Abstractions.  Of the settings: the switch, the list of models, the     *)
(* endpoints and the selected model; prompts, context packs and texts are  *)
(* left out.  Automatic questions are left out: nothing in the program     *)
(* raises the alerts or writes the regimes that trigger them.  External: a *)
(* model answers or fails within the timeouts of the HTTP client.          *)
(***************************************************************************)
EXTENDS Naturals, Sequences, SequencesExt

CONSTANTS
    Labels,         \* the names a user gives to endpoints
    MaxRemotes,     \* bound: endpoints registered
    MaxEdits,       \* bound: edits of the settings in the tab
    MaxRequests     \* bound: requests and replies under way

Local == {"r1_1_5b", "r1_7b"}

\* An entry of a remote endpoint is of a kind of its own (model.rs:13), whatever
\* its label.
ASSUME RemoteLabels == Labels \cap Local = {}

VARIABLES
    form,       \* the settings as the tab shows them
    file,       \* the settings in oracle.toml
    held,       \* the settings the worker uses
    short,      \* what descends from a write cut short of entries or
                \* endpoints: "file", and "form" for the tab and the worker
    requests,   \* the channel to the worker
    busy,       \* the request the worker is at, or Idle
    replies,    \* the channel to the GUI
    awaiting,   \* the tab waits for an answer
    edits       \* edits so far

settings == <<form, file, held, short>>
channels == <<requests, busy, replies>>
oracle   == <<settings, channels, awaiting, edits>>

Idle == [kind |-> "idle"]

\* OracleConfig::default; a file that does not parse reads as this too.
Default ==
    [enabled |-> TRUE, entries |-> <<"r1_1_5b", "r1_7b">>, remotes |-> <<>>, selected |-> 1]

Chosen(cfg) == cfg.entries[cfg.selected]

\* generate finds a model to ask: the switch is on, the selected entry
\* exists, and a remote one has its endpoint.
HasModel(cfg) == cfg.selected \in DOMAIN cfg.entries
Resolves(cfg) == HasModel(cfg) /\ (Chosen(cfg) \in Local \/ Chosen(cfg) \in ToSet(cfg.remotes))

InFlight == Len(requests) + Len(replies)

-----------------------------------------------------------------------------
(* The settings column.                                                    *)

Edited == edits < MaxEdits /\ edits' = edits + 1

\* A write that is cut short and yet parses: the endpoints stand last in the
\* file, after the entries; if there are none, `remotes = []` stands above the
\* entries.  A file without a list it needs does not parse.
Cut(cfg) ==
    IF cfg.remotes = <<>>
    THEN {[cfg EXCEPT !.entries = SubSeq(@, 1, n)] : n \in 1..(Len(cfg.entries) - 1)}
    ELSE {[cfg EXCEPT !.remotes = SubSeq(@, 1, n)] : n \in 1..(Len(cfg.remotes) - 1)}

\* fs::write: nothing, a file that does not parse, the settings, or some.
WriteFileOf(cfg) ==
    \/ UNCHANGED <<file, short>>
    \/ file' = Default /\ short' = short \ {"file"}
    \/ file' = cfg /\ short' = IF "form" \in short THEN {"form", "file"} ELSE {}
    \/ file' \in Cut(cfg) /\ short' = short \cup {"file"}

\* save_config: the file, if it can be written, and a copy to the worker.
SaveOracle(cfg) ==
    /\ InFlight < MaxRequests
    /\ form' = cfg
    /\ WriteFileOf(cfg)
    /\ requests' = Append(requests, [kind |-> "config", cfg |-> cfg])
    /\ UNCHANGED <<held, busy, replies, awaiting>>

\* "Save behavior" and "Save runtime".
Save == SaveOracle(form) /\ UNCHANGED edits

\* The switch and the model list change the tab's copy only.
EditBehavior ==
    /\ Edited
    /\ form' = [form EXCEPT !.enabled = ~@]
    /\ UNCHANGED <<file, held, short, channels, awaiting>>

EditRuntime ==
    /\ Edited
    /\ \E i \in DOMAIN form.entries : form' = [form EXCEPT !.selected = i]
    /\ UNCHANGED <<file, held, short, channels, awaiting>>

\* A new endpoint is selected and saved at once; labels may repeat.
RegisterEndpoint ==
    /\ Edited
    /\ Len(form.remotes) < MaxRemotes
    /\ \E label \in Labels :
            SaveOracle([form EXCEPT !.remotes = Append(@, label),
                                    !.entries = Append(@, label),
                                    !.selected = Len(form.entries) + 1])

\* Mutation of Without: the entry goes by the endpoint's position in its list.
WithoutPosition(cfg, i) ==
    LET entries == RemoveAt(cfg.entries, i)
    IN  [cfg EXCEPT !.remotes = RemoveAt(@, i), !.entries = entries,
                    !.selected = IF @ > Len(entries) THEN Len(entries) ELSE @]

\* The entries without those of a label, in their order (retain).
Retained(entries, label) ==
    LET kept[n \in 0..Len(entries)] ==
            IF n = 0 THEN <<>>
            ELSE IF entries[n] = label THEN kept[n - 1]
            ELSE Append(kept[n - 1], entries[n])
    IN  kept[Len(entries)]

\* One endpoint goes, and with it every entry of its label; the selection
\* keeps its position, if there is one left.
Without(cfg, i) ==
    LET label   == cfg.remotes[i]
        entries == Retained(cfg.entries, label)
    IN  [cfg EXCEPT !.remotes = RemoveAt(@, i), !.entries = entries,
                    !.selected = IF @ > Len(entries) THEN Len(entries) ELSE @]

RemoveEndpoint ==
    /\ Edited
    /\ \E i \in DOMAIN form.remotes : SaveOracle(Without(form, i))

-----------------------------------------------------------------------------
(* The chat.                                                               *)

\* The Ask button and its shortcut: none while an answer is awaited.
SendQuestion ==
    /\ ~awaiting /\ form.enabled /\ HasModel(form)
    /\ InFlight < MaxRequests
    /\ awaiting' = TRUE
    /\ requests' = Append(requests, [kind |-> "ask", shown |-> Chosen(form)])
    /\ UNCHANGED <<settings, busy, replies, edits>>

Ping ==
    /\ InFlight < MaxRequests
    /\ requests' = Append(requests, [kind |-> "ping"])
    /\ UNCHANGED <<settings, busy, replies, awaiting, edits>>

\* The worker receives: new settings are taken over at once.
OracleTakes ==
    /\ busy = Idle /\ requests # <<>>
    /\ LET r == Head(requests)
       IN  IF r.kind = "config"
           THEN held' = r.cfg /\ UNCHANGED busy
           ELSE busy' = r /\ UNCHANGED held
    /\ requests' = Tail(requests)
    /\ UNCHANGED <<form, file, short, replies, awaiting, edits>>

\* What the worker sends back: a question may always fail, at the model or on
\* the way to it.
Answers(r) ==
    IF r.kind = "ping" THEN {<<"status">>}
    ELSE {<<"error">>} \cup (IF held.enabled /\ Resolves(held) THEN {<<"advice">>} ELSE {})

OracleAnswers ==
    /\ busy # Idle
    /\ \E sent \in Answers(busy) : replies' = replies \o sent
    /\ busy' = Idle
    /\ UNCHANGED <<settings, requests, awaiting, edits>>

\* Mutation of PumpOracle: an error is shown but does not end the wait.
PumpKeepsWaiting ==
    /\ replies # <<>>
    /\ replies' = <<>>
    /\ awaiting' = (awaiting /\ "advice" \notin ToSet(replies))
    /\ UNCHANGED <<settings, requests, busy, edits>>

\* pump_oracle at the head of each frame drains the channel: advice and
\* errors end the wait, a status does not.
PumpOracle ==
    /\ replies # <<>>
    /\ replies' = <<>>
    /\ awaiting' = (awaiting /\ ToSet(replies) \subseteq {"status"})
    /\ UNCHANGED <<settings, requests, busy, edits>>

-----------------------------------------------------------------------------
\* GadarahApp::new: settings from the file, a worker with the same, and one
\* ping.
Started(cfg) ==
    /\ form' = cfg /\ held' = cfg
    /\ requests' = <<[kind |-> "ping"]>>
    /\ busy' = Idle /\ replies' = <<>> /\ awaiting' = FALSE

\* The GUI ends, and its worker with it, and starts again.
RelaunchOracle ==
    /\ Started(file)
    /\ short' = IF "file" \in short THEN {"form", "file"} ELSE {}
    /\ UNCHANGED <<file, edits>>

OracleInit ==
    /\ form = Default /\ file = Default /\ held = Default /\ short = {}
    /\ requests = <<[kind |-> "ping"]>>
    /\ busy = Idle /\ replies = <<>> /\ awaiting = FALSE
    /\ edits = 0

Tab ==
    \/ Save \/ EditBehavior \/ EditRuntime \/ RegisterEndpoint \/ RemoveEndpoint
    \/ SendQuestion \/ Ping

OracleNext == Tab \/ OracleTakes \/ OracleAnswers \/ PumpOracle \/ RelaunchOracle

\* The worker loops on its channel and its HTTP calls have timeouts of 3 to
\* 90 s; the window draws a frame at least every 500 ms.
OracleFairness == WF_oracle(OracleTakes) /\ WF_oracle(OracleAnswers) /\ WF_oracle(PumpOracle)

OracleSpec == OracleInit /\ [][OracleNext]_oracle /\ OracleFairness

-----------------------------------------------------------------------------
(* Properties.                                                             *)

\* Each variable stays in its domain.
OracleTypeOK ==
    /\ \A cfg \in {form, file, held} :
        /\ cfg.enabled \in BOOLEAN
        /\ cfg.entries \in Seq(Local \cup Labels) /\ cfg.remotes \in Seq(Labels)
        /\ cfg.selected \in Nat
    /\ busy.kind \in {"idle", "ask", "ping"}
    /\ replies \in Seq({"advice", "error", "status"})
    /\ short \subseteq {"form", "file"}
    /\ awaiting \in BOOLEAN /\ edits \in 0..MaxEdits

\* In the tab, in the worker and in the file the selected model exists and has
\* its endpoint, whatever was registered, removed, saved or lost at a save: no
\* question fails for want of a model.  Only a write that was cut where the
\* file still parses, and what is loaded from that file and saved again, may
\* be without.
ModelResolves ==
    /\ "form" \notin short => Resolves(form) /\ Resolves(held)
    /\ "file" \notin short => Resolves(file)

\* A question is answered, by advice or an error, or the GUI ends.
AskedIsAnswered == awaiting ~> ~awaiting

(* What a text of the tab says, and the program does not keep.             *)

\* ui/oracle.rs:575: a question the tab accepts finds the Oracle enabled.
AcceptedIsEnabled == busy.kind = "ask" => held.enabled

\* config.rs:34: a remote entry finds its endpoint by its label, and the index
\* its entry, after any save.
SelectionResolves == \A cfg \in {form, file, held} : Resolves(cfg)

\* The model that answers is the one the tab showed with the question.
ShownAnswers == busy.kind = "ask" => Chosen(held) = busy.shown

\* Removing an endpoint leaves the selection where it is, unless it was that
\* endpoint.
RemovalKeepsChoice ==
    [][\A i \in DOMAIN form.remotes :
        HasModel(form) /\ form' = Without(form, i) /\ Chosen(form) # form.remotes[i] =>
            Chosen(form') = Chosen(form)]_oracle
=============================================================================
