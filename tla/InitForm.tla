------------------------------ MODULE InitForm ------------------------------
(***************************************************************************)
(* The form of dutabo init (src/sermcp/src/bin/tui_init.rs) and what a     *)
(* save makes of it (src/sermcp/src/init.rs).                              *)
(*                                                                         *)
(* The form shows a tab per host and, under it, a tab per DUT.  What it    *)
(* holds is one map from <<field, host, dut>>, by position, to text: tabs  *)
(* that are added and removed renumber its keys.  An update of an existing *)
(* file fills the form from it once, and a save edits the text the form    *)
(* was opened with, entry by entry: an answer keeps the entry of its key   *)
(* (the ip of a host, the name of a DUT), or takes one that no answer      *)
(* names.                                                                  *)
(*                                                                         *)
(* Text is a number, 0 the empty text; the free name dutN is N.  One       *)
(* optional field stands for its kind: "hostname" for the texts of a host, *)
(* "relay" for the section that the hidden "gate" opens (its port),        *)
(* "opt" for the settings a DUT may have of its own.  "extra" is what an   *)
(* entry of the file says that the form does not show.                     *)
(***************************************************************************)
EXTENDS Integers, Sequences, SequencesExt

CONSTANTS
    Texts,      \* bound: what is typed
    MaxHosts,   \* bound: host tabs, host_count_max in the code
    MaxDuts,    \* bound: DUT tabs of a host
    MaxTabs,    \* bound: tabs added and removed
    MaxTyped,   \* bound: fields typed
    MaxSaves,   \* bound: saves
    MaxSteps    \* bound: all of them together

ASSUME FormAssumption ==
    /\ Texts \subseteq Nat
    /\ {MaxHosts, MaxDuts, MaxTabs, MaxTyped, MaxSaves, MaxSteps} \subseteq Nat
    /\ MaxHosts >= 2 /\ MaxDuts >= 3  \* the form shows the files explored, see Shapes

VARIABLES
    original,   \* the hosts of the file when the form was opened
    created,    \* there was no file
    tabs,       \* the host tabs, with the identities (history) of their DUTs
    values,     \* the buffers
    written,    \* the hosts of the file
    saves,      \* saves that were not refused, for MaxSaves
    edits       \* counters for MaxTabs and MaxTyped

formVars == <<original, created, tabs, values, written, saves, edits>>

Absent == -1
Nth(S, n) == CHOOSE x \in S : Cardinality({y \in S : y < x}) = n - 1
HostFields == {"ip", "hostname"}
DutFields == {"name", "port", "gate", "relay", "opt"}

-----------------------------------------------------------------------------
(* The files explored.                                                     *)

Shapes == {<<>>, <<1>>, <<2>>, <<3>>, <<1, 1>>, <<2, 1>>, <<1, 0>>}

Odd(n) == IF n % 2 = 1 THEN n ELSE Absent

Entry(n) == [name |-> n, port |-> n, relay |-> Odd(n), opt |-> Odd(n), extra |-> n]

FileOf(shape) ==
    LET before(h) == IF h = 1 THEN 0 ELSE shape[1]
    IN  [h \in DOMAIN shape |->
            [ip |-> h, hostname |-> IF h = 1 THEN 1 ELSE 0,
             duts |-> [d \in 1 .. shape[h] |-> Entry(before(h) + d)]]]

DutsOf(hosts) == UNION {Range(hosts[h].duts) : h \in DOMAIN hosts}
OriginalNames == {dut.name : dut \in DutsOf(original)}

-----------------------------------------------------------------------------
(* The buffers.                                                            *)

Keys(shown) ==
    (HostFields \X (DOMAIN shown) \X {0})
        \cup {key \in DutFields \X (DOMAIN shown) \X (1 .. MaxDuts) :
                key[3] \in DOMAIN shown[key[2]].duts}

InOriginal(h, d) == h \in DOMAIN original /\ d \in {0} \cup DOMAIN original[h].duts

\* What the entry of this position said, Absent when it said nothing.
Said(key) ==
    LET field == key[1]
        dut == original[key[2]].duts[key[3]]
    IN  IF ~InOriginal(key[2], key[3]) THEN Absent
        ELSE IF key[3] = 0 THEN original[key[2]][field]
        ELSE IF field # "gate" THEN dut[field]
        ELSE IF dut.relay = Absent THEN 0 ELSE 1

\* The text of a new buffer: none, or what the file says.
Prefill(key) == IF key[1] # "gate" /\ Said(key) = 0 THEN Absent ELSE Said(key)

\* Buffers of keys that are not shown go; a shown key without one is filled.
Rebuild(vals, shown) ==
    LET filled(key) ==
            IF key \in DOMAIN vals THEN vals[key]
            ELSE IF Prefill(key) = Absent /\ key[1] = "gate" THEN 0
            ELSE Prefill(key)
    IN  [key \in {k \in Keys(shown) : filled(k) # Absent} |-> filled(key)]

\* The buffers that move take the place of those of the removed tab; what
\* the removed tab had and the next one has not, stays.
Renumber(vals, moves, down) ==
    LET moved == moves \cap DOMAIN vals
        landed == {down[key] : key \in moved}
    IN  [key \in (DOMAIN vals \ moved) \cup landed |->
            IF key \in landed THEN vals[CHOOSE k \in moved : down[k] = key]
                              ELSE vals[key]]

HostsAbove(h) == {key \in Keys(tabs) : key[2] > h /\ key[1] # "hostname"}
HostDown == [key \in Keys(tabs) |-> <<key[1], key[2] - 1, key[3]>>]
RenumberHosts(h) == Renumber(values, HostsAbove(h), HostDown)

\* Mutant: the gate is not listed among the fields that move.
DutsAboveNoGate(h, d) == {key \in Keys(tabs) : key[2] = h /\ key[3] > d /\ key[1] # "gate"}

DutsAbove(h, d) == {key \in Keys(tabs) : key[2] = h /\ key[3] > d}
DutDown == [key \in Keys(tabs) |-> <<key[1], key[2], key[3] - 1>>]
RenumberDuts(h, d) == Renumber(values, DutsAbove(h, d), DutDown)

-----------------------------------------------------------------------------
(* The tabs.                                                               *)

HostIds(shown) == {shown[h].id : h \in DOMAIN shown}
DutIds(shown) == UNION {Range(shown[h].duts) : h \in DOMAIN shown}

\* An identity that no tab has, nor an entry of the file.
NewId(used, file) ==
    Nth((file + 1 .. file + Cardinality(used) + 1) \ used, 1)
NewHost == [id |-> NewId(HostIds(tabs), Len(original)),
            duts |-> <<NewId(DutIds(tabs), Cardinality(OriginalNames))>>]
NewDut == NewId(DutIds(tabs), Cardinality(OriginalNames))

FormInit ==
    \E shape \in Shapes, create \in BOOLEAN :
        /\ create => shape = <<>>
        /\ created = create
        /\ original = FileOf(shape)
        /\ tabs = IF create THEN <<[id |-> 1, duts |-> <<1>>]>>
                  ELSE [h \in DOMAIN original |->
                          [id |-> h, duts |-> [d \in DOMAIN original[h].duts |->
                                                original[h].duts[d].name]]]
        /\ values = Rebuild([key \in {} |-> 0], tabs)
        /\ written = original
        /\ saves = 0
        /\ edits = [tabs |-> 0, typed |-> 0]

\* The bound on all steps.
GoesOn == edits.tabs + edits.typed + saves < MaxSteps

Retab(shown, vals) ==
    /\ GoesOn /\ edits.tabs < MaxTabs
    /\ edits' = [edits EXCEPT !.tabs = @ + 1]
    /\ tabs' = shown
    /\ values' = Rebuild(vals, shown)
    /\ UNCHANGED <<original, created, written, saves>>

AddHost ==
    /\ Len(tabs) < MaxHosts
    /\ Retab(Append(tabs, NewHost), values)

RemoveHost(h) == Retab(RemoveAt(tabs, h), RenumberHosts(h))

AddDut(h) ==
    /\ Len(tabs[h].duts) < MaxDuts
    /\ Retab([tabs EXCEPT ![h].duts = Append(@, NewDut)], values)

RemoveDut(h, d) ==
    Retab([tabs EXCEPT ![h].duts = RemoveAt(@, d)], RenumberDuts(h, d))

\* The gate has no row of its own.
SetValue(key, text) ==
    /\ GoesOn /\ edits.typed < MaxTyped
    /\ key[1] # "gate"
    /\ edits' = [edits EXCEPT !.typed = @ + 1]
    /\ values' = [k \in DOMAIN values \cup {key} |-> IF k = key THEN text ELSE values[k]]
    /\ UNCHANGED <<original, created, tabs, written, saves>>

-----------------------------------------------------------------------------
(* The answers.                                                            *)

Typed(key) == IF key \in DOMAIN values THEN values[key] ELSE 0

\* An empty buffer says what the entry of its position said.
Text(key) == IF Typed(key) # 0 THEN Typed(key)
             ELSE IF Said(key) = Absent THEN 0 ELSE Said(key)

NameKeys == {key \in Keys(tabs) : key[1] = "name"}
TypedNames == {Typed(key) : key \in NameKeys} \ {0}

Collides(key) ==
    /\ Typed(key) # 0
    /\ \/ \E other \in NameKeys \ {key} : Typed(other) = Typed(key)
       \/ Typed(key) # Said(key) /\ Typed(key) \in OriginalNames

\* Names left empty take the free ones, in the order of the tabs.
Unnamed == {key \in NameKeys : Text(key) = 0}
Earlier(key) == {other \in Unnamed : \/ other[2] < key[2]
                                     \/ other[2] = key[2] /\ other[3] < key[3]}
FreeName(n) ==
    LET taken == OriginalNames \cup TypedNames
    IN  Nth((1 .. n + Cardinality(taken)) \ taken, n)
NameOf(key) == IF key \in Unnamed THEN FreeName(Cardinality(Earlier(key)) + 1) ELSE Text(key)

Refused == \/ \E key \in Keys(tabs) : key[1] \in {"ip", "port"} /\ Text(key) = 0
           \/ \E key \in NameKeys : Collides(key)

\* submit_values opens the gate of a DUT with a relay typed.
DutAnswer(h, d) ==
    [name |-> NameOf(<<"name", h, d>>),
     port |-> Text(<<"port", h, d>>),
     gate |-> Typed(<<"gate", h, d>>) = 1 \/ Typed(<<"relay", h, d>>) # 0,
     relay |-> Typed(<<"relay", h, d>>),
     opt |-> IF <<"opt", h, d>> \in DOMAIN values THEN values[<<"opt", h, d>>] ELSE Absent]

Answers == [h \in DOMAIN tabs |->
    [ip |-> Text(<<"ip", h, 0>>),
     hostname |-> Text(<<"hostname", h, 0>>),
     duts |-> [d \in DOMAIN tabs[h].duts |-> DutAnswer(h, d)]]]

-----------------------------------------------------------------------------
(* The update.                                                             *)

\* pair_by_key: for each answer, its entry, or 0.
Pair(entries, answers) ==
    LET same(a) == {e \in DOMAIN entries : entries[e] = answers[a]}
        rank(a) == Cardinality({b \in 1 .. a : answers[b] = answers[a]})
        keyed == {a \in DOMAIN answers : rank(a) <= Cardinality(same(a))}
        byKey(a) == Nth(same(a), rank(a))
        left == DOMAIN entries \ {byKey(a) : a \in keyed}
        turn(a) == Cardinality((1 .. a) \ keyed)
    IN  [a \in DOMAIN answers |->
            IF a \in keyed THEN byKey(a)
            ELSE IF turn(a) <= Cardinality(left) THEN Nth(left, turn(a)) ELSE 0]

\* Mutant: they are removed from the first to the last.
RemovalsForward(unclaimed) == SetToSortSeq(unclaimed, <)

\* The entries that no answer has are removed from the last to the first.
Removals(unclaimed) == Reverse(SetToSortSeq(unclaimed, <))
Splice(entries, e) == IF e \in DOMAIN entries THEN RemoveAt(entries, e) ELSE entries

\* update[e, a] is what answer a makes of entry e, new[a] its entry if it has none.
Merge(entries, answers, pair, update, new) ==
    LET claims(e) == {a \in DOMAIN answers : pair[a] = e}
        updated == [e \in DOMAIN entries |->
                        IF claims(e) = {} THEN entries[e]
                        ELSE update[e, CHOOSE a \in claims(e) : TRUE]]
        appended == [n \in 1 .. Cardinality(claims(0)) |-> new[Nth(claims(0), n)]]
    IN  FoldLeft(Splice, updated \o appended,
                 Removals({e \in DOMAIN entries : claims(e) = {}}))

\* A closed gate leaves the relay of the entry, an absent setting its own.
DutUpdate(entry, a) ==
    [entry EXCEPT !.name = a.name, !.port = a.port,
                  !.relay = IF a.gate THEN a.relay ELSE @,
                  !.opt = IF a.opt = Absent THEN @ ELSE IF a.opt = 0 THEN Absent ELSE a.opt]

DutNew(a) == DutUpdate([name |-> 0, port |-> 0, relay |-> Absent, opt |-> Absent, extra |-> 0], a)

Field(seq, field) == [i \in DOMAIN seq |-> seq[i][field]]

HostUpdate(entry, a) ==
    [ip |-> a.ip, hostname |-> a.hostname,
     duts |-> Merge(entry.duts, a.duts, Pair(Field(entry.duts, "name"), Field(a.duts, "name")),
                    [e \in DOMAIN entry.duts, d \in DOMAIN a.duts |->
                        DutUpdate(entry.duts[e], a.duts[d])],
                    [d \in DOMAIN a.duts |-> DutNew(a.duts[d])])]

HostNew(a) == [a EXCEPT !.duts = [d \in DOMAIN @ |-> DutNew(@[d])]]

\* compute_update_ops on the hosts of the file the form was opened with.
Updated ==
    IF DutsOf(Answers) = {} /\ original # <<>> THEN <<>>
    ELSE Merge(original, Answers, Pair(Field(original, "ip"), Field(Answers, "ip")),
               [e \in DOMAIN original, h \in DOMAIN Answers |-> HostUpdate(original[e], Answers[h])],
               [h \in DOMAIN Answers |-> HostNew(Answers[h])])

Result == IF created THEN [h \in DOMAIN Answers |-> HostNew(Answers[h])] ELSE Updated

\* Config::validate of the text to be written.
Valid(hosts) ==
    /\ hosts # <<>> => DutsOf(hosts) # {}
    /\ \A g, h \in DOMAIN hosts : \A c \in DOMAIN hosts[g].duts, d \in DOMAIN hosts[h].duts :
          hosts[g].duts[c].name = hosts[h].duts[d].name => <<g, c>> = <<h, d>>

\* No difference to the file the form was opened with: nothing is written.
Save ==
    /\ GoesOn /\ saves < MaxSaves
    /\ ~Refused
    /\ \/ ~created /\ Result = original /\ UNCHANGED written
       \/ (created \/ Result # original) /\ Valid(Result) /\ written' = Result
    /\ saves' = saves + 1
    /\ UNCHANGED <<original, created, tabs, values, edits>>

FormNext ==
    \/ AddHost
    \/ \E h \in DOMAIN tabs :
          \/ RemoveHost(h)
          \/ AddDut(h)
          \/ \E d \in DOMAIN tabs[h].duts : RemoveDut(h, d)
    \/ \E key \in Keys(tabs), text \in Texts : SetValue(key, text)
    \/ Save

FormSpec == FormInit /\ [][FormNext]_formVars

-----------------------------------------------------------------------------

\* The variables have their types, and no buffer is left of a tab that is gone.
FormTypeOK ==
    /\ created \in BOOLEAN /\ (created => original = <<>>)
    /\ DOMAIN tabs \subseteq 1 .. MaxHosts
    /\ \A h \in DOMAIN tabs : DOMAIN tabs[h] = {"id", "duts"}
    /\ DOMAIN values \subseteq Keys(tabs) /\ Range(values) \subseteq Nat
    /\ {<<"gate", h, d>> : h \in DOMAIN tabs, d \in 1 .. MaxDuts} \cap Keys(tabs)
          \subseteq DOMAIN values
    /\ saves \in 0 .. MaxSaves
    /\ edits.tabs \in 0 .. MaxTabs /\ edits.typed \in 0 .. MaxTyped

\* Where the tab of an identity is.
HostAt(shown, id) == CHOOSE h \in DOMAIN shown : shown[h].id = id
DutAt(shown, id) == CHOOSE at \in (DOMAIN shown) \X (1 .. MaxDuts) :
    at[2] \in DOMAIN shown[at[1]].duts /\ shown[at[1]].duts[at[2]] = id

\* The texts that a tab holds, by field.
Holds(vals, fields, h, d) ==
    [field \in {f \in fields : <<f, h, d>> \in DOMAIN vals} |-> vals[<<field, h, d>>]]
HostHolds(shown, vals, fields, id) == Holds(vals, fields, HostAt(shown, id), 0)
DutHolds(shown, vals, id) == Holds(vals, DutFields, DutAt(shown, id)[1], DutAt(shown, id)[2])
Keeps(f, g) == Restrict(g, DOMAIN f \cap DOMAIN g) = f

Retabbed == edits.tabs' # edits.tabs

\* Whatever tabs come and go, a tab that stays keeps every text it held: the
\* keys are renumbered as the tabs are (the name of a host excepted, see
\* HostNamesFollow).
ValuesFollowTabs == [][Retabbed =>
    /\ \A id \in HostIds(tabs) \cap HostIds(tabs') :
          Keeps(HostHolds(tabs, values, {"ip"}, id), HostHolds(tabs', values', {"ip"}, id))
    /\ \A id \in DutIds(tabs) \cap DutIds(tabs') :
          Keeps(DutHolds(tabs, values, id), DutHolds(tabs', values', id))]_formVars

\* What a file says of its hosts, and of each of its DUTs by host.
HostRows(hosts) == {<<hosts[h].ip, hosts[h].hostname>> : h \in DOMAIN hosts}
DutRows(hosts) == UNION {{<<hosts[h].ip, hosts[h].hostname, dut.name, dut.port>> :
                            dut \in Range(hosts[h].duts)} : h \in DOMAIN hosts}

\* A file says of every host and DUT what the form shows and has no other; a
\* form without a DUT leaves none.  The relay of a DUT whose gate is closed
\* and a setting never filled in are not the form's to say.
SaysWhatIsShown(hosts) ==
    /\ DutsOf(Answers) = {} => hosts = <<>>
    /\ DutsOf(Answers) # {} =>
          Len(hosts) = Len(tabs) /\ HostRows(hosts) = HostRows(Answers)
    /\ DutRows(hosts) = DutRows(Answers)
    /\ \A a \in DutsOf(Answers), entry \in DutsOf(hosts) : entry.name = a.name =>
          /\ a.gate => entry.relay = a.relay
          /\ a.opt # Absent => entry.opt = (IF a.opt = 0 THEN Absent ELSE a.opt)

DistinctHosts == IsInjective(Field(Answers, "ip"))

\* What the form does not show stays with the DUT of its host and name.
ExtrasStay(hosts) ==
    \A g \in DOMAIN original, h \in DOMAIN hosts : original[g].ip = hosts[h].ip =>
        \A old \in Range(original[g].duts), dut \in Range(hosts[h].duts) :
            old.name = dut.name => old.extra = dut.extra

\* A save leaves the file that the form shows, whatever tabs were added,
\* removed and renamed on the way there: the entries it edits, appends and
\* removes by index are the ones its answers were paired with.  This is of
\* the first save of a form and of those that write, see EverySaveAsShown,
\* and the entries are only kept if no two hosts share an ip, see ExtrasKept.
SavedAsShown ==
    [][saves' # saves /\ (saves = 0 \/ written' # written)
         => /\ SaysWhatIsShown(written')
            /\ DistinctHosts => ExtrasStay(written')]_formVars

-----------------------------------------------------------------------------
(* What the code does not keep; each is refuted by a configuration.        *)

\* rebuild: "drop removed blocks' buffers (they were never written)", line
\* 1131.  A tab that stays gets no text from the tab that is removed.
RemovedBuffersDropped == [][Retabbed =>
    \A id \in DutIds(tabs) \cap DutIds(tabs') :
        DOMAIN DutHolds(tabs', values', id) \subseteq DOMAIN DutHolds(tabs, values, id)]_formVars

\* remove_host: "nothing typed for surviving hosts is lost", line 738.
HostNamesFollow == [][Retabbed =>
    \A id \in HostIds(tabs) \cap HostIds(tabs') :
        Keeps(HostHolds(tabs, values, HostFields, id),
              HostHolds(tabs', values', HostFields, id))]_formVars

\* resolve_dut_name, line 2627: "The field's OWN existing name (the shown
\* prefill) is exempt from the taken-set check".
SurvivorsCanBeSaved ==
    \A key \in NameKeys : LET own == tabs[key[2]].duts[key[3]] IN
        /\ own \in OriginalNames /\ Typed(key) = own
        /\ \A other \in NameKeys \ {key} : Typed(other) # own
        => ~Collides(key)

\* prefill_for: "New DUTs start with editable serial and loader defaults;
\* other fields use dim hints", line 442.
NewTabsAreFresh == [][Retabbed =>
    \A id \in DutIds(tabs') \ DutIds(tabs) :
        DOMAIN DutHolds(tabs', values', id) = {"gate"}]_formVars

\* Every save that is not refused leaves the file that the form shows.
EverySaveAsShown == [][saves' # saves => SaysWhatIsShown(written')]_formVars

\* A relay that the form shows open or closed is so in the file.
RelayAsShown == [][saves' # saves /\ saves = 0 =>
    \A a \in DutsOf(Answers), entry \in DutsOf(written') :
        entry.name = a.name /\ ~a.gate => entry.relay = Absent]_formVars

\* pair_by_key: "by identity key first (host ip / DUT dut_name", init.rs:4989.
ExtrasKept == [][saves' # saves => ExtrasStay(written')]_formVars

\* A server can start on the file: no two DUTs share an endpoint
\* (EngineRegistry::from_config, engine_registry.rs:53, refuses it).
ServerCanStart ==
    \A g, h \in DOMAIN written :
        \A c \in DOMAIN written[g].duts, d \in DOMAIN written[h].duts :
            <<written[g].ip, written[g].duts[c].port>> = <<written[h].ip, written[h].duts[d].port>>
                => <<g, c>> = <<h, d>>
=============================================================================
