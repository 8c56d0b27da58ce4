----------------------------- MODULE DataPacks -----------------------------
(***************************************************************************)
(* The data registry of an engine and the loader that fills it from packs  *)
(* of text: a file is parsed as a whole, what can be registered of it is   *)
(* registered one definition after the other, and then the references of   *)
(* all buildings are checked.  A directory is its files in the order of    *)
(* their names.  A load that fails keeps what it has registered.           *)
(*                                                                         *)
(* A file is given by its lines, a line being a section header, a key with *)
(* its value, or one that is neither; spaces, quotes and comments are left *)
(* out, and a number is what the loader makes of it.                       *)
(***************************************************************************)
EXTENDS Naturals, Sequences, FiniteSets

CONSTANTS
  Files,       (* files the host may load: sequences of lines                *)
  Directories, (* directories, as sequences of files sorted by their names   *)
  Directly,    (* definitions the host adds without a pack                   *)
  LoadLimit    (* bound: calls of the host                                   *)

VARIABLES
  definitions, (* per section, the definitions registered, by id             *)
  report,      (* [ok: BOOLEAN] of the last call, and what it was asked      *)
  loaded,      (* history: files whose load has been tried, ok or not        *)
  loads        (* calls counted against LoadLimit                            *)

packVars == <<definitions, report, loaded, loads>>

Section == {"resource", "currency", "building", "profession", "settlement"}

ASSUME DataPacksAssumption ==
  /\ \A file \in Files : Len(file) \in Nat /\ DOMAIN file = 1 .. Len(file)
  /\ Directories \subseteq Seq(Files)
  /\ \A d \in Directly : d.section \in Section

Places == <<"resource", "currency", "building", "profession", "settlement">>

DataPacksInit ==
  /\ definitions = [s \in Section |-> << >>]
  /\ report = [ok |-> TRUE, asked |-> << >>]
  /\ loaded = {}
  /\ loads = 0

-----------------------------------------------------------------------------
(* DataPackLoader::parse.  A record is a function from keys to values.     *)

Header(line) == line.kind = "section"

(* The lines of the section that line n belongs to, up to n.               *)
HeaderOf(file, n) ==
  LET before == {k \in 1 .. n : Header(file[k])}
  IN  IF before = {} THEN 0 ELSE CHOOSE k \in before : \A j \in before : j <= k

SectionOf(file, n) == IF HeaderOf(file, n) = 0 THEN "" ELSE file[HeaderOf(file, n)].name

IsPair(file, n) == file[n].kind = "pair"

(* Pairs of the section that starts at line h, with that key.              *)
PairsOf(file, h) == {n \in DOMAIN file : IsPair(file, n) /\ HeaderOf(file, n) = h}

Repeated(file, n) == \E k \in PairsOf(file, HeaderOf(file, n)) : k < n /\ file[k].key = file[n].key

(* The schema version the document ends up with: the last one wins.        *)
Schema(file) ==
  LET given == {n \in DOMAIN file : IsPair(file, n) /\ SectionOf(file, n) = "" /\ file[n].key = "schema_version"}
  IN  IF given = {} THEN "" ELSE file[CHOOSE n \in given : \A k \in given : k <= n].value

Parses(file) ==
  /\ Schema(file) = "0.2.2"
  /\ \A n \in DOMAIN file :
       /\ file[n].kind # "neither"
       /\ Header(file[n]) => file[n].name \in Section \cup {""}
       /\ IsPair(file, n) /\ SectionOf(file, n) # "" => ~Repeated(file, n)

RecordAt(file, h) ==
  [key \in {file[n].key : n \in PairsOf(file, h)} |->
     file[CHOOSE n \in PairsOf(file, h) : file[n].key = key].value]

(* append_record: the records of a section in their order, none empty.     *)
Records(file, section) ==
  LET heads == {n \in DOMAIN file : Header(file[n]) /\ file[n].name = section /\ PairsOf(file, n) # {}}
  IN  [k \in 1 .. Cardinality(heads) |->
         RecordAt(file, CHOOSE n \in heads : Cardinality({m \in heads : m <= n}) = k)]

-----------------------------------------------------------------------------
(* register_document.                                                      *)

Field(record, key, otherwise) == IF key \in DOMAIN record THEN record[key] ELSE otherwise

(* A number is missing, malformed, zero, some or too many.  A pack is      *)
(* stricter than a definition added directly, which may leave it zero.     *)
NumberAccepted(section, record) ==
  CASE section = "resource"   -> Field(record, "base_value", "missing") \notin {"missing", "malformed", "zero"}
    [] section = "building"   -> Field(record, "worker_slots", "missing") \notin {"missing", "malformed", "zero"}
    [] section = "currency"   -> Field(record, "fractional_digits", "zero") # "malformed"
    [] section = "settlement" -> Field(record, "starting_population", "zero") # "malformed"
    [] OTHER -> TRUE

(* What a definition must have, whatever else is defined.                  *)
Proper(section, record) ==
  /\ Field(record, "id", "") # ""
  /\ Field(record, "display_name", "") # ""
  /\ section = "currency" => Field(record, "fractional_digits", "zero") # "many"

(* DataRegistry::add of each kind of definition.                           *)
CanAddDefinition(defs, section, record) ==
  Proper(section, record) /\ record["id"] \notin DOMAIN defs[section]

Including(defined, record) ==
  [id \in DOMAIN defined \cup {record["id"]} |-> IF id = record["id"] THEN record ELSE defined[id]]

WithDefinition(defs, section, record) ==
  [defs EXCEPT ![section] = Including(defs[section], record)]

(* A faulty variant: a later definition replaces an earlier one.           *)
RegisteredOver(s, section, record) ==
  IF NumberAccepted(section, record) /\ Proper(section, record)
  THEN [s EXCEPT !.defs = WithDefinition(s.defs, section, record)]
  ELSE [s EXCEPT !.ok = FALSE]

Registered(s, section, record) ==
  IF NumberAccepted(section, record) /\ CanAddDefinition(s.defs, section, record)
  THEN [s EXCEPT !.defs = WithDefinition(s.defs, section, record)]
  ELSE [s EXCEPT !.ok = FALSE]

RegisteredSection(s, file, section) ==
  LET records == Records(file, section)
      after[n \in 0 .. Len(records)] == IF n = 0 THEN s ELSE Registered(after[n - 1], section, records[n])
  IN  after[Len(records)]

RegisteredFile(s, file) ==
  LET after[n \in 0 .. Len(Places)] == IF n = 0 THEN s ELSE RegisteredSection(after[n - 1], file, Places[n])
  IN  after[Len(Places)]

(* The buildings validate_references complains about.                      *)
Unresolved(defs) ==
  {b \in DOMAIN defs["building"] :
     LET record == defs["building"][b]
     IN  \/ Field(record, "required_profession_id", "") \notin {""} \cup DOMAIN defs["profession"]
         \/ ~(Field(record, "input_resource_ids", {}) \subseteq DOMAIN defs["resource"])
         \/ ~(Field(record, "output_resource_ids", {}) \subseteq DOMAIN defs["resource"])}

ReferencesChecked(s) == [s EXCEPT !.ok = s.ok /\ Unresolved(s.defs) = {}]

(* load_string.                                                            *)
FileLoaded(s, file) ==
  IF Parses(file) THEN ReferencesChecked(RegisteredFile(s, file)) ELSE [s EXCEPT !.ok = FALSE]

(* load_directory.                                                         *)
DirectoryLoaded(s, files) ==
  LET after[n \in 0 .. Len(files)] == IF n = 0 THEN s ELSE FileLoaded(after[n - 1], files[n])
  IN  ReferencesChecked(after[Len(files)])

-----------------------------------------------------------------------------
Unreported(defs) == [defs |-> defs, ok |-> TRUE]

Reach(s, files) ==
  /\ loads < LoadLimit
  /\ loads' = loads + 1
  /\ definitions' = s.defs
  /\ report' = [ok |-> s.ok, asked |-> files]
  /\ loaded' = loaded \cup {files[k] : k \in DOMAIN files}

LoadFile(file) == Reach(FileLoaded(Unreported(definitions), file), <<file>>)

LoadDirectory(files) == Reach(DirectoryLoaded(Unreported(definitions), files), files)

(* A file or directory that cannot be opened.                              *)
LoadNothing == Reach([defs |-> definitions, ok |-> FALSE], << >>)

AddDirectly(section, record) ==
  /\ CanAddDefinition(definitions, section, record)
  /\ Reach([defs |-> WithDefinition(definitions, section, record), ok |-> TRUE], << >>)

DataPacksNext ==
  \/ \E file \in Files : LoadFile(file)
  \/ \E files \in Directories : LoadDirectory(files)
  \/ LoadNothing
  \/ \E d \in Directly : AddDirectly(d.section, d.record)

DataPacksSpec == DataPacksInit /\ [][DataPacksNext]_packVars

-----------------------------------------------------------------------------
Backwards(files) == [k \in DOMAIN files |-> files[Len(files) + 1 - k]]

Settled ==
  /\ \A s \in Section : \A id \in DOMAIN definitions[s] :
       id \in DOMAIN definitions'[s] /\ definitions'[s][id] = definitions[s][id]
  /\ LET files == report'.asked
     IN  files # << >> =>
           /\ {files[k] : k \in DOMAIN files} \subseteq loaded => definitions' = definitions
           /\ report'.ok =>
                /\ Unresolved(definitions') = {}
                /\ \A k \in DOMAIN files, s \in Section : \A n \in DOMAIN Records(files[k], s) :
                     LET record == Records(files[k], s)[n]
                     IN  record["id"] \in DOMAIN definitions'[s] /\ definitions'[s][record["id"]] = record
                /\ DirectoryLoaded(Unreported(definitions), Backwards(files)).defs = definitions'

(* Loads, failed loads and retries may follow each other on one registry:  *)
(* what is defined stays as it is; files that were tried before, whether   *)
(* they failed or not, change nothing the second time; and a load that     *)
(* reports success has registered every record of its files, leaves no     *)
(* building with a dangling reference, and would have left the same        *)
(* definitions had its files been named in the reverse order.              *)
LoadsAreSettled == [][Settled]_packVars
=============================================================================
