--------------------------- MODULE ContractDrift ---------------------------
(***************************************************************************)
(* The breaking-change gate of scripts/check-contract-drift.mjs over a     *)
(* succession of releases of one operation of an OpenAPI document: every   *)
(* release has passed the gate against the one before it, and clients      *)
(* generated from any earlier release are still in use.                    *)
(*                                                                         *)
(* Documents are dereferenced, so a schema is a tree; here an object of    *)
(* scalar fields, the recursion of compareSchema taken twice.  A keyword   *)
(* that is absent is Absent, or {} where its value is a set.                 *)
(***************************************************************************)
EXTENDS Naturals, FiniteSets

CONSTANTS Families,     \* [name -> the documents the contract of one history may hold]
          Authorities,  \* [sha -> what the runtime contract of that commit declares]
          RuntimePin,   \* source_sha of contracts/middleware-runtime-current.source.json
          Absent,       \* an absent keyword or part
          MaxReleases   \* bound on releases

VARIABLES family,   \* the name of this history's documents
          contract, \* the released document
          clients,  \* documents clients were generated from, and what has been let through since
          pin,      \* source_sha in the vendored authority's source.json
          snapshot, \* source_sha embedded in the vendored authority's document
          compared, \* whether the last release was compared with a document before it
          releases  \* releases so far, for the bound

driftVars == <<family, contract, clients, pin, snapshot, compared, releases>>

Shas == DOMAIN Authorities

(* The schemas of the strings a document bounds. *)
ScalarsOf(document) ==
  {document.parameters[p].schema : p \in DOMAIN document.parameters} \cup
    IF document.body = Absent THEN {}
    ELSE {document.body.schema.fields[f] : f \in DOMAIN document.body.schema.fields}

(* A bound on a length is a natural number. *)
ASSUME LengthsAssumption ==
  \A name \in DOMAIN Families : \A document \in Families[name] : \A s \in ScalarsOf(document) :
    {s.min, s.max} \subseteq Nat \cup {Absent}

-----------------------------------------------------------------------------
(* What the gate compares.  Each operator is true when nothing is reported. *)

NullabilityCorrected(before, after) ==
  /\ after.correctedBy = RuntimePin
  /\ "null" \notin before.types /\ after.types = before.types \cup {"null"}

TypesKept(before, after) ==
  \/ before.types = {} \/ after.types = {} \/ before.types = after.types
  \/ NullabilityCorrected(before, after)

(* Only bounds that both sides have. *)
BoundsKeptWhereBoth(before, after) ==
  /\ before.min # Absent /\ after.min # Absent => after.min <= before.min
  /\ before.max # Absent /\ after.max # Absent => after.max >= before.max
  /\ after.pattern = Absent \/ after.pattern = before.pattern

(* compareTightenedBound: a bound may go or be loosened, not appear. *)
BoundsKept(before, after) ==
  /\ after.min # Absent => before.min # Absent /\ after.min <= before.min
  /\ after.max # Absent => before.max # Absent /\ after.max >= before.max
  /\ after.pattern = Absent \/ after.pattern = before.pattern

EnumKept(before, after) == before.enum = {} \/ after.enum = {} \/ before.enum \subseteq after.enum

(* compareAlternatives: every branch has one of its signature. *)
AlternativesKept(before, after) ==
  before.anyOf = {} \/ after.anyOf = {} \/ before.anyOf \subseteq after.anyOf

(* compareSchema, on a scalar. *)
ScalarKept(before, after) ==
  /\ TypesKept(before, after) /\ BoundsKept(before, after)
  /\ EnumKept(before, after) /\ AlternativesKept(before, after)

(* compareSchema, on an object. *)
ObjectKept(before, after) ==
  /\ after.closed => before.closed
  /\ \A f \in DOMAIN before.fields :
       f \in DOMAIN after.fields /\ ScalarKept(before.fields[f], after.fields[f])
  /\ after.required \subseteq before.required

(* A required header the SDK's transport always sends. *)
TransportInjected(name, parameter) == name = "X-Tenant-ID" /\ parameter.injected

ParametersKept(before, after) ==
  /\ \A p \in DOMAIN before :
       /\ p \in DOMAIN after
       /\ after[p].required => before[p].required
       /\ ScalarKept(before[p].schema, after[p].schema)
  /\ \A p \in DOMAIN after \ DOMAIN before :
       after[p].required => TransportInjected(p, after[p])

BodyKept(before, after) ==
  IF before = Absent THEN after = Absent \/ ~ after.required
  ELSE /\ after # Absent
       /\ after.required => before.required
       /\ ObjectKept(before.schema, after.schema)

ResponsesKept(before, after) ==
  \A code \in DOMAIN before : code \in DOMAIN after /\ ObjectKept(before[code], after[code])

Alternatives(security) == IF security = {} THEN {{}} ELSE security

SecurityKept(before, after) ==
  \A base \in Alternatives(before) : \E alternative \in Alternatives(after) : alternative \subseteq base

(* compareOperationAgainstAuthority: no more and no less than it declares. *)
MatchesAuthority(document, authority) ==
  /\ DOMAIN document.responses = authority.statuses
  /\ (document.body # Absent) = authority.body
  /\ {p \in DOMAIN document.parameters : document.parameters[p].required} = authority.parameters
  /\ document.body # Absent => document.body.schema.required = authority.required
  /\ document.body # Absent => DOMAIN document.body.schema.fields \subseteq authority.fields

(* The citation is not compared with the embedded commit. *)
AuthorityLoadsUnchecked(document) == pin = document.corrects

(* loadRuntimeAuthorityBundle and the pin the annotation cites: anything     *)
(* but agreement of the three throws.                                       *)
AuthorityLoads(document) == snapshot = pin /\ pin = document.corrects

(* diffOperation; a correction toward the authority takes its place.        *)
OperationKept(before, after) ==
  IF after.corrects # Absent
  THEN AuthorityLoads(after) /\ MatchesAuthority(after, Authorities[snapshot])
  ELSE /\ ResponsesKept(before.responses, after.responses)
       /\ ParametersKept(before.parameters, after.parameters)
       /\ BodyKept(before.body, after.body)
       /\ SecurityKept(before.security, after.security)

(* diffOpenApi, on this operation. *)
PassesGate(before, after) ==
  before.present => after.present /\ OperationKept(before, after)

-----------------------------------------------------------------------------
(* What a release narrows without compareSchema looking: a type, an enum or  *)
(* alternatives where there were none, a field where any was allowed.       *)
Introduces(before, after) ==
  \/ before.types = {} /\ after.types # {}
  \/ before.enum = {} /\ after.enum # {}
  \/ before.anyOf = {} /\ after.anyOf # {}

IntroducesUnseen(before, after) ==
  /\ before.present /\ after.present
  /\ \/ before.body # Absent /\ after.body # Absent /\
          \/ \E f \in DOMAIN before.body.schema.fields \cap DOMAIN after.body.schema.fields :
               Introduces(before.body.schema.fields[f], after.body.schema.fields[f])
          \/ ~ before.body.schema.closed
               /\ DOMAIN after.body.schema.fields # DOMAIN before.body.schema.fields
     \/ \E p \in DOMAIN before.parameters \cap DOMAIN after.parameters :
          Introduces(before.parameters[p].schema, after.parameters[p].schema)

DriftInit ==
  /\ family \in DOMAIN Families
  /\ contract \in {d \in Families[family] : d.corrects = Absent}
  /\ clients = {[of |-> contract, unseen |-> FALSE]}
  /\ pin \in Shas /\ snapshot = pin
  /\ compared = FALSE
  /\ releases = 1

(* A release the gate lets through.  A correction counts as the first         *)
(* contract a real caller could satisfy.                                    *)
Release(next) ==
  /\ releases < MaxReleases /\ releases' = releases + 1
  /\ contract' = next
  /\ compared' = contract.present
  /\ clients' = {[of |-> next, unseen |-> FALSE]} \cup
       IF next.corrects # Absent THEN {}
       ELSE {[c EXCEPT !.unseen = @ \/ IntroducesUnseen(contract, next)] : c \in clients}
  /\ UNCHANGED <<family, pin, snapshot>>

(* The pin is edited to another commit of the runtime. *)
Repin(sha) ==
  /\ sha # pin
  /\ pin' = sha
  /\ UNCHANGED <<family, contract, clients, snapshot, compared, releases>>

(* The import script writes the document of the commit the pin names, and    *)
(* refuses a checkout of any other.                                         *)
Import ==
  /\ snapshot' = pin
  /\ UNCHANGED <<family, contract, clients, pin, compared, releases>>

DriftNext ==
  \/ \E next \in {d \in Families[family] : PassesGate(contract, d)} : Release(next)
  \/ \E sha \in Shas : Repin(sha)
  \/ Import

DriftSpec == DriftInit /\ [][DriftNext]_driftVars

-----------------------------------------------------------------------------
(* What a document's words mean to a client and to a server.               *)

Texts == {"", "a", "bb"}
Scalars == Texts \cup {"null", "number"}
SizeOf(v) == CASE v = "" -> 0 [] v = "a" -> 1 [] OTHER -> 2
TypeOf(v) == IF v \in Texts THEN "string" ELSE v

ScalarFits(v, schema) ==
  /\ schema.types = {} \/ TypeOf(v) \in schema.types
  /\ schema.anyOf = {} \/ TypeOf(v) \in schema.anyOf
  /\ schema.enum = {} \/ v \in schema.enum
  /\ v \in Texts =>
       /\ schema.min = Absent \/ SizeOf(v) >= schema.min
       /\ schema.max = Absent \/ SizeOf(v) <= schema.max
       /\ schema.pattern = Absent \/ v = "a"

(* Objects over the fields p and q and one that no document declares. *)
Objects == UNION {[names -> Scalars] : names \in SUBSET {"p", "q", "undeclared"}}

ObjectFits(o, schema) ==
  /\ schema.required \subseteq DOMAIN o
  /\ \A f \in DOMAIN o : IF f \in DOMAIN schema.fields THEN ScalarFits(o[f], schema.fields[f]) ELSE ~ schema.closed

(* A client of one document works against another: whatever it may send is   *)
(* taken, its credentials are enough, and what it reads is declared.        *)
TakesBody(old, new) ==
  /\ (old.body = Absent \/ ~ old.body.required) => (new.body = Absent \/ ~ new.body.required)
  /\ old.body # Absent => new.body # Absent /\
       \A o \in Objects : ObjectFits(o, old.body.schema) => ObjectFits(o, new.body.schema)

TakesParameters(old, new) ==
  /\ \A p \in DOMAIN old.parameters :
       /\ p \in DOMAIN new.parameters
       /\ ~ old.parameters[p].required /\ p # "X-Tenant-ID" => ~ new.parameters[p].required
       /\ \A v \in Scalars : ScalarFits(v, old.parameters[p].schema) => ScalarFits(v, new.parameters[p].schema)
  /\ \A p \in DOMAIN new.parameters \ DOMAIN old.parameters :
       new.parameters[p].required => p = "X-Tenant-ID"

AdmitsCredentials(old, new) ==
  \A held \in Alternatives(old.security) :
    new.security = {} \/ \E demanded \in new.security : demanded \subseteq held

StillDeclares(old, new) ==
  \A code \in DOMAIN old.responses :
    /\ code \in DOMAIN new.responses
    /\ DOMAIN old.responses[code].fields \subseteq DOMAIN new.responses[code].fields

WorksAgainst(old, new) ==
  old.present =>
    new.present /\ TakesBody(old, new) /\ TakesParameters(old, new)
      /\ AdmitsCredentials(old, new) /\ StillDeclares(old, new)

DriftTypeOK ==
  /\ family \in DOMAIN Families /\ contract \in Families[family]
  /\ \A c \in clients : c.of \in Families[family] /\ c.unseen \in BOOLEAN
  /\ [of |-> contract, unseen |-> FALSE] \in clients
  /\ {pin, snapshot} \subseteq Shas
  /\ compared \in BOOLEAN /\ releases \in 1 .. MaxReleases

(* Clients generated from any release still work against the latest one,     *)
(* however many releases lie between: the gate compares neighbours only.    *)
(* Releases that introduced what the gate does not look at are left out.    *)
OldClientsStillWork ==
  \A c \in clients : c.of # contract /\ ~ c.unseen => WorksAgainst(c.of, contract)

(* A released correction that was compared at all is the authority it cites, *)
(* whatever happened to the pin and the snapshot before or since.           *)
CorrectionIsTrue ==
  compared /\ contract.corrects # Absent => MatchesAuthority(contract, Authorities[contract.corrects])

=============================================================================
