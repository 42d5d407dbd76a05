--------------------------- MODULE MCContractDrift ---------------------------
(***************************************************************************)
(* Documents for TLC.  A family varies one part of a document: the words   *)
(* of a scalar, the shape of the body, the headers, access and answers,    *)
(* the corrections towards one of two commits of the runtime.              *)
(***************************************************************************)
EXTENDS ContractDrift

Plain == [types |-> {"string"}, enum |-> {}, min |-> Absent, max |-> Absent, pattern |-> Absent,
          anyOf |-> {}, correctedBy |-> Absent]

Words == {[Plain EXCEPT !.types = t, !.enum = e, !.max = hi, !.anyOf = alt] :
            t \in {{}, {"string"}, {"string", "null"}}, e \in {{}, {"a"}, {"a", "bb"}},
            hi \in {Absent, 1}, alt \in {{}, {"string", "null"}}}
         \cup {[Plain EXCEPT !.pattern = "P"]}
         \cup {[Plain EXCEPT !.types = {"string", "null"}, !.correctedBy = by] : by \in {"s1", "s2"}}

Thing == [fields |-> [f \in {"p"} |-> Plain], required |-> {"p"}, closed |-> TRUE]

Base == [present |-> TRUE, body |-> [required |-> TRUE, schema |-> Thing],
         parameters |-> << >>, responses |-> [code \in {"202"} |-> Thing],
         security |-> {{"oidc"}}, corrects |-> Absent]

Scalar == {[Base EXCEPT !.body.schema.fields = [f \in {"p"} |-> w]] : w \in Words}

Shapes == {[Base EXCEPT !.body = IF b = "none" THEN Absent ELSE [required |-> b = "must",
              schema |-> [fields |-> [f \in fs |-> Plain], required |-> r, closed |-> c]]] :
              b \in {"none", "may", "must"}, fs \in {{"p"}, {"p", "q"}}, r \in SUBSET {"p", "q"}, c \in BOOLEAN}

Parameter(must, marked, lo) == [required |-> must, injected |-> marked, schema |-> [Plain EXCEPT !.min = lo]]
Headers == {[Base EXCEPT !.parameters = ps] :
              ps \in UNION {[names -> {Parameter(m, i, lo) : m \in BOOLEAN, i \in BOOLEAN, lo \in {Absent, 1}}] :
                              names \in {{}, {"X-Tenant-ID"}, {"limit"}}}}

Access == {[Base EXCEPT !.security = s, !.responses = [code \in codes |-> Thing], !.present = there] :
             s \in SUBSET {{"oidc"}, {"oidc", "key"}, {"key"}}, codes \in {{"202"}, {"202", "404"}}, there \in BOOLEAN}

Corrections == {[d EXCEPT !.corrects = sha] : d \in {e \in Shapes : e.body # Absent /\ e.body.required}, sha \in {"s1", "s2"}}
               \cup Shapes \cup {[Base EXCEPT !.present = FALSE]}

MCFamilies ==
  [scalar |-> Scalar, shapes |-> Shapes, headers |-> Headers, access |-> Access, corrections |-> Corrections]

MCAuthorities == [sha \in {"s1", "s2"} |->
   [statuses |-> {"202"}, body |-> TRUE, parameters |-> {}, fields |-> {"p", "q"},
    required |-> IF sha = "s1" THEN {"p"} ELSE {"p", "q"}]]

(* A history that has not begun. *)
DriftStill ==
  /\ family = "access" /\ contract = Base
  /\ clients = {[of |-> Base, unseen |-> FALSE]}
  /\ pin = RuntimePin /\ snapshot = pin
  /\ compared = FALSE /\ releases = 1
=============================================================================
