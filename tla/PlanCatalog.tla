---------------------------- MODULE PlanCatalog ----------------------------
(***************************************************************************)
(* The catalogue of src/plan: plans, their entitlement rows and what they  *)
(* answer.  A transaction reads in a snapshot and writes the current rows: *)
(* two steps of its own, between which other editors commit.  The unique   *)
(* indexes on the code of a plan and on (plan_id, code) of an entitlement  *)
(* look at the current rows.                                               *)
(***************************************************************************)
EXTENDS Integers, FiniteSets, SequencesExt, Paging

CONSTANTS
    Editors,
    Trimmed,        \* Trimmed[c]: strings.TrimSpace of a code as it was typed
    PlanInputs,     \* what editors ask for, valid or not
    SeedSets,       \* the built-in catalogues SeedPlans is called with
    MaxPlans        \* bound: plans

\* The built-in plans have codes of their own.
ASSUME PlanInputsAssumption ==
    \A in \in PlanInputs \cup UNION SeedSets :
        in.default \in BOOLEAN /\ \A i \in DOMAIN in.ents : in.ents[i].limit \in Int
ASSUME SeedsAssumption ==
    \A defs \in SeedSets :
        IsFiniteSet(defs) /\ \A d, e \in defs : d.code = e.code => d = e
ASSUME MaxPlansAssumption == MaxPlans \in Nat

VARIABLES
    catalog,        \* the table plans, in the order of their ids
    entitlement,    \* the table plan_entitlements
    editing,        \* editing[e]: the transaction an editor has begun
    wrote           \* of each plan, the operation and the input written last

catalogVars == <<catalog, entitlement, editing, wrote>>

NoEdit == [op |-> "none"]

\* PlanModel, PlanEntitlement.
CatalogTypeOK ==
    /\ \A p \in DOMAIN catalog :
          /\ DOMAIN catalog[p] = {"code", "price", "default", "status"}
          /\ catalog[p].status \in {0, 1}
    /\ Len(catalog) <= MaxPlans /\ Len(wrote) = Len(catalog)
    /\ \A r \in entitlement :
          r.plan \in 0..Len(catalog) /\ r.limit \in Int /\ (r.type = "count" => r.limit >= 0)
    /\ \A e \in Editors : editing[e].op \in {"none", "create", "update", "seed"}

CatalogInit ==
    /\ catalog = <<>> /\ entitlement = {} /\ wrote = <<>>
    /\ editing = [e \in Editors |-> NoEdit]

\* validatePlanInput: two entitlements may not differ by blanks alone.
ValidPlan(in) ==
    /\ Trimmed[in.code] # "" /\ in.price >= 0
    /\ \A i \in DOMAIN in.ents :
          /\ Trimmed[in.ents[i].code] # ""
          /\ in.ents[i].type = "count" => in.ents[i].limit >= 0
          /\ \A j \in 1..(i - 1) : Trimmed[in.ents[i].code] # Trimmed[in.ents[j].code]

NormalizeStatus(s) == IF s = 0 THEN 0 ELSE 1

\* planModelsFromInput: the entitlement rows; a counted one is always enabled.
EntitlementRows(in, plan) ==
    { [plan |-> plan, code |-> Trimmed[in.ents[i].code], type |-> in.ents[i].type,
       limit |-> in.ents[i].limit, enabled |-> in.ents[i].type = "count" \/ in.ents[i].enabled]
      : i \in DOMAIN in.ents }

\* The row of a new plan: gorm leaves a zero status to the column's default.
NewPlan(in) ==
    [code |-> Trimmed[in.code], price |-> in.price, default |-> in.default, status |-> 1]

\* uniq_plan_code and uniq_plan_entitlement.
CodesUnique(plans) == \A p, q \in DOMAIN plans : plans[p].code = plans[q].code => p = q
RowsUnique(rows) ==
    \A r, s \in rows : r.plan = s.plan /\ r.code = s.code => r = s

\* Mutant: a new default does not replace the former one.
KeepOtherDefaults(plans, isDefault, exclude) == plans

ClearOtherDefaults(plans, isDefault, exclude) ==
    IF isDefault
    THEN [p \in DOMAIN plans |->
            IF p = exclude THEN plans[p] ELSE [plans[p] EXCEPT !.default = FALSE]]
    ELSE plans

-----------------------------------------------------------------------------
BeginEdit(e, edit) == editing[e] = NoEdit /\ editing' = [editing EXCEPT ![e] = edit]
EndEdit(e) == editing' = [editing EXCEPT ![e] = NoEdit]

\* The entitlements of a new plan are built before the plan has an id.
AfterCreate(in) ==
    [plans |-> Append(ClearOtherDefaults(catalog, in.default, 0), NewPlan(in)),
     rows  |-> entitlement \cup EntitlementRows(in, 0),
     fresh |-> EntitlementRows(in, 0) \cap entitlement = {}]

CreatePlanCheck(e, in) ==
    /\ ValidPlan(in)
    /\ \A p \in DOMAIN catalog : catalog[p].code # in.code
    /\ Len(catalog) < MaxPlans
    /\ BeginEdit(e, [op |-> "create", in |-> in])
    /\ UNCHANGED <<catalog, entitlement, wrote>>

CreatePlanCommit(e) ==
    /\ editing[e].op = "create" /\ Len(catalog) < MaxPlans
    /\ LET in == editing[e].in
           new == AfterCreate(in)
       IN  IF CodesUnique(new.plans) /\ RowsUnique(new.rows) /\ new.fresh
           THEN /\ catalog' = new.plans /\ entitlement' = new.rows
                /\ wrote' = Append(wrote, [by |-> "create", in |-> in])
           ELSE UNCHANGED <<catalog, entitlement, wrote>>
    /\ EndEdit(e)

UpdatePlanCheck(e, id, in) ==
    /\ ValidPlan(in) /\ id \in DOMAIN catalog
    /\ \A p \in DOMAIN catalog \ {id} : catalog[p].code # in.code
    /\ BeginEdit(e, [op |-> "update", in |-> in, id |-> id])
    /\ UNCHANGED <<catalog, entitlement, wrote>>

\* Mutant: the former entitlement rows stay.
RowsAdded(in, id) ==
    {r \in entitlement : r.plan # id \/ r.code \notin {s.code : s \in EntitlementRows(in, id)}}
        \cup EntitlementRows(in, id)

RowsReplaced(in, id) == {r \in entitlement : r.plan # id} \cup EntitlementRows(in, id)

\* The code is stored as it was typed; the other columns as SeedPlans writes them.
Updated(plans, id, in) ==
    [plans EXCEPT ![id] = [@ EXCEPT !.price = in.price, !.default = in.default,
                                    !.status = NormalizeStatus(in.status)]]

UpdatePlanCommit(e) ==
    /\ editing[e].op = "update"
    /\ LET in == editing[e].in
           id == editing[e].id
           plans == [Updated(ClearOtherDefaults(catalog, in.default, id), id, in)
                        EXCEPT ![id].code = in.code]
       IN  IF CodesUnique(plans)
           THEN /\ catalog' = plans
                /\ entitlement' = RowsReplaced(in, id)
                /\ wrote' = [wrote EXCEPT ![id] = [by |-> "update", in |-> in]]
           ELSE UNCHANGED <<catalog, entitlement, wrote>>
    /\ EndEdit(e)

\* SeedPlans looks plans up by code in its snapshot, and leaves other defaults alone.
SeedCheck(e, defs) ==
    /\ \A d \in defs : ValidPlan(d)
    /\ BeginEdit(e, [op |-> "seed", defs |-> defs,
                 found |-> [d \in defs |-> {p \in DOMAIN catalog : catalog[p].code = d.code}]])
    /\ UNCHANGED <<catalog, entitlement, wrote>>

SeedCommit(e) ==
    /\ editing[e].op = "seed"
    /\ LET found == editing[e].found
           old == {d \in editing[e].defs : found[d] # {}}
           new == SetToSeq(editing[e].defs \ old)
           IdOf(d) == CHOOSE p \in found[d] : TRUE
           size == Len(catalog)
           plans == [p \in DOMAIN catalog |->
                        IF \E d \in old : IdOf(d) = p
                        THEN Updated(catalog, p, CHOOSE d \in old : IdOf(d) = p)[p]
                        ELSE catalog[p]] \o [i \in DOMAIN new |-> NewPlan(new[i])]
           Seeded(d) == [by |-> "seed", in |-> d]
       IN  /\ size + Len(new) <= MaxPlans
           /\ IF CodesUnique(plans)
              THEN /\ catalog' = plans
                   /\ entitlement' =
                        {r \in entitlement : \A d \in old : r.plan # IdOf(d)}
                        \cup (UNION {EntitlementRows(d, IdOf(d)) : d \in old})
                        \cup (UNION {EntitlementRows(new[i], size + i) : i \in DOMAIN new})
                   /\ wrote' = [p \in DOMAIN catalog |->
                                  IF \E d \in old : IdOf(d) = p
                                  THEN Seeded(CHOOSE d \in old : IdOf(d) = p)
                                  ELSE wrote[p]] \o [i \in DOMAIN new |-> Seeded(new[i])]
              ELSE UNCHANGED <<catalog, entitlement, wrote>>
    /\ EndEdit(e)

\* A statement fails or loses a deadlock: the transaction is rolled back.
EditAbort(e) == editing[e] # NoEdit /\ EndEdit(e) /\ UNCHANGED <<catalog, entitlement, wrote>>

CatalogNext ==
    \E e \in Editors :
        \/ \E in \in PlanInputs : CreatePlanCheck(e, in)
        \/ \E id \in DOMAIN catalog, in \in PlanInputs : UpdatePlanCheck(e, id, in)
        \/ \E defs \in SeedSets : SeedCheck(e, defs)
        \/ CreatePlanCommit(e) \/ UpdatePlanCommit(e) \/ SeedCommit(e) \/ EditAbort(e)

-----------------------------------------------------------------------------
\* What the catalogue answers.
EntitlementsOf(id) == {r \in entitlement : r.plan = id}

PlanView(id) == [id |-> id, row |-> catalog[id], entitlements |-> EntitlementsOf(id)]

PlanViews(includeDisabled) ==
    LET ids == OldestFirst({p \in DOMAIN catalog : includeDisabled \/ catalog[p].status = 1})
    IN  [i \in DOMAIN ids |-> PlanView(ids[i])]

RowOf(id, code) == CHOOSE r \in EntitlementsOf(id) : r.code = code
HasRow(id, code) == \E r \in EntitlementsOf(id) : r.code = code

\* For a tenant subscribed to the plan, expired or not.
EnsureEnabled(id, code) ==
    IF ~HasRow(id, code) \/ (HasRow(id, code) /\ RowOf(id, code).type # "boolean")
    THEN "ErrEntitlementMiss"
    ELSE IF RowOf(id, code).enabled THEN "ok" ELSE "NotEnabledError"

EnforceCount(id, code, used) ==
    IF ~HasRow(id, code) \/ (HasRow(id, code) /\ RowOf(id, code).type # "count")
    THEN "ErrEntitlementMiss"
    ELSE IF used < RowOf(id, code).limit THEN "ok" ELSE "QuotaExceededError"

-----------------------------------------------------------------------------
\* Two plans are the default only where SeedPlans has put one beside another
\* (engine.go:76, 116: 设置默认档位时清除其他默认).
OneDefaultPlan ==
    \A p, q \in DOMAIN catalog :
        p # q /\ catalog[p].default /\ catalog[q].default =>
            "seed" \in {wrote[p].by, wrote[q].by}

\* A plan that was updated or seeded has exactly the entitlements of that
\* input, whoever else edited it in between; one that was only created has
\* none, and no entitlement of its input is ever granted (engine.go:84).
PlansKeepTheirInput ==
    \A p \in DOMAIN catalog :
        LET in == wrote[p].in
        IN  /\ catalog[p].price = in.price
            /\ wrote[p].by = "create" =>
                  /\ EntitlementsOf(p) = {} /\ catalog[p].status = 1
                  /\ \A i \in DOMAIN in.ents :
                        /\ EnsureEnabled(p, Trimmed[in.ents[i].code]) = "ErrEntitlementMiss"
                        /\ EnforceCount(p, Trimmed[in.ents[i].code], 0) = "ErrEntitlementMiss"
            /\ wrote[p].by # "create" => EntitlementsOf(p) = EntitlementRows(in, p)
            /\ wrote[p].by = "update" => catalog[p].status = NormalizeStatus(in.status)

\* Rows of plan 0 are left by creations alone, one of each code, so that a
\* second creation with one of these codes fails (model.go:41).
StrayRowsAreUnique ==
    \A r, s \in EntitlementsOf(0) : r.code = s.code => r = s

\* The lists show every plan once, a disabled one on request.
PlansAreListed ==
    /\ {v.id : v \in Range(PlanViews(TRUE))} = DOMAIN catalog
    /\ \A v \in Range(PlanViews(FALSE)) : v.row.status = 1
    /\ Len(PlanViews(TRUE)) = Cardinality(Range(PlanViews(TRUE)))

PlansHold == OneDefaultPlan /\ PlansKeepTheirInput /\ StrayRowsAreUnique /\ PlansAreListed
=============================================================================
