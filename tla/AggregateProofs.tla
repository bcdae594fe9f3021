-------------------------- MODULE AggregateProofs ---------------------------
(***************************************************************************)
(* Safety of the VM lifecycle with an evacuation beside it, for every set  *)
(* of VMs, hosts and ports.                                                *)
(***************************************************************************)
EXTENDS RuntimeProofs, VMAggregate

USE ZenonT(60)

-----------------------------------------------------------------------------
(* The inductive invariant.                                                *)

\* A VM without a machine row: nothing was ever defined, observed or evacuated
\* for it, and it has been admitted on one host at most.
Unborn(v) ==
  machine[v].life = "NONE" =>
    /\ machine[v].host = NoHost /\ machine[v].plan = 0 /\ defined[v] = 0
    /\ ready[v].boot = "NONE" /\ power[v].state = "NONE"
    /\ \A h \in VMHosts : domain[v][h] = NoDomain /\ child[h][v].phase = "NONE"
    /\ \A h \in VMHosts : claims[v][h] # "RELEASED"
    /\ \A h, g \in VMHosts : claims[v][h] # "NONE" /\ claims[v][g] # "NONE" => h = g

Born(v) ==
  /\ machine[v].life # "NONE" => machine[v].host \in VMHosts /\ machine[v].plan # 0
  /\ machine[v].life = "DEFINED" => defined[v] # 0

\* A VM that was never relocated has its domain, its evacuations and its power
\* read-backs on its first host only, and no other admission while that one is
\* reserved.
AtHome(v) ==
  machine[v].plan = 1 =>
    /\ \A g \in VMHosts : g # machine[v].host =>
         /\ domain[v][g] = NoDomain /\ child[g][v].phase = "NONE"
         /\ claims[v][machine[v].host] = "RESERVED" => claims[v][g] = "NONE"
    /\ claims[v][machine[v].host] # "NONE"
    /\ ready[v].boot # "NONE" => defined[v] # 0
    /\ power[v].state # "NONE" => power[v].host = machine[v].host /\ defined[v] # 0

\* A slot belongs to a child under way; a destination is only authorized after
\* the source admission was released, and is another host.
ChildHeld(h, v) ==
  /\ slot[h][v] # "NONE" => child[h][v].phase \in {"QUIESCING_SOURCE", "SOURCE_QUIESCED"}
  /\ child[h][v].released => claims[v][h] = "RELEASED"
  /\ child[h][v].dest # NoHost => child[h][v].released /\ child[h][v].dest # h

\* The open operation of a resource is of the kind its life says.
OpBound(v) ==
  /\ op[v].state # "VERIFIED" =>
       /\ op[v].kind # "NONE"
       /\ op[v].kind = "CREATE" => resource[v].life = "CREATING" /\ resource[v].power = "RUNNING"
       /\ op[v].kind = "POWER" => resource[v].life = "ACTIVE"
       /\ op[v].kind = "DELETE" => resource[v].life = "RETIRE_PENDING"
  /\ op[v].domain \notin {"NONE", "ABSENT"} => op[v].kind = "DELETE" /\ op[v].state # "VERIFIED"
  /\ op[v].kind = "CREATE" /\ op[v].state = "PENDING" => op[v].plan = 0 /\ op[v].verdict = NoVerdict
  /\ op[v].kind = "CREATE" /\ op[v].state # "VERIFIED" =>
       /\ op[v].state # "PENDING" => op[v].host \in VMHosts
       /\ op[v].plan \in {0, 1}
       /\ op[v].verdict # NoVerdict =>
            op[v].verdict.host = op[v].host /\ op[v].verdict.plan = 1 /\ op[v].plan = 1
            /\ op[v].state # "PENDING"

\* While the admission of the bound first plan is reserved, the VM is still
\* there and its definition was verified.
BoundHome(v) ==
  resource[v].life \in {"ACTIVE", "RETIRE_PENDING"} =>
    /\ binding[v].host \in VMHosts
    /\ binding[v].plan = 1 =>
         /\ claims[v][binding[v].host] # "NONE"
         /\ claims[v][binding[v].host] = "RESERVED" =>
              machine[v].host = binding[v].host /\ machine[v].plan = 1 /\ defined[v] # 0

\* A delete is of the bound first plan, and a domain that was read back absent
\* is not defined again while the admission is reserved.
Deleting(v) ==
  op[v].kind = "DELETE" /\ op[v].state # "VERIFIED" =>
    /\ op[v].host = binding[v].host /\ binding[v].plan = 1
    /\ op[v].domain \in {"MATCHED", "ABSENT"} /\ claims[v][op[v].host] = "RESERVED"
         => domain[v][op[v].host] = NoDomain

\* What keeps a deleted VM gone.
Gone(v) ==
  resource[v].life = "DELETED" =>
    /\ op[v].state = "VERIFIED" /\ defined[v] # 0 /\ machine[v].host \in VMHosts
    /\ claims[v][machine[v].host] # "NONE" /\ attach[v][machine[v].host] # "RESERVED"
    /\ \A h \in VMHosts : /\ domain[v][h] = NoDomain /\ claims[v][h] # "RESERVED"
                          /\ ~child[h][v].released

\* A read-back that passed its check and was not projected yet is of a VM that
\* is there, and of its first host unless it was relocated.
CheckedHere(v) ==
  \A c \in commands : c.vm = v /\ c.stage = "CHECKED" =>
    /\ machine[v].life # "NONE"
    /\ machine[v].plan = 1 => c.host = machine[v].host /\ defined[v] # 0

RuntimeInv(v) == Unborn(v) /\ Born(v) /\ AtHome(v) /\ CheckedHere(v)
ResourceInv(v) == OpBound(v) /\ BoundHome(v) /\ Deleting(v) /\ Gone(v)

-----------------------------------------------------------------------------
(* Steps that leave the invariant of a VM alone.                           *)

\* An evacuation is started where the VM is, and no admission is released.
ChildKept(v) ==
  \A h \in VMHosts :
    /\ child'[h][v].phase # "NONE" => child[h][v].phase # "NONE" \/ machine[v].host = h
    /\ child'[h][v].released => child[h][v].released

ResourceKept(v) ==
  /\ resource'[v].life = resource[v].life /\ resource'[v].power = resource[v].power
  /\ op'[v].kind = op[v].kind /\ op'[v].state = op[v].state /\ op'[v].host = op[v].host
  /\ op'[v].plan = op[v].plan /\ op'[v].verdict = op[v].verdict /\ op'[v].domain = op[v].domain
  /\ binding'[v].host = binding[v].host /\ binding'[v].plan = binding[v].plan

LEMMA NoHostIsNone ==
  NoHost \notin VMHosts
BY RuntimeAssumption DEF NoHost

LEMMA CheckedFrame ==
  ASSUME NEW v \in VMs, RuntimeInv(v), CheckedKept(v),
         machine[v].life # "NONE" => machine'[v].life # "NONE",
         machine'[v].plan = 1 => /\ machine[v].plan = 1 /\ machine'[v].host = machine[v].host
                                 /\ defined[v] # 0 => defined'[v] # 0
  PROVE  CheckedHere(v)'
<1>1. ASSUME NEW c \in commands', c.vm = v, c.stage = "CHECKED"
      PROVE  machine'[v].life # "NONE" /\ (machine'[v].plan = 1 => c.host = machine'[v].host /\ defined'[v] # 0)
  <2>1. c \in commands
    BY <1>1 DEF CheckedKept
  <2>2. machine[v].life # "NONE" /\ (machine[v].plan = 1 => c.host = machine[v].host /\ defined[v] # 0)
    BY <1>1, <2>1 DEF RuntimeInv, CheckedHere
  <2>3. QED
    BY <2>2
<1>2. QED
  BY <1>1 DEF CheckedHere

LEMMA RuntimeFrame ==
  ASSUME NEW v \in VMs, RuntimeInv(v), RuntimeKept(v), ChildKept(v)
  PROVE  RuntimeInv(v)'
<1>1. Unborn(v)'
  <2> SUFFICES ASSUME machine'[v].life = "NONE" PROVE Unborn(v)'
    BY DEF Unborn
  <2>1. /\ machine[v].life = "NONE" /\ claims'[v] = claims[v] /\ domain'[v] = domain[v]
        /\ defined'[v] = defined[v] /\ power'[v] = power[v]
        /\ machine'[v].host = machine[v].host /\ machine'[v].plan = machine[v].plan
        /\ ready'[v].boot # "NONE" => ready[v].boot # "NONE"
    BY DEF RuntimeKept
  <2>2. /\ machine[v].host = NoHost /\ machine[v].plan = 0 /\ defined[v] = 0
        /\ ready[v].boot = "NONE" /\ power[v].state = "NONE"
        /\ \A h \in VMHosts : domain[v][h] = NoDomain /\ child[h][v].phase = "NONE"
        /\ \A h \in VMHosts : claims[v][h] # "RELEASED"
        /\ \A h, g \in VMHosts : claims[v][h] # "NONE" /\ claims[v][g] # "NONE" => h = g
    BY <2>1 DEF RuntimeInv, Unborn
  <2>3. \A h \in VMHosts : child'[h][v].phase = "NONE"
    BY <2>2, NoHostIsNone DEF ChildKept
  <2>4. QED
    BY <2>1, <2>2, <2>3 DEF Unborn
<1>2. Born(v)'
  BY DEF RuntimeInv, Born, RuntimeKept
<1>3. AtHome(v)'
  <2> SUFFICES ASSUME machine'[v].plan = 1 PROVE AtHome(v)'
    BY DEF AtHome
  <2>1. AtHome(v) /\ Born(v) /\ machine[v].plan = 1 /\ machine'[v].host = machine[v].host
    BY DEF RuntimeInv, RuntimeKept
  <2>2. \A g \in VMHosts : g # machine[v].host =>
          /\ domain[v][g] = NoDomain /\ child[g][v].phase = "NONE"
          /\ claims[v][machine[v].host] = "RESERVED" => claims[v][g] = "NONE"
    BY <2>1 DEF AtHome
  <2>3. \A g \in VMHosts : g # machine'[v].host =>
          /\ domain'[v][g] = NoDomain /\ child'[g][v].phase = "NONE"
          /\ claims'[v][machine'[v].host] = "RESERVED" => claims'[v][g] = "NONE"
    BY <2>1, <2>2 DEF RuntimeKept, ChildKept
  <2>4. /\ claims[v][machine[v].host] # "NONE"
        /\ ready[v].boot # "NONE" => defined[v] # 0
        /\ power[v].state # "NONE" => power[v].host = machine[v].host /\ defined[v] # 0
    BY <2>1 DEF AtHome
  <2>5. machine[v].life = "DEFINED" => defined[v] # 0
    BY <2>1 DEF Born
  <2>6. /\ claims'[v][machine'[v].host] # "NONE"
        /\ ready'[v].boot # "NONE" => defined'[v] # 0
        /\ power'[v].state # "NONE" => power'[v].host = machine'[v].host /\ defined'[v] # 0
    BY <2>1, <2>4, <2>5 DEF RuntimeKept
  <2>7. QED
    BY <2>3, <2>6 DEF AtHome
<1>4. CheckedHere(v)'
  BY CheckedFrame DEF RuntimeKept
<1>5. QED
  BY <1>1, <1>2, <1>3, <1>4 DEF RuntimeInv

LEMMA OpFrame ==
  ASSUME NEW v \in VMs, OpBound(v), ResourceKept(v)
  PROVE  OpBound(v)'
BY DEF OpBound, ResourceKept

LEMMA ResourceFrame ==
  ASSUME NEW v \in VMs, ResourceInv(v), RuntimeKept(v), ChildKept(v), ResourceKept(v)
  PROVE  ResourceInv(v)'
<1>1. OpBound(v)'
  BY OpFrame DEF ResourceInv
<1>2. BoundHome(v)'
  BY DEF ResourceInv, BoundHome, RuntimeKept, ResourceKept
<1>3. Deleting(v)'
  BY DEF ResourceInv, Deleting, RuntimeKept, ResourceKept
<1>4. Gone(v)'
  BY DEF ResourceInv, Gone, RuntimeKept, ResourceKept, ChildKept
<1>5. QED
  BY <1>1, <1>2, <1>3, <1>4 DEF ResourceInv
-----------------------------------------------------------------------------
(* Steps of the runtime that move the rows of a VM.                        *)

\* Steps of the runtime leave the evacuation and the resource alone.
RestUnchanged(v) ==
  /\ \A h \in VMHosts : child'[h][v] = child[h][v]
  /\ resource'[v] = resource[v] /\ op'[v] = op[v] /\ binding'[v] = binding[v]

LEMMA RestKept ==
  ASSUME NEW v, RestUnchanged(v)
  PROVE  ChildKept(v) /\ ResourceKept(v)
BY DEF RestUnchanged, ChildKept, ResourceKept

\* A machine row on a host is not the row of an unborn VM.
LEMMA OnHostBorn ==
  ASSUME NEW v \in VMs, RuntimeInv(v), machine[v].host \in VMHosts
  PROVE  machine[v].life # "NONE" /\ machine[v].plan # 0
BY NoHostIsNone DEF RuntimeInv, Unborn, Born

LEMMA AttemptsNonzero ==
  ASSUME NEW n \in Attempts
  PROVE  n # 0
BY RuntimeAssumption

\* The admission of a delete under way is the one of the bound first plan.
LEMMA DeletingBound ==
  ASSUME NEW v \in VMs, ResourceInv(v), op[v].kind = "DELETE", op[v].state # "VERIFIED"
  PROVE  /\ op[v].host = binding[v].host /\ op[v].host \in VMHosts /\ binding[v].plan = 1
         /\ claims[v][op[v].host] = "RESERVED" =>
              machine[v].host = op[v].host /\ machine[v].plan = 1 /\ defined[v] # 0
<1>1. resource[v].life = "RETIRE_PENDING"
  BY DEF ResourceInv, OpBound
<1>2. op[v].host = binding[v].host /\ binding[v].plan = 1
  BY DEF ResourceInv, Deleting
<1>3. QED
  BY <1>1, <1>2 DEF ResourceInv, BoundHome

LEMMA DefineKeeps ==
  ASSUME RuntimeTypeOK, NEW v \in VMs, RuntimeInv(v), ResourceInv(v), RestUnchanged(v),
         NEW n \in Attempts, DefineDomain(v, n)
  PROVE  RuntimeInv(v)' /\ ResourceInv(v)'
<1>1. /\ CheckedKept(v) /\ machine[v].life # "NONE" /\ defined[v] = 0 /\ defined'[v] = n
      /\ \A g \in VMHosts : g # machine[v].host => domain'[v][g] = domain[v][g]
      /\ UNCHANGED <<claims, attach, machine, ready, power>>
  BY DefineStepRows
<1>2. n # 0
  BY AttemptsNonzero
<1>3. Unborn(v)'
  BY <1>1 DEF Unborn
<1>4. Born(v)'
  BY <1>1, <1>2 DEF RuntimeInv, Born
<1>5. AtHome(v)'
  BY <1>1, <1>2 DEF RuntimeInv, AtHome, RestUnchanged
<1>6. OpBound(v)'
  BY OpFrame, RestKept DEF ResourceInv
<1>7. BoundHome(v)'
  BY <1>1, <1>2 DEF ResourceInv, BoundHome, RestUnchanged
<1>8. Deleting(v)'
  <2>1. Deleting(v)
    BY DEF ResourceInv
  <2>2. op[v].kind = "DELETE" /\ op[v].state # "VERIFIED" => claims[v][op[v].host] # "RESERVED"
    BY <1>1, DeletingBound
  <2>3. QED
    BY <1>1, <2>1, <2>2 DEF Deleting, RestUnchanged
<1>9. Gone(v)'
  BY <1>1 DEF ResourceInv, Gone, RestUnchanged
<1>10. CheckedHere(v)'
  BY <1>1, <1>2, CheckedFrame
<1>11. QED
  BY <1>3, <1>4, <1>5, <1>6, <1>7, <1>8, <1>9, <1>10 DEF RuntimeInv, ResourceInv

LEMMA DefinitionKeeps ==
  ASSUME RuntimeTypeOK, NEW v \in VMs, RuntimeInv(v), ResourceInv(v), RestUnchanged(v),
         AcceptVMDefinitionObservation(v)
  PROVE  RuntimeInv(v)' /\ ResourceInv(v)'
<1>1. /\ CheckedKept(v) /\ defined[v] # 0 /\ machine[v].host \in VMHosts /\ attach[v][machine[v].host] = "RESERVED"
      /\ machine'[v].life = "DEFINED" /\ machine'[v].host = machine[v].host
      /\ machine'[v].plan = machine[v].plan
      /\ ready'[v].boot = "BLOCKED"
      /\ UNCHANGED <<claims, attach, defined, power, domain>>
  BY DefinitionStepRows
<1>2. machine[v].plan # 0
  BY <1>1, OnHostBorn
<1>3. Unborn(v)'
  BY <1>1 DEF Unborn
<1>4. Born(v)'
  BY <1>1, <1>2 DEF Born
<1>5. AtHome(v)'
  BY <1>1 DEF RuntimeInv, AtHome, RestUnchanged
<1>6. OpBound(v)'
  BY OpFrame, RestKept DEF ResourceInv
<1>7. BoundHome(v)'
  BY <1>1 DEF ResourceInv, BoundHome, RestUnchanged
<1>8. Deleting(v)'
  BY <1>1 DEF ResourceInv, Deleting, RestUnchanged
<1>9. Gone(v)'
  BY <1>1 DEF ResourceInv, Gone, RestUnchanged
<1>10. CheckedHere(v)'
  BY <1>1, CheckedFrame
<1>11. QED
  BY <1>3, <1>4, <1>5, <1>6, <1>7, <1>8, <1>9, <1>10 DEF RuntimeInv, ResourceInv

LEMMA ExecuteKeeps ==
  ASSUME RuntimeTypeOK, NEW c \in commands, NEW v \in VMs, c.vm = v, RuntimeInv(v), ResourceInv(v),
         RestUnchanged(v), ExecutePower(c)
  PROVE  RuntimeInv(v)' /\ ResourceInv(v)'
<1>1. /\ CheckedKept(v) /\ domain[v][c.host] # NoDomain /\ c.host \in VMHosts
      /\ \A g \in VMHosts : g # c.host => domain'[v][g] = domain[v][g]
      /\ UNCHANGED <<claims, attach, machine, defined, ready, power>>
  BY ExecuteStepRows, CommandFields
<1>2. machine[v].life # "NONE"
  BY <1>1 DEF RuntimeInv, Unborn
<1>3. Unborn(v)'
  BY <1>1, <1>2 DEF Unborn
<1>4. Born(v)'
  BY <1>1 DEF RuntimeInv, Born
<1>5. AtHome(v)'
  <2>1. machine[v].plan = 1 => c.host = machine[v].host
    BY <1>1 DEF RuntimeInv, AtHome
  <2>2. QED
    BY <1>1, <2>1 DEF RuntimeInv, AtHome, RestUnchanged
<1>6. OpBound(v)'
  BY OpFrame, RestKept DEF ResourceInv
<1>7. BoundHome(v)'
  BY <1>1 DEF ResourceInv, BoundHome, RestUnchanged
<1>8. Deleting(v)'
  <2>1. Deleting(v)
    BY DEF ResourceInv
  <2>2. op[v].kind = "DELETE" /\ op[v].state # "VERIFIED" => op[v].host \in VMHosts
    BY DeletingBound
  <2>3. QED
    BY <1>1, <2>1, <2>2 DEF Deleting, RestUnchanged
<1>9. Gone(v)'
  BY <1>1 DEF ResourceInv, Gone, RestUnchanged
<1>10. CheckedHere(v)'
  BY <1>1, CheckedFrame
<1>11. QED
  BY <1>3, <1>4, <1>5, <1>6, <1>7, <1>8, <1>9, <1>10 DEF RuntimeInv, ResourceInv

LEMMA ProjectKeeps ==
  ASSUME RuntimeTypeOK, NEW c \in commands, NEW v \in VMs, c.vm = v, RuntimeInv(v), ResourceInv(v),
         RestUnchanged(v), ProjectPower(c)
  PROVE  RuntimeInv(v)' /\ ResourceInv(v)'
<1>1. /\ CheckedKept(v) /\ c.stage = "CHECKED"
      /\ power'[v] # power[v] => power'[v].host = c.host
      /\ UNCHANGED <<claims, attach, machine, defined, ready, domain>>
  BY ProjectStepRows
<1>2. machine[v].life # "NONE" /\ (machine[v].plan = 1 => c.host = machine[v].host /\ defined[v] # 0)
  BY <1>1 DEF RuntimeInv, CheckedHere
<1>3. Unborn(v)'
  BY <1>1, <1>2 DEF Unborn
<1>4. Born(v)'
  BY <1>1 DEF RuntimeInv, Born
<1>5. AtHome(v)'
  <2>1. machine[v].plan = 1 /\ power'[v] # power[v] => power'[v].host = machine[v].host /\ defined[v] # 0
    BY <1>1, <1>2
  <2>2. QED
    BY <1>1, <2>1 DEF RuntimeInv, AtHome, RestUnchanged
<1>6. OpBound(v)'
  BY OpFrame, RestKept DEF ResourceInv
<1>7. BoundHome(v)'
  BY <1>1 DEF ResourceInv, BoundHome, RestUnchanged
<1>8. Deleting(v)'
  BY <1>1 DEF ResourceInv, Deleting, RestUnchanged
<1>9. Gone(v)'
  BY <1>1 DEF ResourceInv, Gone, RestUnchanged
<1>10. CheckedHere(v)'
  BY <1>1, CheckedFrame
<1>11. QED
  BY <1>3, <1>4, <1>5, <1>6, <1>7, <1>8, <1>9, <1>10 DEF RuntimeInv, ResourceInv

LEMMA CheckKeeps ==
  ASSUME RuntimeTypeOK, NEW c \in commands, NEW v \in VMs, c.vm = v, RuntimeInv(v), ResourceInv(v),
         RestUnchanged(v), CheckPowerStillWanted(c)
  PROVE  RuntimeInv(v)' /\ ResourceInv(v)'
<1>1. /\ machine[v].host = c.host /\ ready[v].boot = "READY"
      /\ \A d \in commands' : d \in commands \/ d.host = c.host
      /\ UNCHANGED <<claims, attach, machine, defined, ready, power, domain>>
  BY CheckStepRows
<1>2. machine[v].life # "NONE"
  BY <1>1, OnHostBorn, CommandFields
<1>3. machine[v].plan = 1 => defined[v] # 0
  BY <1>1 DEF RuntimeInv, AtHome
<1>4. CheckedHere(v)'
  <2>1. ASSUME NEW d \in commands', d.vm = v, d.stage = "CHECKED"
        PROVE  machine'[v].plan = 1 => d.host = machine'[v].host /\ defined'[v] # 0
    <3>1. CASE d \in commands
      BY <1>1, <2>1, <3>1 DEF RuntimeInv, CheckedHere
    <3>2. CASE d.host = c.host
      BY <1>1, <1>3, <3>2
    <3>3. QED
      BY <1>1, <3>1, <3>2
  <2>2. QED
    BY <1>1, <1>2, <2>1 DEF CheckedHere
<1>5. Unborn(v)' /\ Born(v)'
  BY <1>1, <1>2 DEF RuntimeInv, Unborn, Born
<1>6. AtHome(v)'
  BY <1>1 DEF RuntimeInv, AtHome, RestUnchanged
<1>7. OpBound(v)'
  BY OpFrame, RestKept DEF ResourceInv
<1>8. BoundHome(v)' /\ Deleting(v)'
  BY <1>1 DEF ResourceInv, BoundHome, Deleting, RestUnchanged
<1>9. Gone(v)'
  BY <1>1 DEF ResourceInv, Gone, RestUnchanged
<1>10. QED
  BY <1>4, <1>5, <1>6, <1>7, <1>8, <1>9 DEF RuntimeInv, ResourceInv

\* What a step of the runtime does for one VM.
Carried(v) ==
  /\ RuntimeInv(v)' /\ ResourceInv(v)' /\ claims'[v] = claims[v] /\ machine'[v].host = machine[v].host

LEMMA KeptIsCarried ==
  ASSUME NEW v \in VMs, RuntimeInv(v), ResourceInv(v), RestUnchanged(v), RuntimeKept(v)
  PROVE  Carried(v)
<1>1. ChildKept(v) /\ ResourceKept(v)
  BY RestKept
<1>2. RuntimeInv(v)' /\ ResourceInv(v)'
  BY <1>1, RuntimeFrame, ResourceFrame
<1>3. QED
  BY <1>2 DEF Carried, RuntimeKept

LEMMA MaterializeCarries ==
  ASSUME RuntimeTypeOK, \A w \in VMs : RuntimeInv(w) /\ ResourceInv(w) /\ RestUnchanged(w),
         NEW v \in VMs, Materialize(v)
  PROVE  RuntimeTypeOK' /\ \A w \in VMs : Carried(w)
<1>1. ASSUME NEW n \in Attempts, DefineDomain(v, n)
      PROVE  RuntimeTypeOK' /\ \A w \in VMs : Carried(w)
  <2>1. /\ RuntimeTypeOK' /\ UNCHANGED <<claims, machine>>
        /\ \A w \in VMs : w # v => RuntimeKept(w)
    BY <1>1, DefineStepRows
  <2>2. RuntimeInv(v)' /\ ResourceInv(v)'
    BY <1>1, DefineKeeps
  <2>3. Carried(v)
    BY <2>1, <2>2 DEF Carried
  <2>4. QED
    BY <2>1, <2>3, KeptIsCarried
<1>2. CASE AcceptVMDefinitionObservation(v)
  <2>1. /\ RuntimeTypeOK' /\ claims' = claims /\ machine'[v].host = machine[v].host
        /\ \A w \in VMs : w # v => RuntimeKept(w)
    BY <1>2, DefinitionStepRows
  <2>2. RuntimeInv(v)' /\ ResourceInv(v)'
    BY <1>2, DefinitionKeeps
  <2>3. Carried(v)
    BY <2>1, <2>2 DEF Carried
  <2>4. QED
    BY <2>1, <2>3, KeptIsCarried
<1>3. CASE AcceptVMImageRealizationObservation(v) \/ AcceptVMPreservedRootReadiness(v)
  BY <1>3, ImageStep, KeptIsCarried
<1>4. QED
  BY <1>1, <1>2, <1>3 DEF Materialize

LEMMA OperateCarries ==
  ASSUME RuntimeTypeOK, \A w \in VMs : RuntimeInv(w) /\ ResourceInv(w) /\ RestUnchanged(w),
         NEW v \in VMs, Operate(v)
  PROVE  RuntimeTypeOK' /\ \A w \in VMs : Carried(w)
<1>1. RuntimeTypeOK' /\ \A w \in VMs : RuntimeKept(w)
  BY PortStep, DataplaneStep, PowerStep DEF Operate
<1>2. QED
  BY <1>1, KeptIsCarried

LEMMA CommandsCarry ==
  ASSUME RuntimeTypeOK, \A w \in VMs : RuntimeInv(w) /\ ResourceInv(w) /\ RestUnchanged(w),
         RunCommands
  PROVE  RuntimeTypeOK' /\ \A w \in VMs : Carried(w)
<1> PICK c \in commands : LeasePower(c) \/ ExecutePower(c) \/ CheckPowerStillWanted(c) \/ ProjectPower(c)
  BY DEF RunCommands
<1>v. c.vm \in VMs
  BY CommandFields
<1>1. CASE LeasePower(c)
  BY <1>1, LeaseStep, KeptIsCarried
<1>2. CASE ExecutePower(c)
  <2>1. /\ RuntimeTypeOK' /\ UNCHANGED <<claims, machine>>
        /\ \A w \in VMs : w # c.vm => RuntimeKept(w)
    BY <1>2, ExecuteStepRows
  <2>2. RuntimeInv(c.vm)' /\ ResourceInv(c.vm)'
    BY <1>v, <1>2, ExecuteKeeps
  <2>3. Carried(c.vm)
    BY <2>1, <2>2 DEF Carried
  <2>4. QED
    BY <2>1, <2>3, KeptIsCarried
<1>3. CASE ProjectPower(c)
  <2>1. /\ RuntimeTypeOK' /\ UNCHANGED <<claims, machine>>
        /\ \A w \in VMs : w # c.vm => RuntimeKept(w)
    BY <1>3, ProjectStepRows
  <2>2. RuntimeInv(c.vm)' /\ ResourceInv(c.vm)'
    BY <1>v, <1>3, ProjectKeeps
  <2>3. Carried(c.vm)
    BY <2>1, <2>2 DEF Carried
  <2>4. QED
    BY <2>1, <2>3, KeptIsCarried
<1>4. CASE CheckPowerStillWanted(c)
  <2>1. /\ RuntimeTypeOK' /\ UNCHANGED <<claims, machine>>
        /\ \A w \in VMs : w # c.vm => RuntimeKept(w)
    BY <1>4, CheckStepRows
  <2>2. RuntimeInv(c.vm)' /\ ResourceInv(c.vm)'
    BY <1>v, <1>4, CheckKeeps
  <2>3. Carried(c.vm)
    BY <2>1, <2>2 DEF Carried
  <2>4. QED
    BY <2>1, <2>3, KeptIsCarried
<1>5. QED
  BY <1>1, <1>2, <1>3, <1>4

LEMMA RuntimeStepCarries ==
  ASSUME RuntimeTypeOK, \A w \in VMs : RuntimeInv(w) /\ ResourceInv(w) /\ RestUnchanged(w),
         RuntimeStep
  PROVE  RuntimeTypeOK' /\ \A w \in VMs : Carried(w)
<1>1. ASSUME NEW h \in VMHosts, LoseAuthority(h) \/ Rearm(h)
      PROVE  RuntimeTypeOK' /\ \A w \in VMs : Carried(w)
  BY <1>1, AuthorityStep, KeptIsCarried
<1>2. QED
  BY <1>1, MaterializeCarries, OperateCarries, CommandsCarry DEF RuntimeStep
-----------------------------------------------------------------------------
(* The tables of an evacuation.                                            *)

EvacTablesOK ==
  /\ drain \in [VMHosts -> {"NONE", "DRAINING", "DRAINED"}]
  /\ evac \in [VMHosts -> EvacRow]
  /\ slot \in [VMHosts -> [VMs -> SlotStates]]
  /\ child \in [VMHosts -> [VMs -> ChildRow]]
  /\ \A h \in VMHosts, v \in VMs :
       child[h][v].retired \subseteq child[h][v].retiring /\ child[h][v].retiring \subseteq PortsOf[v]

ChildrenHeld == \A h \in VMHosts, v \in VMs : ChildHeld(h, v)

ReleasesStay ==
  \A h \in VMHosts, v \in VMs : claims[v][h] = "RELEASED" => claims'[v][h] = "RELEASED"

VerifiedStays ==
  \A h \in VMHosts, v \in VMs :
    child[h][v].phase = "VERIFIED" /\ drain[h] # "NONE" => child'[h][v].phase = "VERIFIED"

\* Row r and slot s may replace those of v in the operation of h.
Fits(h, v, r, s) ==
  /\ r \in ChildRow /\ s \in SlotStates
  /\ r.retired \subseteq r.retiring /\ r.retiring \subseteq PortsOf[v]
  /\ s # "NONE" => r.phase \in {"QUIESCING_SOURCE", "SOURCE_QUIESCED"}
  /\ r.released => claims'[v][h] = "RELEASED"
  /\ r.dest # NoHost => r.released /\ r.dest # h
  /\ r.phase # "NONE" => child[h][v].phase # "NONE" \/ machine[v].host = h
  /\ child[h][v].phase = "VERIFIED" /\ drain[h] # "NONE" => r.phase = "VERIFIED"

\* An operation takes a slot only while there is room for it.
SlotsMove == \A h \in VMHosts : StaysWithin(Slots(h), Slots(h)', MaxConcurrent)

\* What every step on the children preserves.
ChildrenMove ==
  /\ slot' \in [VMHosts -> [VMs -> SlotStates]] /\ child' \in [VMHosts -> [VMs -> ChildRow]]
  /\ \A g \in VMHosts, v \in VMs :
       child'[g][v].retired \subseteq child'[g][v].retiring /\ child'[g][v].retiring \subseteq PortsOf[v]
  /\ ChildrenHeld' /\ SlotsMove /\ VerifiedStays

LEMMA SlotsShrink ==
  ASSUME \A h \in VMHosts, v \in VMs : slot'[h][v] # "NONE" => slot[h][v] # "NONE"
  PROVE  SlotsMove
<1>1. \A h \in VMHosts : Slots(h)' \subseteq Slots(h)
  BY DEF Slots
<1>2. QED
  BY <1>1 DEF SlotsMove, StaysWithin

\* A whole operation is replaced, row by row.
LEMMA OperationReplaced ==
  ASSUME EvacTablesOK, ChildrenHeld, SlotsMove, ReleasesStay, NEW h \in VMHosts,
         NEW c \in [VMs -> ChildRow], NEW s \in [VMs -> SlotStates],
         \A v \in VMs : Fits(h, v, c[v], s[v]),
         child' = [child EXCEPT ![h] = c], slot' = [slot EXCEPT ![h] = s]
  PROVE  /\ ChildrenMove
         /\ \A v \in VMs : (c[v].released => child[h][v].released) => ChildKept(v)
<1>1. /\ slot \in [VMHosts -> [VMs -> SlotStates]] /\ child \in [VMHosts -> [VMs -> ChildRow]]
      /\ \A g \in VMHosts, v \in VMs :
           child[g][v].retired \subseteq child[g][v].retiring /\ child[g][v].retiring \subseteq PortsOf[v]
  BY DEF EvacTablesOK
<1>2. slot' \in [VMHosts -> [VMs -> SlotStates]] /\ child' \in [VMHosts -> [VMs -> ChildRow]]
  BY <1>1, Updated
<1>3. child'[h] = c /\ slot'[h] = s
  BY <1>1
<1>4. \A g \in VMHosts : g # h => child'[g] = child[g] /\ slot'[g] = slot[g]
  BY <1>1
<1>5. ASSUME NEW g \in VMHosts, NEW v \in VMs
      PROVE  child'[g][v].retired \subseteq child'[g][v].retiring /\ child'[g][v].retiring \subseteq PortsOf[v]
  BY <1>1, <1>3, <1>4 DEF Fits
<1>6. ChildrenHeld'
  <2> SUFFICES ASSUME NEW g \in VMHosts, NEW v \in VMs PROVE ChildHeld(g, v)'
    BY DEF ChildrenHeld
  <2>1. CASE g = h
    <3>1. Fits(h, v, child'[h][v], slot'[h][v])
      BY <1>3
    <3>2. QED
      BY <2>1, <3>1 DEF Fits, ChildHeld
  <2>2. CASE g # h
    <3>1. ChildHeld(g, v) /\ child'[g] = child[g] /\ slot'[g] = slot[g]
      BY <1>4, <2>2 DEF ChildrenHeld
    <3>2. claims[v][g] = "RELEASED" => claims'[v][g] = "RELEASED"
      BY DEF ReleasesStay
    <3>3. QED
      BY <3>1, <3>2 DEF ChildHeld
  <2>3. QED
    BY <2>1, <2>2
<1>a. \A v \in VMs : child[h][v].phase = "VERIFIED" /\ drain[h] # "NONE" => c[v].phase = "VERIFIED"
  BY DEF Fits
<1>9. VerifiedStays
  <2> SUFFICES ASSUME NEW g \in VMHosts, NEW v \in VMs, child[g][v].phase = "VERIFIED", drain[g] # "NONE"
               PROVE  child'[g][v].phase = "VERIFIED"
    BY DEF VerifiedStays
  <2>1. CASE g = h
    BY <1>3, <1>a, <2>1
  <2>2. CASE g # h
    BY <1>4, <2>2
  <2>3. QED
    BY <2>1, <2>2
<1>10. ASSUME NEW v \in VMs, c[v].released => child[h][v].released PROVE ChildKept(v)
  <2> SUFFICES ASSUME NEW g \in VMHosts
               PROVE  /\ child'[g][v].phase # "NONE" => child[g][v].phase # "NONE" \/ machine[v].host = g
                      /\ child'[g][v].released => child[g][v].released
    BY DEF ChildKept
  <2>1. CASE g = h
    <3>1. c[v].phase # "NONE" => child[h][v].phase # "NONE" \/ machine[v].host = h
      BY DEF Fits
    <3>2. QED
      BY <1>3, <1>10, <2>1, <3>1
  <2>2. CASE g # h
    BY <1>4, <2>2
  <2>3. QED
    BY <2>1, <2>2
<1>11. QED
  BY <1>2, <1>5, <1>6, <1>9, <1>10 DEF ChildrenMove

\* A row that stays as it is fits, since no admission comes back.
LEMMA SameFits ==
  ASSUME EvacTablesOK, ChildrenHeld, ReleasesStay, NEW h \in VMHosts, NEW v \in VMs
  PROVE  Fits(h, v, child[h][v], slot[h][v])
<1>1. /\ child[h][v] \in ChildRow /\ slot[h][v] \in SlotStates
      /\ child[h][v].retired \subseteq child[h][v].retiring /\ child[h][v].retiring \subseteq PortsOf[v]
  BY DEF EvacTablesOK
<1>2. ChildHeld(h, v) /\ claims[v][h] = "RELEASED" => claims'[v][h] = "RELEASED"
  BY DEF ChildrenHeld, ReleasesStay
<1>3. QED
  BY <1>1, <1>2 DEF Fits, ChildHeld, ChildrenHeld
\* One child is replaced.
LEMMA ChildReplaced ==
  ASSUME EvacTablesOK, ChildrenHeld, ReleasesStay, NEW h \in VMHosts, NEW v \in VMs,
         NEW r, NEW s, Fits(h, v, r, s), s # "NONE" => slot[h][v] # "NONE",
         child' = [child EXCEPT ![h][v] = r], slot' = [slot EXCEPT ![h][v] = s]
  PROVE  /\ ChildrenMove
         /\ (r.released => child[h][v].released) => \A w \in VMs : ChildKept(w)
<1>a. PICK c : c = [child[h] EXCEPT ![v] = r]
  OBVIOUS
<1>b. PICK t : t = [slot[h] EXCEPT ![v] = s]
  OBVIOUS
<1>1. child \in [VMHosts -> [VMs -> ChildRow]] /\ slot \in [VMHosts -> [VMs -> SlotStates]]
  BY DEF EvacTablesOK
<1>2. child[h] \in [VMs -> ChildRow] /\ slot[h] \in [VMs -> SlotStates]
  BY <1>1
<1>3. child' = [child EXCEPT ![h] = c] /\ slot' = [slot EXCEPT ![h] = t]
  BY <1>1, <1>a, <1>b
<1>4. r \in ChildRow /\ s \in SlotStates
  BY DEF Fits
<1>5. c \in [VMs -> ChildRow] /\ t \in [VMs -> SlotStates]
  BY <1>2, <1>4, <1>a, <1>b, Updated
<1>6. c[v] = r /\ t[v] = s /\ \A w \in VMs : w # v => c[w] = child[h][w] /\ t[w] = slot[h][w]
  BY <1>2, <1>a, <1>b
<1>7. ASSUME NEW w \in VMs PROVE Fits(h, w, c[w], t[w])
  <2>1. CASE w = v
    BY <1>6, <2>1
  <2>2. CASE w # v
    BY <1>6, <2>2, SameFits
  <2>3. QED
    BY <2>1, <2>2
<1>c. \A g \in VMHosts, w \in VMs : slot'[g][w] # "NONE" => slot[g][w] # "NONE"
  BY <1>1, <1>2, <1>3, <1>6
<1>d. SlotsMove
  BY <1>c, SlotsShrink
<1>8. /\ ChildrenMove
      /\ \A w \in VMs : (c[w].released => child[h][w].released) => ChildKept(w)
  BY <1>d, <1>3, <1>5, <1>7, OperationReplaced
<1>9. QED
  BY <1>6, <1>8

\* A child whose slot is kept.
LEMMA ChildUpdated ==
  ASSUME EvacTablesOK, ChildrenHeld, ReleasesStay, NEW h \in VMHosts, NEW v \in VMs,
         NEW r, Fits(h, v, r, slot[h][v]), child' = [child EXCEPT ![h][v] = r], slot' = slot
  PROVE  /\ ChildrenMove
         /\ (r.released => child[h][v].released) => \A w \in VMs : ChildKept(w)
<1>1. slot \in [VMHosts -> [VMs -> SlotStates]]
  BY DEF EvacTablesOK
<1>2. slot' = [slot EXCEPT ![h][v] = slot[h][v]]
  BY <1>1
<1>3. QED
  BY <1>2, ChildReplaced

LEMMA ChildFields ==
  ASSUME NEW c \in ChildRow
  PROVE  /\ c.phase \in Phases /\ c.plan \in Nat /\ c.shut \in BOOLEAN /\ c.closed \in BOOLEAN
         /\ c.safe \in {"NONE", "ROOT", "ALL"} /\ c.released \in BOOLEAN
         /\ c.retiring \in SUBSET AllPorts /\ c.retired \in SUBSET AllPorts
         /\ c.copy \in {"NONE", "PENDING", "VERIFIED"} /\ c.dest \in VMHosts \cup {NoHost}
         /\ c.verified \in BOOLEAN
BY DEF ChildRow

\* A row that differs from child[h][v] in its evidence only.
SameCourse(c, r) ==
  /\ r \in ChildRow
  /\ r.phase = c.phase /\ r.released = c.released /\ r.dest = c.dest
  /\ r.retiring = c.retiring /\ r.retired = c.retired

LEMMA EvidenceFits ==
  ASSUME EvacTablesOK, ChildrenHeld, ReleasesStay, NEW h \in VMHosts, NEW v \in VMs, NEW r,
         SameCourse(child[h][v], r)
  PROVE  Fits(h, v, r, slot[h][v])
<1>1. Fits(h, v, child[h][v], slot[h][v])
  BY SameFits
<1>2. QED
  BY <1>1 DEF Fits, SameCourse

LEMMA EvidenceRecorded ==
  ASSUME NEW c \in ChildRow
  PROVE  /\ SameCourse(c, [c EXCEPT !.shut = TRUE]) /\ SameCourse(c, [c EXCEPT !.closed = TRUE])
         /\ SameCourse(c, [c EXCEPT !.safe = "ROOT"]) /\ SameCourse(c, [c EXCEPT !.safe = "ALL"])
         /\ SameCourse(c, [c EXCEPT !.copy = "PENDING"]) /\ SameCourse(c, [c EXCEPT !.copy = "VERIFIED"])
         /\ SameCourse(c, [c EXCEPT !.verified = TRUE])
<1>1. SameCourse(c, [c EXCEPT !.shut = TRUE]) /\ SameCourse(c, [c EXCEPT !.closed = TRUE])
  BY DEF SameCourse, ChildRow
<1>2. SameCourse(c, [c EXCEPT !.safe = "ROOT"]) /\ SameCourse(c, [c EXCEPT !.safe = "ALL"])
  BY DEF SameCourse, ChildRow
<1>3. SameCourse(c, [c EXCEPT !.copy = "PENDING"]) /\ SameCourse(c, [c EXCEPT !.copy = "VERIFIED"])
  BY DEF SameCourse, ChildRow
<1>4. SameCourse(c, [c EXCEPT !.verified = TRUE])
  BY DEF SameCourse, ChildRow
<1>5. QED
  BY <1>1, <1>2, <1>3, <1>4
-----------------------------------------------------------------------------
(* Steps on one child.                                                     *)

EvacMove == EvacTablesOK' /\ ChildrenHeld' /\ SlotsMove /\ VerifiedStays

EvidenceStep(h, v) ==
  \/ AcceptPlannedSourceVolumeSafetyObservation(h, v)
  \/ EvaluateHostEvacuationSourceStorageSafety(h, v)
  \/ EvaluateHostEvacuationSourceStorageSafetySet(h, v)
  \/ PrepareLocalLVMRelocationCopy(h, v)
  \/ VerifyLocalLVMRelocationCopy(h, v)
  \/ EvaluateHostEvacuationChildEvidence(h, v)

LEMMA ChildTyped ==
  ASSUME EvacTablesOK, NEW h \in VMHosts, NEW v \in VMs
  PROVE  child[h][v] \in ChildRow
BY DEF EvacTablesOK

LEMMA EvidenceMoves ==
  ASSUME EvacTablesOK, ChildrenHeld, ReleasesStay, NEW h \in VMHosts, NEW v \in VMs,
         NEW r, SameCourse(child[h][v], r), child' = [child EXCEPT ![h][v] = r],
         UNCHANGED <<drain, evac, slot>>
  PROVE  EvacMove /\ \A w \in VMs : ChildKept(w)
<1>1. Fits(h, v, r, slot[h][v])
  BY EvidenceFits
<1>2. r.released => child[h][v].released
  BY DEF SameCourse
<1>3. ChildrenMove /\ \A w \in VMs : ChildKept(w)
  BY <1>1, <1>2, ChildUpdated
<1>4. QED
  BY <1>3 DEF EvacMove, EvacTablesOK, ChildrenMove

LEMMA EvidenceStepMoves ==
  ASSUME EvacTablesOK, ChildrenHeld, ReleasesStay, NEW h \in VMHosts, NEW v \in VMs,
         EvidenceStep(h, v)
  PROVE  EvacMove /\ \A w \in VMs : ChildKept(w)
<1>1. child \in [VMHosts -> [VMs -> ChildRow]] /\ child[h][v] \in ChildRow
  BY DEF EvacTablesOK
<1>2. UNCHANGED <<drain, evac, slot>>
  BY DEF EvidenceStep, AcceptPlannedSourceVolumeSafetyObservation, EvaluateHostEvacuationSourceStorageSafety,
         EvaluateHostEvacuationSourceStorageSafetySet, PrepareLocalLVMRelocationCopy,
         VerifyLocalLVMRelocationCopy, EvaluateHostEvacuationChildEvidence
<1>3. CASE AcceptPlannedSourceVolumeSafetyObservation(h, v)
  <2>1. child' = [child EXCEPT ![h][v] = [child[h][v] EXCEPT !.closed = TRUE]]
    BY <1>1, <1>3 DEF AcceptPlannedSourceVolumeSafetyObservation
  <2>2. QED
    BY <1>1, <1>2, <2>1, EvidenceRecorded, EvidenceMoves
<1>4. CASE EvaluateHostEvacuationSourceStorageSafety(h, v)
  <2>1. child' = [child EXCEPT ![h][v] = [child[h][v] EXCEPT !.safe = "ROOT"]]
    BY <1>1, <1>4 DEF EvaluateHostEvacuationSourceStorageSafety
  <2>2. QED
    BY <1>1, <1>2, <2>1, EvidenceRecorded, EvidenceMoves
<1>5. CASE EvaluateHostEvacuationSourceStorageSafetySet(h, v)
  <2>1. child' = [child EXCEPT ![h][v] = [child[h][v] EXCEPT !.safe = "ALL"]]
    BY <1>1, <1>5 DEF EvaluateHostEvacuationSourceStorageSafetySet
  <2>2. QED
    BY <1>1, <1>2, <2>1, EvidenceRecorded, EvidenceMoves
<1>6. CASE PrepareLocalLVMRelocationCopy(h, v)
  <2>1. child' = [child EXCEPT ![h][v] = [child[h][v] EXCEPT !.copy = "PENDING"]]
    BY <1>1, <1>6 DEF PrepareLocalLVMRelocationCopy
  <2>2. QED
    BY <1>1, <1>2, <2>1, EvidenceRecorded, EvidenceMoves
<1>7. CASE VerifyLocalLVMRelocationCopy(h, v)
  <2>1. child' = [child EXCEPT ![h][v] = [child[h][v] EXCEPT !.copy = "VERIFIED"]]
    BY <1>1, <1>7 DEF VerifyLocalLVMRelocationCopy
  <2>2. QED
    BY <1>1, <1>2, <2>1, EvidenceRecorded, EvidenceMoves
<1>8. CASE EvaluateHostEvacuationChildEvidence(h, v)
  <2>1. child' = [child EXCEPT ![h][v] = [child[h][v] EXCEPT !.verified = TRUE]]
    BY <1>1, <1>8 DEF EvaluateHostEvacuationChildEvidence
  <2>2. QED
    BY <1>1, <1>2, <2>1, EvidenceRecorded, EvidenceMoves
<1>9. QED
  BY <1>3, <1>4, <1>5, <1>6, <1>7, <1>8 DEF EvidenceStep

\* The ports a child retires.
LEMMA PortRetired ==
  ASSUME NEW c \in ChildRow, NEW ports \in SUBSET AllPorts
  PROVE  /\ LET r == [c EXCEPT !.retiring = ports]
            IN r \in ChildRow /\ r.phase = c.phase /\ r.released = c.released /\ r.dest = c.dest
               /\ r.retiring = ports /\ r.retired = c.retired
         /\ LET r == [c EXCEPT !.retired = ports]
            IN r \in ChildRow /\ r.phase = c.phase /\ r.released = c.released /\ r.dest = c.dest
               /\ r.retiring = c.retiring /\ r.retired = ports
BY DEF ChildRow

LEMMA RetirementMoves ==
  ASSUME EvacTablesOK, ChildrenHeld, ReleasesStay, NEW h \in VMHosts, NEW v \in VMs,
         NEW p \in PortsOf[v],
         \/ AuthorizeHostEvacuationNetworkPortRetirement(h, v, p)
         \/ AcceptHostEvacuationNetworkPortSourceQuiescence(h, v, p)
  PROVE  EvacMove /\ \A w \in VMs : ChildKept(w)
<1>a. PICK c : c = child[h][v]
  OBVIOUS
<1>1. /\ child \in [VMHosts -> [VMs -> ChildRow]] /\ c \in ChildRow
      /\ c.retired \subseteq c.retiring /\ c.retiring \subseteq PortsOf[v] /\ PortsOf[v] \subseteq AllPorts
  BY <1>a, PortsListed DEF EvacTablesOK
<1>2. UNCHANGED <<drain, evac, slot>>
  BY DEF AuthorizeHostEvacuationNetworkPortRetirement, AcceptHostEvacuationNetworkPortSourceQuiescence
<1>3. Fits(h, v, c, slot[h][v])
  BY <1>a, SameFits
<1>4. ASSUME NEW r \in ChildRow, r.phase = c.phase, r.released = c.released, r.dest = c.dest,
             r.retired \subseteq r.retiring, r.retiring \subseteq PortsOf[v],
             child' = [child EXCEPT ![h][v] = r]
      PROVE  EvacMove /\ \A w \in VMs : ChildKept(w)
  <2>1. Fits(h, v, r, slot[h][v])
    BY <1>3, <1>4 DEF Fits
  <2>2. ChildrenMove /\ \A w \in VMs : ChildKept(w)
    BY <1>2, <1>4, <1>a, <2>1, ChildUpdated
  <2>3. QED
    BY <1>2, <2>2 DEF EvacMove, EvacTablesOK, ChildrenMove
<1>5. CASE AuthorizeHostEvacuationNetworkPortRetirement(h, v, p)
  <2>a. PICK ports : ports = c.retiring \cup {p}
    OBVIOUS
  <2>b. PICK r : r = [c EXCEPT !.retiring = ports]
    OBVIOUS
  <2>1. child' = [child EXCEPT ![h][v] = r]
    BY <1>1, <1>5, <1>a, <2>a, <2>b DEF AuthorizeHostEvacuationNetworkPortRetirement
  <2>2. ports \in SUBSET AllPorts /\ ports \subseteq PortsOf[v] /\ c.retired \subseteq ports
    BY <1>1, <2>a
  <2>3. /\ r \in ChildRow /\ r.phase = c.phase /\ r.released = c.released /\ r.dest = c.dest
        /\ r.retiring = ports /\ r.retired = c.retired
    BY <1>1, <2>b, <2>2, PortRetired
  <2>4. r.retired \subseteq r.retiring /\ r.retiring \subseteq PortsOf[v]
    BY <2>2, <2>3
  <2>5. QED
    BY <1>4, <2>1, <2>3, <2>4
<1>6. CASE AcceptHostEvacuationNetworkPortSourceQuiescence(h, v, p)
  <2>a. PICK ports : ports = c.retired \cup {p}
    OBVIOUS
  <2>b. PICK r : r = [c EXCEPT !.retired = ports]
    OBVIOUS
  <2>1. child' = [child EXCEPT ![h][v] = r] /\ p \in c.retiring
    BY <1>1, <1>6, <1>a, <2>a, <2>b DEF AcceptHostEvacuationNetworkPortSourceQuiescence
  <2>2. ports \in SUBSET AllPorts /\ ports \subseteq c.retiring
    BY <1>1, <2>1, <2>a
  <2>3. /\ r \in ChildRow /\ r.phase = c.phase /\ r.released = c.released /\ r.dest = c.dest
        /\ r.retiring = c.retiring /\ r.retired = ports
    BY <1>1, <2>b, <2>2, PortRetired
  <2>4. r.retired \subseteq r.retiring /\ r.retiring \subseteq PortsOf[v]
    BY <1>1, <2>2, <2>3
  <2>5. QED
    BY <1>4, <2>1, <2>3, <2>4
<1>7. QED
  BY <1>5, <1>6
LEMMA AggregateTyped ==
  ASSUME NEW e \in EvacRow, NEW c
  PROVE  Aggregate(e, c) \in EvacRow
<1>a. PICK s : s = IF ~(\E v \in VMs : c[v].phase \in StoppedPhases) THEN "RUNNING"
                   ELSE IF (\E v \in VMs : c[v].phase \in PendingPhases) \/ (\E v \in VMs : c[v].phase \in {"VERIFIED"})
                        THEN "PARTIAL" ELSE "BLOCKED"
  OBVIOUS
<1>1. s \in {"RUNNING", "PARTIAL", "BLOCKED"}
  BY <1>a
<1>2. Aggregate(e, c) = IF e.state \in {"VERIFIED", "SOURCE_UNREACHABLE"} THEN e ELSE [e EXCEPT !.state = s]
  BY <1>a DEF Aggregate
<1>3. [e EXCEPT !.state = s] \in EvacRow
  BY <1>1 DEF EvacRow
<1>4. QED
  BY <1>2, <1>3

LEMMA EvacAggregated ==
  ASSUME EvacTablesOK, NEW h \in VMHosts, NEW c, evac' = [evac EXCEPT ![h] = Aggregate(evac[h], c)]
  PROVE  evac' \in [VMHosts -> EvacRow]
<1>1. evac \in [VMHosts -> EvacRow] /\ evac[h] \in EvacRow
  BY DEF EvacTablesOK
<1>2. Aggregate(evac[h], c) \in EvacRow
  BY <1>1, AggregateTyped
<1>3. QED
  BY <1>1, <1>2, Updated

LEMMA PhaseSet ==
  ASSUME NEW c \in ChildRow, NEW p \in Phases
  PROVE  LET r == [c EXCEPT !.phase = p]
         IN r \in ChildRow /\ r.phase = p /\ r.released = c.released /\ r.dest = c.dest
            /\ r.retiring = c.retiring /\ r.retired = c.retired
BY DEF ChildRow

\* A child that goes from one phase to another, with its slot.
LEMMA PhaseMoves ==
  ASSUME EvacTablesOK, ChildrenHeld, ReleasesStay, NEW h \in VMHosts, NEW v \in VMs,
         NEW p \in Phases, NEW s \in SlotStates,
         s # "NONE" => slot[h][v] # "NONE" /\ p \in {"QUIESCING_SOURCE", "SOURCE_QUIESCED"},
         child[h][v].phase \notin {"NONE", "VERIFIED"},
         child' = [child EXCEPT ![h] = Phase(h, v, p)], slot' = [slot EXCEPT ![h][v] = s]
  PROVE  ChildrenMove /\ \A w \in VMs : ChildKept(w)
<1>a. PICK r : r = [child[h][v] EXCEPT !.phase = p]
  OBVIOUS
<1>1. child \in [VMHosts -> [VMs -> ChildRow]] /\ child[h][v] \in ChildRow
  BY DEF EvacTablesOK
<1>2. child' = [child EXCEPT ![h][v] = r]
  BY <1>1, <1>a DEF Phase
<1>3. /\ r \in ChildRow /\ r.phase = p /\ r.released = child[h][v].released /\ r.dest = child[h][v].dest
      /\ r.retiring = child[h][v].retiring /\ r.retired = child[h][v].retired
  BY <1>1, <1>a, PhaseSet
<1>4. Fits(h, v, child[h][v], slot[h][v])
  BY SameFits
<1>5. Fits(h, v, r, s)
  BY <1>3, <1>4 DEF Fits
<1>6. QED
  BY <1>2, <1>3, <1>5, ChildReplaced

\* The steps that change the phase of one child and then recompute the
\* operation, or leave it.
LEMMA CourseMoves ==
  ASSUME EvacTablesOK, ChildrenHeld, ReleasesStay, NEW h \in VMHosts, NEW v \in VMs,
         \/ BlockHostEvacuationChild(h, v) \/ CancelHostEvacuationChild(h, v)
         \/ RecordPlannedSourceQuiescence(h, v) \/ CompleteHostEvacuationChild(h, v)
  PROVE  EvacMove /\ \A w \in VMs : ChildKept(w)
<1>1. slot \in [VMHosts -> [VMs -> SlotStates]] /\ slot[h][v] \in SlotStates /\ ChildHeld(h, v)
  BY DEF EvacTablesOK, ChildrenHeld
<1>2. "NONE" \in SlotStates /\ slot = [slot EXCEPT ![h][v] = slot[h][v]]
  BY <1>1 DEF SlotStates
<1>3. slot[h][v] = "CLAIMED" => child[h][v].phase \in {"QUIESCING_SOURCE", "SOURCE_QUIESCED"}
  BY <1>1 DEF ChildHeld
<1>4. {"BLOCKED", "CANCELLED", "SOURCE_QUIESCED", "VERIFIED"} \subseteq Phases
  BY DEF Phases
<1>5. CASE BlockHostEvacuationChild(h, v)
  <2>1. /\ child' = [child EXCEPT ![h] = Phase(h, v, "BLOCKED")] /\ slot' = [slot EXCEPT ![h][v] = "NONE"]
        /\ slot[h][v] = "CLAIMED" /\ drain' = drain
        /\ evac' = [evac EXCEPT ![h] = Aggregate(evac[h], Phase(h, v, "BLOCKED"))]
    BY <1>5 DEF BlockHostEvacuationChild, ClaimHeld, Moves
  <2>2. ChildrenMove /\ \A w \in VMs : ChildKept(w)
    BY <1>2, <1>3, <1>4, <2>1, PhaseMoves
  <2>3. evac' \in [VMHosts -> EvacRow]
    BY <2>1, EvacAggregated
  <2>4. QED
    BY <2>1, <2>2, <2>3 DEF EvacMove, EvacTablesOK, ChildrenMove
<1>6. CASE CancelHostEvacuationChild(h, v)
  <2>1. /\ child' = [child EXCEPT ![h] = Phase(h, v, "CANCELLED")] /\ slot' = slot
        /\ child[h][v].phase \in {"DISCOVERED", "READY_TO_QUIESCE"} /\ drain' = drain
        /\ evac' = [evac EXCEPT ![h] = Aggregate(evac[h], Phase(h, v, "CANCELLED"))]
    BY <1>6 DEF CancelHostEvacuationChild, Moves
  <2>2. slot[h][v] = "NONE" /\ slot' = [slot EXCEPT ![h][v] = slot[h][v]]
    BY <1>1, <1>2, <2>1 DEF ChildHeld
  <2>3. ChildrenMove /\ \A w \in VMs : ChildKept(w)
    BY <1>1, <1>4, <2>1, <2>2, PhaseMoves
  <2>4. evac' \in [VMHosts -> EvacRow]
    BY <2>1, EvacAggregated
  <2>5. QED
    BY <2>1, <2>3, <2>4 DEF EvacMove, EvacTablesOK, ChildrenMove
<1>7. CASE RecordPlannedSourceQuiescence(h, v)
  <2>1. /\ child' = [child EXCEPT ![h] = Phase(h, v, "SOURCE_QUIESCED")] /\ UNCHANGED <<drain, evac, slot>>
        /\ child[h][v].phase = "QUIESCING_SOURCE"
    BY <1>7 DEF RecordPlannedSourceQuiescence
  <2>2. slot' = [slot EXCEPT ![h][v] = slot[h][v]]
    BY <1>2, <2>1
  <2>3. ChildrenMove /\ \A w \in VMs : ChildKept(w)
    BY <1>1, <1>4, <2>1, <2>2, PhaseMoves
  <2>4. QED
    BY <2>1, <2>3 DEF EvacMove, EvacTablesOK, ChildrenMove
<1>8. CASE CompleteHostEvacuationChild(h, v)
  <2>1. /\ child' = [child EXCEPT ![h] = Phase(h, v, "VERIFIED")] /\ slot' = [slot EXCEPT ![h][v] = "NONE"]
        /\ child[h][v].phase = "SOURCE_QUIESCED" /\ drain' = drain
        /\ evac' = [evac EXCEPT ![h] = Aggregate(evac[h], Phase(h, v, "VERIFIED"))]
    BY <1>8 DEF CompleteHostEvacuationChild, Quiesced, Moves
  <2>2. ChildrenMove /\ \A w \in VMs : ChildKept(w)
    BY <1>2, <1>4, <2>1, PhaseMoves
  <2>3. evac' \in [VMHosts -> EvacRow]
    BY <2>1, EvacAggregated
  <2>4. QED
    BY <2>1, <2>2, <2>3 DEF EvacMove, EvacTablesOK, ChildrenMove
<1>9. QED
  BY <1>5, <1>6, <1>7, <1>8

LEMMA DestinationSet ==
  ASSUME NEW c \in ChildRow, NEW g \in VMHosts
  PROVE  LET r == [c EXCEPT !.dest = g]
         IN r \in ChildRow /\ r.phase = c.phase /\ r.released = c.released /\ r.dest = g
            /\ r.retiring = c.retiring /\ r.retired = c.retired
BY DEF ChildRow

LEMMA RelocationMoves ==
  ASSUME EvacTablesOK, ChildrenHeld, ReleasesStay, NEW h \in VMHosts, NEW v \in VMs,
         NEW g \in VMHosts, AuthorizeHostEvacuationRelocation(h, v, g)
  PROVE  EvacMove /\ \A w \in VMs : ChildKept(w)
<1>a. PICK r : r = [child[h][v] EXCEPT !.dest = g]
  OBVIOUS
<1>1. child \in [VMHosts -> [VMs -> ChildRow]] /\ child[h][v] \in ChildRow
  BY DEF EvacTablesOK
<1>2. /\ child' = [child EXCEPT ![h][v] = r] /\ UNCHANGED <<drain, evac, slot>>
      /\ child[h][v].released /\ g # h
  BY <1>1, <1>a DEF AuthorizeHostEvacuationRelocation, AdmittedElsewhere
<1>3. /\ r \in ChildRow /\ r.phase = child[h][v].phase /\ r.released = child[h][v].released /\ r.dest = g
      /\ r.retiring = child[h][v].retiring /\ r.retired = child[h][v].retired
  BY <1>1, <1>a, DestinationSet
<1>4. Fits(h, v, child[h][v], slot[h][v])
  BY SameFits
<1>5. Fits(h, v, r, slot[h][v])
  BY <1>2, <1>3, <1>4 DEF Fits
<1>6. ChildrenMove /\ \A w \in VMs : ChildKept(w)
  BY <1>2, <1>3, <1>5, ChildUpdated
<1>7. QED
  BY <1>2, <1>6 DEF EvacMove, EvacTablesOK, ChildrenMove
-----------------------------------------------------------------------------
(* Steps on an operation.                                                  *)

\* A host table entry is replaced and no child.
LEMMA ChildrenStay ==
  ASSUME EvacTablesOK, ChildrenHeld, ReleasesStay, UNCHANGED <<child, slot>>
  PROVE  ChildrenMove /\ \A w \in VMs : ChildKept(w)
<1>1. ChildrenHeld'
  BY DEF ChildrenHeld, ChildHeld, ReleasesStay
<1>2. SlotsMove /\ VerifiedStays /\ \A w \in VMs : ChildKept(w)
  BY DEF SlotsMove, StaysWithin, Slots, VerifiedStays, ChildKept
<1>3. QED
  BY <1>1, <1>2 DEF ChildrenMove, EvacTablesOK

LEMMA FreshChild ==
  ASSUME NEW p \in Nat
  PROVE  /\ NoChild \in ChildRow
         /\ NoChild.phase = "NONE" /\ ~NoChild.released /\ NoChild.dest = NoHost
         /\ NoChild.retiring = {} /\ NoChild.retired = {}
         /\ LET r == [NoChild EXCEPT !.phase = "DISCOVERED", !.plan = p]
            IN r \in ChildRow /\ r.phase = "DISCOVERED" /\ ~r.released /\ r.dest = NoHost
               /\ r.retiring = {} /\ r.retired = {}
<1>1. 0 \in Nat
  BY SMTT(30)
<1>2. NoChild \in ChildRow
  BY <1>1 DEF NoChild, ChildRow, Phases
<1>3. /\ NoChild.phase = "NONE" /\ ~NoChild.released /\ NoChild.dest = NoHost
      /\ NoChild.retiring = {} /\ NoChild.retired = {}
  BY DEF NoChild
<1>a. PICK r : r = [NoChild EXCEPT !.phase = "DISCOVERED", !.plan = p]
  OBVIOUS
<1>4. "DISCOVERED" \in Phases
  BY DEF Phases
<1>5. r \in ChildRow
  BY <1>2, <1>4, <1>a DEF ChildRow
<1>6. r.phase = "DISCOVERED" /\ r.released = NoChild.released /\ r.dest = NoChild.dest
      /\ r.retiring = NoChild.retiring /\ r.retired = NoChild.retired
  BY <1>2, <1>a DEF ChildRow
<1>7. QED
  BY <1>2, <1>3, <1>5, <1>6, <1>a

LEMMA StartMoves ==
  ASSUME RuntimeTypeOK, EvacTablesOK, ChildrenHeld, ReleasesStay, NEW h \in VMHosts,
         StartHostEvacuation(h)
  PROVE  EvacMove /\ \A w \in VMs : ChildKept(w)
<1>a. PICK c : c = [v \in VMs |-> IF v \in ManagedOn(h)
                                  THEN [NoChild EXCEPT !.phase = "DISCOVERED", !.plan = machine[v].plan]
                                  ELSE NoChild]
  OBVIOUS
<1>b. PICK s : s = [v \in VMs |-> "NONE"]
  OBVIOUS
<1>1. /\ drain \in [VMHosts -> {"NONE", "DRAINING", "DRAINED"}] /\ evac \in [VMHosts -> EvacRow]
      /\ slot \in [VMHosts -> [VMs -> SlotStates]]
  BY DEF EvacTablesOK
<1>2. /\ drain[h] = "NONE" /\ drain' = [drain EXCEPT ![h] = "DRAINING"]
      /\ evac' = [evac EXCEPT ![h] = [state |-> "RUNNING", gen |-> authority[h].gen]]
      /\ child' = [child EXCEPT ![h] = c] /\ slot' = [slot EXCEPT ![h] = s]
  BY <1>a, <1>b DEF StartHostEvacuation
<1>3. [state |-> "RUNNING", gen |-> authority[h].gen] \in EvacRow
  BY AuthorityTyped DEF AuthorityRow, EvacRow
<1>4. drain' \in [VMHosts -> {"NONE", "DRAINING", "DRAINED"}] /\ evac' \in [VMHosts -> EvacRow]
  BY <1>1, <1>2, <1>3, Updated
<1>5. ASSUME NEW v \in VMs
      PROVE  /\ Fits(h, v, c[v], s[v]) /\ ~c[v].released /\ s[v] = "NONE" /\ c[v] \in ChildRow
  <2>1. machine[v].plan \in Nat
    BY RowsTyped, MachineFields
  <2>2. /\ c[v] \in ChildRow /\ c[v].phase \in {"NONE", "DISCOVERED"} /\ ~c[v].released /\ c[v].dest = NoHost
        /\ c[v].retiring = {} /\ c[v].retired = {}
    BY <1>a, <2>1, FreshChild
  <2>3. c[v].phase # "NONE" => machine[v].host = h
    BY <1>a, FreshChild, <2>1 DEF ManagedOn
  <2>4. s[v] = "NONE" /\ "NONE" \in SlotStates
    BY <1>b DEF SlotStates
  <2>5. QED
    BY <1>2, <2>2, <2>3, <2>4 DEF Fits
<1>6. c \in [VMs -> ChildRow] /\ s \in [VMs -> SlotStates]
  BY <1>5, <1>a, <1>b DEF SlotStates
<1>7. \A g \in VMHosts, w \in VMs : slot'[g][w] # "NONE" => slot[g][w] # "NONE"
  BY <1>1, <1>2, <1>5
<1>8. SlotsMove
  BY <1>7, SlotsShrink
<1>9. ChildrenMove /\ \A v \in VMs : ChildKept(v)
  BY <1>2, <1>5, <1>6, <1>8, OperationReplaced
<1>10. QED
  BY <1>4, <1>9 DEF EvacMove, EvacTablesOK, ChildrenMove
LEMMA EligibilityMoves ==
  ASSUME EvacTablesOK, ChildrenHeld, ReleasesStay, NEW h \in VMHosts,
         EvaluateHostEvacuationEligibility(h)
  PROVE  EvacMove /\ \A w \in VMs : ChildKept(w)
<1>a. PICK c : c = [v \in VMs |->
         IF child[h][v].phase # "DISCOVERED" THEN child[h][v]
         ELSE [child[h][v] EXCEPT !.phase = IF v \in Movable THEN "READY_TO_QUIESCE" ELSE "BLOCKED"]]
  OBVIOUS
<1>1. slot \in [VMHosts -> [VMs -> SlotStates]] /\ slot[h] \in [VMs -> SlotStates]
  BY DEF EvacTablesOK
<1>2. /\ child' = [child EXCEPT ![h] = c] /\ evac' = [evac EXCEPT ![h] = Aggregate(evac[h], c)]
      /\ UNCHANGED <<drain, slot>>
  BY <1>a DEF EvaluateHostEvacuationEligibility, Moves
<1>3. slot' = [slot EXCEPT ![h] = slot[h]]
  BY <1>1, <1>2
<1>4. ASSUME NEW v \in VMs
      PROVE  Fits(h, v, c[v], slot[h][v]) /\ c[v].released = child[h][v].released /\ c[v] \in ChildRow
  <2>1. Fits(h, v, child[h][v], slot[h][v]) /\ child[h][v] \in ChildRow /\ ChildHeld(h, v)
    BY SameFits, ChildTyped DEF ChildrenHeld
  <2>2. CASE child[h][v].phase # "DISCOVERED"
    BY <1>a, <2>1, <2>2
  <2>3. CASE child[h][v].phase = "DISCOVERED"
    <3>a. PICK p : p = IF v \in Movable THEN "READY_TO_QUIESCE" ELSE "BLOCKED"
      OBVIOUS
    <3>1. p \in Phases /\ p # "NONE"
      BY <3>a DEF Phases
    <3>b. PICK r : r = [child[h][v] EXCEPT !.phase = p]
      OBVIOUS
    <3>2. c[v] = r
      BY <1>a, <2>3, <3>a, <3>b
    <3>c. /\ r \in ChildRow /\ r.phase = p /\ r.released = child[h][v].released
          /\ r.dest = child[h][v].dest
          /\ r.retiring = child[h][v].retiring /\ r.retired = child[h][v].retired
      BY <2>1, <3>1, <3>b, PhaseSet
    <3>3. /\ c[v] \in ChildRow /\ c[v].phase = p /\ c[v].released = child[h][v].released
          /\ c[v].dest = child[h][v].dest
          /\ c[v].retiring = child[h][v].retiring /\ c[v].retired = child[h][v].retired
      BY <3>2, <3>c
    <3>4. slot[h][v] = "NONE"
      BY <2>1, <2>3 DEF ChildHeld
    <3>5. QED
      BY <2>1, <2>3, <3>3, <3>4 DEF Fits
  <2>4. QED
    BY <2>2, <2>3
<1>5. c \in [VMs -> ChildRow]
  BY <1>4, <1>a
<1>6. SlotsMove
  BY <1>2 DEF SlotsMove, StaysWithin, Slots
<1>7. ChildrenMove /\ \A v \in VMs : ChildKept(v)
  BY <1>1, <1>2, <1>3, <1>4, <1>5, <1>6, OperationReplaced
<1>8. evac' \in [VMHosts -> EvacRow]
  BY <1>2, EvacAggregated
<1>9. QED
  BY <1>2, <1>7, <1>8 DEF EvacMove, EvacTablesOK, ChildrenMove

LEMMA ReconcileMoves ==
  ASSUME EvacTablesOK, ChildrenHeld, ReleasesStay, NEW h \in VMHosts,
         ReconcileHostEvacuationSourceAuthority(h)
  PROVE  EvacMove /\ \A w \in VMs : ChildKept(w)
<1>a. PICK c : c = [v \in VMs |-> StopsWith(child[h][v])]
  OBVIOUS
<1>b. PICK s : s = [v \in VMs |-> "NONE"]
  OBVIOUS
<1>1. /\ slot \in [VMHosts -> [VMs -> SlotStates]] /\ evac \in [VMHosts -> EvacRow] /\ evac[h] \in EvacRow
  BY DEF EvacTablesOK
<1>2. /\ child' = [child EXCEPT ![h] = c] /\ slot' = [slot EXCEPT ![h] = s] /\ drain' = drain
      /\ evac' = [evac EXCEPT ![h] = [evac[h] EXCEPT !.state = "SOURCE_UNREACHABLE"]]
  BY <1>1, <1>a, <1>b DEF ReconcileHostEvacuationSourceAuthority
<1>3. [evac[h] EXCEPT !.state = "SOURCE_UNREACHABLE"] \in EvacRow
  BY <1>1 DEF EvacRow
<1>4. evac' \in [VMHosts -> EvacRow]
  BY <1>1, <1>2, <1>3, Updated
<1>5. ASSUME NEW v \in VMs
      PROVE  /\ Fits(h, v, c[v], s[v]) /\ c[v].released = child[h][v].released /\ c[v] \in ChildRow
             /\ s[v] = "NONE"
  <2>1. Fits(h, v, child[h][v], slot[h][v]) /\ child[h][v] \in ChildRow
    BY SameFits, ChildTyped
  <2>2. s[v] = "NONE" /\ "NONE" \in SlotStates
    BY <1>b DEF SlotStates
  <2>3. CASE child[h][v].phase \notin PendingPhases
    <3>1. c[v] = child[h][v]
      BY <1>a, <2>3 DEF StopsWith
    <3>2. QED
      BY <2>1, <2>2, <3>1 DEF Fits
  <2>4. CASE child[h][v].phase \in PendingPhases
    <3>p. PICK p : p = "RECOVERY_REQUIRED"
      OBVIOUS
    <3>a. PICK r : r = [child[h][v] EXCEPT !.phase = p]
      OBVIOUS
    <3>1. c[v] = r /\ p \in Phases
      BY <1>a, <2>4, <3>a, <3>p DEF StopsWith, Phases
    <3>c. p \in Phases /\ child[h][v] \in ChildRow
      BY <2>1, <3>1
    <3>b. /\ r \in ChildRow /\ r.phase = p /\ r.released = child[h][v].released
          /\ r.dest = child[h][v].dest
          /\ r.retiring = child[h][v].retiring /\ r.retired = child[h][v].retired
      BY <3>c, <3>a, PhaseSet
    <3>2. /\ c[v] \in ChildRow /\ c[v].phase = "RECOVERY_REQUIRED" /\ c[v].released = child[h][v].released
          /\ c[v].dest = child[h][v].dest
          /\ c[v].retiring = child[h][v].retiring /\ c[v].retired = child[h][v].retired
      BY <3>1, <3>b, <3>p
    <3>3. child[h][v].phase \notin {"NONE", "VERIFIED"}
      BY <2>4 DEF PendingPhases
    <3>4. QED
      BY <2>1, <2>2, <3>2, <3>3 DEF Fits
  <2>5. QED
    BY <2>3, <2>4
<1>6. c \in [VMs -> ChildRow] /\ s \in [VMs -> SlotStates]
  BY <1>5, <1>a, <1>b DEF SlotStates
<1>7. \A g \in VMHosts, w \in VMs : slot'[g][w] # "NONE" => slot[g][w] # "NONE"
  BY <1>1, <1>2, <1>5
<1>8. SlotsMove
  BY <1>7, SlotsShrink
<1>9. ChildrenMove /\ \A v \in VMs : ChildKept(v)
  BY <1>2, <1>5, <1>6, <1>8, OperationReplaced
<1>10. QED
  BY <1>2, <1>4, <1>9 DEF EvacMove, EvacTablesOK, ChildrenMove

LEMMA EndMoves ==
  ASSUME EvacTablesOK, ChildrenHeld, ReleasesStay, NEW h \in VMHosts,
         FinalizeHostEvacuation(h) \/ ReleaseHostPlacementDrain(h)
  PROVE  EvacMove /\ \A w \in VMs : ChildKept(w)
<1>1. /\ drain \in [VMHosts -> {"NONE", "DRAINING", "DRAINED"}] /\ evac \in [VMHosts -> EvacRow]
      /\ evac[h] \in EvacRow
  BY DEF EvacTablesOK
<1>2. /\ drain' = [drain EXCEPT ![h] = "DRAINED"] \/ drain' = [drain EXCEPT ![h] = "NONE"]
      /\ evac' = [evac EXCEPT ![h] = [evac[h] EXCEPT !.state = "VERIFIED"]] \/ evac' = evac
      /\ UNCHANGED <<child, slot>>
  BY <1>1 DEF FinalizeHostEvacuation, ReleaseHostPlacementDrain
<1>3. [evac[h] EXCEPT !.state = "VERIFIED"] \in EvacRow
  BY <1>1 DEF EvacRow
<1>4. drain' \in [VMHosts -> {"NONE", "DRAINING", "DRAINED"}]
  <2>1. [drain EXCEPT ![h] = "DRAINED"] \in [VMHosts -> {"NONE", "DRAINING", "DRAINED"}]
    BY <1>1, Updated
  <2>2. [drain EXCEPT ![h] = "NONE"] \in [VMHosts -> {"NONE", "DRAINING", "DRAINED"}]
    BY <1>1, Updated
  <2>3. QED
    BY <1>2, <2>1, <2>2
<1>a. evac' \in [VMHosts -> EvacRow]
  <2>1. [evac EXCEPT ![h] = [evac[h] EXCEPT !.state = "VERIFIED"]] \in [VMHosts -> EvacRow]
    BY <1>1, <1>3, Updated
  <2>2. QED
    BY <1>1, <1>2, <2>1
<1>5. ChildrenMove /\ \A w \in VMs : ChildKept(w)
  BY <1>2, ChildrenStay
<1>6. QED
  BY <1>4, <1>a, <1>5 DEF EvacMove, EvacTablesOK, ChildrenMove

\* Slots of expired claims are freed or put in doubt; none is taken.
LEMMA ExpiredSlots ==
  ASSUME EvacTablesOK, NEW h \in VMHosts, NEW expired \in SUBSET {v \in VMs : slot[h][v] = "CLAIMED"},
         NEW s, s = ExpireSlots(h, expired)
  PROVE  /\ s \in [VMs -> SlotStates]
         /\ \A v \in VMs : s[v] # "NONE" => slot[h][v] # "NONE"
<1>1. slot[h] \in [VMs -> SlotStates]
  BY DEF EvacTablesOK
<1>2. ASSUME NEW v \in VMs PROVE s[v] \in SlotStates /\ (s[v] # "NONE" => slot[h][v] # "NONE")
  <2>1. s[v] = IF v \notin expired THEN slot[h][v]
               ELSE IF child[h][v].phase = "READY_TO_QUIESCE" THEN "NONE" ELSE "UNKNOWN"
    BY DEF ExpireSlots
  <2>2. {"NONE", "UNKNOWN"} \subseteq SlotStates /\ slot[h][v] \in SlotStates
    BY <1>1 DEF SlotStates
  <2>3. v \in expired => slot[h][v] # "NONE"
    OBVIOUS
  <2>4. QED
    BY <2>1, <2>2, <2>3
<1>3. s = [v \in VMs |-> s[v]]
  BY DEF ExpireSlots
<1>4. QED
  BY <1>2, <1>3

\* One more slot is claimed while fewer than the maximum are held.
LEMMA SlotClaimed ==
  ASSUME NEW h \in VMHosts, NEW s, NEW v \in VMs, slot \in [VMHosts -> [VMs -> SlotStates]],
         s \in [VMs -> SlotStates], \A w \in VMs : s[w] # "NONE" => slot[h][w] # "NONE",
         ~(Cardinality(SlotsHeld(s)) >= MaxConcurrent),
         slot' = [slot EXCEPT ![h] = [s EXCEPT ![v] = "CLAIMED"]]
  PROVE  SlotsMove
<1> SUFFICES ASSUME NEW g \in VMHosts PROVE StaysWithin(Slots(g), Slots(g)', MaxConcurrent)
  BY DEF SlotsMove
<1>1. CASE g # h
  <2>1. slot'[g] = slot[g]
    BY <1>1
  <2>2. Slots(g)' = Slots(g)
    BY <2>1 DEF Slots
  <2>3. QED
    BY <2>2 DEF StaysWithin
<1>2. CASE g = h
  <2>a. PICK t : t = [s EXCEPT ![v] = "CLAIMED"]
    OBVIOUS
  <2>1. slot'[h] = t
    BY <2>a
  <2>2. SlotsHeld(s) \in SUBSET Slots(h)
    BY DEF SlotsHeld, Slots
  <2>3. \A w \in VMs : t[w] # "NONE" => s[w] # "NONE" \/ w = v
    BY <2>a
  <2>4. Slots(h)' \subseteq SlotsHeld(s) \cup {v}
    BY <2>1, <2>3 DEF Slots, SlotsHeld
  <2>5. MaxConcurrent \in Nat
    BY EvacuationAssumption
  <2>6. Cardinality(SlotsHeld(s)) \in Nat => Cardinality(SlotsHeld(s)) < MaxConcurrent
    BY <2>5, SMTT(30)
  <2>7. QED
    BY <1>2, <2>2, <2>4, <2>6 DEF StaysWithin
<1>3. QED
  BY <1>1, <1>2

LEMMA ClaimMoves ==
  ASSUME EvacTablesOK, ChildrenHeld, ReleasesStay, NEW h \in VMHosts,
         ClaimHostEvacuationWorkload(h)
  PROVE  EvacMove /\ \A w \in VMs : ChildKept(w)
<1>e. PICK expired \in SUBSET {v \in VMs : slot[h][v] = "CLAIMED"} :
        LET s == ExpireSlots(h, expired)
            open == {v \in VMs : child[h][v].phase = "READY_TO_QUIESCE" /\ s[v] = "NONE"}
        IN /\ UNCHANGED <<drain, evac>>
           /\ IF Cardinality(SlotsHeld(s)) >= MaxConcurrent \/ open = {}
              THEN slot' = [slot EXCEPT ![h] = s] /\ UNCHANGED child
              ELSE \E v \in open :
                     /\ slot' = [slot EXCEPT ![h] = [s EXCEPT ![v] = "CLAIMED"]]
                     /\ child' = [child EXCEPT ![h] = Phase(h, v, "QUIESCING_SOURCE")]
  BY DEF ClaimHostEvacuationWorkload
<1>s. PICK s : s = ExpireSlots(h, expired)
  OBVIOUS
<1>o. PICK open : open = {v \in VMs : child[h][v].phase = "READY_TO_QUIESCE" /\ s[v] = "NONE"}
  OBVIOUS
<1>a. /\ UNCHANGED <<drain, evac>>
      /\ IF Cardinality(SlotsHeld(s)) >= MaxConcurrent \/ open = {}
         THEN slot' = [slot EXCEPT ![h] = s] /\ UNCHANGED child
         ELSE \E v \in open :
                /\ slot' = [slot EXCEPT ![h] = [s EXCEPT ![v] = "CLAIMED"]]
                /\ child' = [child EXCEPT ![h] = Phase(h, v, "QUIESCING_SOURCE")]
  BY <1>e, <1>s, <1>o
<1>1. /\ slot \in [VMHosts -> [VMs -> SlotStates]] /\ child \in [VMHosts -> [VMs -> ChildRow]]
      /\ child[h] \in [VMs -> ChildRow]
  BY DEF EvacTablesOK
<1>2. s \in [VMs -> SlotStates] /\ \A v \in VMs : s[v] # "NONE" => slot[h][v] # "NONE"
  BY <1>s, ExpiredSlots
<1>3. ASSUME NEW v \in VMs PROVE Fits(h, v, child[h][v], s[v])
  <2>1. Fits(h, v, child[h][v], slot[h][v])
    BY SameFits
  <2>2. s[v] \in SlotStates /\ (s[v] # "NONE" => slot[h][v] # "NONE")
    BY <1>2
  <2>3. QED
    BY <2>1, <2>2 DEF Fits
<1>4. CASE Cardinality(SlotsHeld(s)) >= MaxConcurrent \/ open = {}
  <2>1. slot' = [slot EXCEPT ![h] = s] /\ child' = [child EXCEPT ![h] = child[h]]
    BY <1>1, <1>4, <1>a
  <2>2. \A g \in VMHosts, v \in VMs : slot'[g][v] # "NONE" => slot[g][v] # "NONE"
    BY <1>1, <1>2, <2>1
  <2>3. SlotsMove
    BY <2>2, SlotsShrink
  <2>4. ChildrenMove /\ \A w \in VMs : ChildKept(w)
    BY <1>1, <1>2, <1>3, <2>1, <2>3, OperationReplaced
  <2>5. QED
    BY <1>a, <2>4 DEF EvacMove, EvacTablesOK, ChildrenMove
<1>5. CASE ~(Cardinality(SlotsHeld(s)) >= MaxConcurrent \/ open = {})
  <2>1. PICK v \in open : /\ slot' = [slot EXCEPT ![h] = [s EXCEPT ![v] = "CLAIMED"]]
                          /\ child' = [child EXCEPT ![h] = Phase(h, v, "QUIESCING_SOURCE")]
    BY <1>5, <1>a
  <2>2. v \in VMs /\ child[h][v].phase = "READY_TO_QUIESCE"
    BY <1>o, <2>1
  <2>p. PICK p : p = "QUIESCING_SOURCE"
    OBVIOUS
  <2>r. PICK r : r = [child[h][v] EXCEPT !.phase = p]
    OBVIOUS
  <2>b. PICK c : c = [child[h] EXCEPT ![v] = r]
    OBVIOUS
  <2>c. PICK t : t = [s EXCEPT ![v] = "CLAIMED"]
    OBVIOUS
  <2>3. child' = [child EXCEPT ![h] = c] /\ slot' = [slot EXCEPT ![h] = t]
    BY <1>1, <2>1, <2>2, <2>p, <2>r, <2>b, <2>c DEF Phase
  <2>4. child[h][v] \in ChildRow /\ p \in Phases /\ "CLAIMED" \in SlotStates
    BY <1>1, <2>2, <2>p DEF Phases, SlotStates
  <2>5. /\ r \in ChildRow /\ r.phase = p /\ r.released = child[h][v].released
        /\ r.dest = child[h][v].dest
        /\ r.retiring = child[h][v].retiring /\ r.retired = child[h][v].retired
    BY <2>4, <2>r, PhaseSet
  <2>6. Fits(h, v, r, "CLAIMED")
    BY <1>3, <2>2, <2>4, <2>5, <2>p DEF Fits
  <2>7. c \in [VMs -> ChildRow] /\ t \in [VMs -> SlotStates]
    BY <1>1, <1>2, <2>4, <2>5, <2>b, <2>c, Updated
  <2>8. /\ c[v] = r /\ t[v] = "CLAIMED"
        /\ \A w \in VMs : w # v => c[w] = child[h][w] /\ t[w] = s[w]
    BY <1>1, <1>2, <2>2, <2>b, <2>c
  <2>9. ASSUME NEW w \in VMs PROVE Fits(h, w, c[w], t[w]) /\ (c[w].released => child[h][w].released)
    <3>1. CASE w = v
      BY <2>5, <2>6, <2>8, <3>1
    <3>2. CASE w # v
      BY <1>3, <2>8, <3>2
    <3>3. QED
      BY <3>1, <3>2
  <2>10. SlotsMove
    BY <1>1, <1>2, <1>5, <2>1, <2>2, SlotClaimed
  <2>11. ChildrenMove /\ \A w \in VMs : ChildKept(w)
    BY <2>3, <2>7, <2>9, <2>10, OperationReplaced
  <2>12. QED
    BY <1>a, <2>11 DEF EvacMove, EvacTablesOK, ChildrenMove
<1>6. QED
  BY <1>4, <1>5

-----------------------------------------------------------------------------
\* The inductive invariant of the runtime and evacuation tables.
WorkloadInv ==
  /\ RuntimeTypeOK /\ EvacTablesOK /\ ChildrenHeld
  /\ \A v \in VMs : RuntimeInv(v) /\ ResourceInv(v)

\* What MovesWithItsClaim says of one VM.
HostMoves(v) ==
  machine[v].host # NoHost /\ machine'[v].host # machine[v].host =>
    /\ claims[v][machine[v].host] = "RELEASED"
    /\ machine'[v].host # NoHost /\ claims[v][machine'[v].host] = "RESERVED"

\* A step of the two lower layers.
WorkloadMove ==
  /\ WorkloadInv' /\ SlotsMove /\ VerifiedStays
  /\ \A v \in VMs : HostMoves(v)

LEMMA KeptMoves ==
  ASSUME WorkloadInv, RuntimeTypeOK', EvacMove,
         \A v \in VMs : RuntimeKept(v) /\ ChildKept(v) /\ ResourceKept(v)
  PROVE  WorkloadMove
<1>1. ASSUME NEW v \in VMs PROVE RuntimeInv(v)' /\ ResourceInv(v)' /\ HostMoves(v)
  <2>1. RuntimeInv(v) /\ ResourceInv(v) /\ RuntimeKept(v) /\ ChildKept(v) /\ ResourceKept(v)
    BY DEF WorkloadInv
  <2>2. RuntimeInv(v)'
    BY <2>1, RuntimeFrame
  <2>3. ResourceInv(v)'
    BY <2>1, ResourceFrame
  <2>4. machine'[v].host = machine[v].host
    BY <2>1 DEF RuntimeKept
  <2>5. QED
    BY <2>2, <2>3, <2>4 DEF HostMoves
<1>2. QED
  BY <1>1 DEF WorkloadMove, WorkloadInv, EvacMove

\* The releases of a VM whose claims are left alone stay.
LEMMA ClaimsStay ==
  ASSUME \A v \in VMs : claims'[v] = claims[v]
  PROVE  ReleasesStay
BY DEF ReleasesStay

LEMMA ResourcesStay ==
  ASSUME UNCHANGED resourceVars, NEW v
  PROVE  ResourceKept(v)
BY DEF ResourceKept, resourceVars

LEMMA RuntimeStays ==
  ASSUME RuntimeTypeOK, UNCHANGED runtimeVars
  PROVE  RuntimeTypeOK' /\ ReleasesStay /\ \A v \in VMs : RuntimeKept(v)
<1>1. /\ claims' = claims /\ attach' = attach /\ authority' = authority /\ machine' = machine
      /\ defined' = defined /\ ready' = ready /\ realized' = realized /\ dataplane' = dataplane
      /\ power' = power /\ commands' = commands /\ evidence' = evidence /\ domain' = domain
  BY DEF runtimeVars
<1>2. RuntimeTypeOK'
  BY <1>1 DEF RuntimeTypeOK
<1>3. ReleasesStay
  BY <1>1 DEF ReleasesStay
<1>4. \A v \in VMs : RuntimeKept(v)
  BY <1>1 DEF RuntimeKept, CheckedKept
<1>5. QED
  BY <1>2, <1>3, <1>4

LEMMA EvacStays ==
  ASSUME EvacTablesOK, ChildrenHeld, ReleasesStay, UNCHANGED evacVars
  PROVE  EvacMove /\ \A w \in VMs : ChildKept(w)
<1>1. UNCHANGED <<drain, evac, child, slot>>
  BY DEF evacVars
<1>2. ChildrenMove /\ \A w \in VMs : ChildKept(w)
  BY <1>1, ChildrenStay
<1>3. QED
  BY <1>1, <1>2 DEF EvacMove, EvacTablesOK, ChildrenMove

-----------------------------------------------------------------------------
(* Steps of the runtime, and of an evacuation that leave the runtime.       *)

LEMMA RuntimeStepMoves ==
  ASSUME WorkloadInv, RuntimeStep, UNCHANGED resourceVars
  PROVE  WorkloadMove
<1>1. \A w \in VMs : RestUnchanged(w)
  BY DEF RuntimeStep, RestUnchanged, resourceVars, evacVars
<1>2. RuntimeTypeOK' /\ \A w \in VMs : Carried(w)
  BY <1>1, RuntimeStepCarries DEF WorkloadInv
<1>3. ReleasesStay
  BY <1>2, ClaimsStay DEF Carried
<1>4. UNCHANGED evacVars
  BY DEF RuntimeStep
<1>5. EvacMove
  BY <1>3, <1>4, EvacStays DEF WorkloadInv
<1>6. QED
  BY <1>2, <1>5 DEF WorkloadMove, WorkloadInv, EvacMove, Carried, HostMoves

LEMMA EvacOnlyMoves ==
  ASSUME WorkloadInv, UNCHANGED runtimeVars, UNCHANGED resourceVars,
         ReleasesStay => EvacMove /\ \A w \in VMs : ChildKept(w)
  PROVE  WorkloadMove
<1>1. RuntimeTypeOK' /\ ReleasesStay /\ \A v \in VMs : RuntimeKept(v)
  BY RuntimeStays DEF WorkloadInv
<1>2. \A v \in VMs : ResourceKept(v)
  BY ResourcesStay
<1>3. QED
  BY <1>1, <1>2, KeptMoves

LEMMA OperationStepMoves ==
  ASSUME WorkloadInv, NEW h \in VMHosts, OperationStep(h), UNCHANGED resourceVars
  PROVE  WorkloadMove
<1>1. UNCHANGED runtimeVars
  BY DEF OperationStep, StartHostEvacuation, EvaluateHostEvacuationEligibility,
         ClaimHostEvacuationWorkload, ReconcileHostEvacuationSourceAuthority,
         FinalizeHostEvacuation, ReleaseHostPlacementDrain
<1>2. RuntimeTypeOK /\ EvacTablesOK /\ ChildrenHeld
  BY DEF WorkloadInv
<1>3. ASSUME ReleasesStay PROVE EvacMove /\ \A w \in VMs : ChildKept(w)
  <2>1. CASE StartHostEvacuation(h)
    BY <1>2, <1>3, <2>1, StartMoves
  <2>2. CASE EvaluateHostEvacuationEligibility(h)
    BY <1>2, <1>3, <2>2, EligibilityMoves
  <2>3. CASE ClaimHostEvacuationWorkload(h)
    BY <1>2, <1>3, <2>3, ClaimMoves
  <2>4. CASE ReconcileHostEvacuationSourceAuthority(h)
    BY <1>2, <1>3, <2>4, ReconcileMoves
  <2>5. CASE FinalizeHostEvacuation(h) \/ ReleaseHostPlacementDrain(h)
    BY <1>2, <1>3, <2>5, EndMoves
  <2>6. QED
    BY <2>1, <2>2, <2>3, <2>4, <2>5 DEF OperationStep
<1>4. QED
  BY <1>1, <1>3, EvacOnlyMoves
-----------------------------------------------------------------------------
(* Steps of an evacuation that write the runtime tables.                   *)

LEMMA ShutdownMoves ==
  ASSUME WorkloadInv, NEW h \in VMHosts, NEW v \in VMs, AuthorizeHostEvacuationSourceShutdown(h, v),
         UNCHANGED resourceVars
  PROVE  WorkloadMove
<1>1. /\ CreatePowerCommand(v, h, "SHUTOFF", power[v].gen + 1, "EVACUATION")
      /\ child' = [child EXCEPT ![h][v].shut = TRUE]
      /\ UNCHANGED <<claims, attach, authority, defined, ready, realized, dataplane, power, evidence, domain>>
      /\ UNCHANGED <<drain, evac, slot>>
  BY DEF AuthorizeHostEvacuationSourceShutdown
<1>2. RuntimeTypeOK /\ EvacTablesOK /\ ChildrenHeld
  BY DEF WorkloadInv
<1>3. ready[v] \in ReadyRow
  BY <1>2, RowsTyped
<1>4. RuntimeTypeOK' /\ \A w \in VMs : RuntimeKept(w)
  BY <1>1, <1>2, <1>3, CommandStep DEF Callers
<1>5. ReleasesStay
  BY <1>1 DEF ReleasesStay
<1>6. child[h][v] \in ChildRow
  BY <1>2, ChildTyped
<1>r. PICK r : r = [child[h][v] EXCEPT !.shut = TRUE]
  OBVIOUS
<1>7. SameCourse(child[h][v], r) /\ child' = [child EXCEPT ![h][v] = r]
  BY <1>1, <1>6, <1>r, EvidenceRecorded
<1>8. EvacMove /\ \A w \in VMs : ChildKept(w)
  BY <1>1, <1>2, <1>5, <1>7, EvidenceMoves
<1>9. QED
  BY <1>4, <1>8, KeptMoves, ResourcesStay

\* The invariants of every VM but one are kept by a frame.
LEMMA OthersKept ==
  ASSUME WorkloadInv, NEW v \in VMs, RuntimeTypeOK', EvacMove,
         \A w \in VMs : w # v => RuntimeKept(w) /\ ChildKept(w) /\ ResourceKept(w),
         RuntimeInv(v)', ResourceInv(v)', HostMoves(v)
  PROVE  WorkloadMove
<1>1. ASSUME NEW w \in VMs, w # v PROVE RuntimeInv(w)' /\ ResourceInv(w)' /\ HostMoves(w)
  <2>1. RuntimeInv(w) /\ ResourceInv(w) /\ RuntimeKept(w) /\ ChildKept(w) /\ ResourceKept(w)
    BY <1>1 DEF WorkloadInv
  <2>2. RuntimeInv(w)'
    BY <2>1, RuntimeFrame
  <2>3. ResourceInv(w)'
    BY <2>1, ResourceFrame
  <2>4. machine'[w].host = machine[w].host
    BY <2>1 DEF RuntimeKept
  <2>5. QED
    BY <2>2, <2>3, <2>4 DEF HostMoves
<1>2. \A w \in VMs : RuntimeInv(w)' /\ ResourceInv(w)' /\ HostMoves(w)
  BY <1>1
<1>3. QED
  BY <1>2 DEF WorkloadMove, WorkloadInv, EvacMove

LEMMA ReleasedSet ==
  ASSUME NEW c \in ChildRow
  PROVE  LET r == [c EXCEPT !.released = TRUE]
         IN r \in ChildRow /\ r.phase = c.phase /\ r.released /\ r.dest = c.dest
            /\ r.retiring = c.retiring /\ r.retired = c.retired
BY DEF ChildRow

LEMMA ReleaseMoves ==
  ASSUME WorkloadInv, NEW h \in VMHosts, NEW v \in VMs, ReleaseHostEvacuationSourcePlacement(h, v),
         UNCHANGED resourceVars
  PROVE  WorkloadMove
<1>1. /\ slot[h][v] = "CLAIMED" /\ child[h][v].phase = "SOURCE_QUIESCED" /\ claims[v][h] = "RESERVED"
      /\ claims' = [claims EXCEPT ![v][h] = "RELEASED"]
      /\ child' = [child EXCEPT ![h][v].released = TRUE]
      /\ UNCHANGED <<attach, authority, machine, defined, ready, realized, dataplane, power,
                     commands, evidence, domain>>
      /\ UNCHANGED <<drain, evac, slot>>
  BY DEF ReleaseHostEvacuationSourcePlacement, Quiesced, ClaimHeld
<1>2. /\ RuntimeTypeOK /\ EvacTablesOK /\ ChildrenHeld
      /\ RuntimeInv(v) /\ ResourceInv(v)
  BY DEF WorkloadInv
<1>3. claims \in [VMs -> [VMHosts -> ClaimStates]] /\ "RELEASED" \in ClaimStates
  BY <1>2 DEF RuntimeTypeOK, ClaimStates
<1>4. claims' \in [VMs -> [VMHosts -> ClaimStates]]
  BY <1>1, <1>3, UpdatedTwice
<1>5. /\ claims'[v][h] = "RELEASED" /\ \A g \in VMHosts : g # h => claims'[v][g] = claims[v][g]
      /\ \A w \in VMs : w # v => claims'[w] = claims[w]
  BY <1>1, <1>3
<1>6. RuntimeTypeOK'
  BY <1>1, <1>2, <1>4 DEF RuntimeTypeOK
<1>7. \A w \in VMs : CheckedKept(w) /\ (w # v => RuntimeKept(w))
  BY <1>1, <1>5 DEF RuntimeKept, CheckedKept
<1>8. ReleasesStay
  <2>1. ASSUME NEW g \in VMHosts, NEW w \in VMs, claims[w][g] = "RELEASED" PROVE claims'[w][g] = "RELEASED"
    BY <1>5, <2>1
  <2>2. QED
    BY <2>1 DEF ReleasesStay
<1>r. PICK r : r = [child[h][v] EXCEPT !.released = TRUE]
  OBVIOUS
<1>9. child[h][v] \in ChildRow /\ child' = [child EXCEPT ![h][v] = r]
  BY <1>1, <1>2, <1>r, ChildTyped
<1>10. /\ r \in ChildRow /\ r.phase = child[h][v].phase /\ r.released /\ r.dest = child[h][v].dest
       /\ r.retiring = child[h][v].retiring /\ r.retired = child[h][v].retired
  BY <1>9, <1>r, ReleasedSet
<1>11. Fits(h, v, child[h][v], slot[h][v])
  BY <1>2, <1>8, SameFits
<1>12. Fits(h, v, r, slot[h][v])
  BY <1>5, <1>10, <1>11 DEF Fits
<1>13. ChildrenMove
  BY <1>1, <1>2, <1>8, <1>9, <1>12, ChildUpdated
<1>14. EvacMove
  BY <1>1, <1>2, <1>13 DEF EvacMove, EvacTablesOK, ChildrenMove
<1>15. child \in [VMHosts -> [VMs -> ChildRow]]
  BY <1>2 DEF EvacTablesOK
<1>16. \A g \in VMHosts, w \in VMs : w # v => child'[g][w] = child[g][w]
  BY <1>9, <1>15
<1>17. \A w \in VMs : w # v => ChildKept(w)
  BY <1>16 DEF ChildKept
<1>18. \A g \in VMHosts : child'[g][v].phase = child[g][v].phase /\ (child'[g][v].released => child[g][v].released \/ g = h)
  <2>1. child'[h][v] = r
    BY <1>9, <1>15
  <2>2. ASSUME NEW g \in VMHosts, g # h PROVE child'[g][v] = child[g][v]
    BY <1>9, <1>15, <2>2
  <2>3. QED
    BY <1>10, <2>1, <2>2
<1>19. \A w \in VMs : ResourceKept(w)
  BY ResourcesStay
<1>20. \A g \in VMHosts : claims'[v][g] = claims[v][g] \/ claims'[v][g] = "RELEASED"
  BY <1>5
<1>21. machine[v].life # "NONE"
  BY <1>1, <1>2 DEF RuntimeInv, Unborn
<1>22. RuntimeInv(v)'
  <2>1. Unborn(v)'
    BY <1>1, <1>21 DEF Unborn
  <2>2. Born(v)'
    BY <1>1, <1>2 DEF RuntimeInv, Born
  <2>3. ASSUME machine[v].plan = 1 PROVE AtHome(v)'
    <3>1. machine[v].host = h /\ AtHome(v)
      BY <1>1, <1>2, <2>3 DEF RuntimeInv, AtHome
    <3>2. /\ \A g \in VMHosts : g # h => domain[v][g] = NoDomain /\ child[g][v].phase = "NONE"
          /\ ready[v].boot # "NONE" => defined[v] # 0
          /\ power[v].state # "NONE" => power[v].host = h /\ defined[v] # 0
      BY <2>3, <3>1 DEF AtHome
    <3>3. \A g \in VMHosts : g # h => domain'[v][g] = NoDomain /\ child'[g][v].phase = "NONE"
      BY <1>1, <1>18, <3>2
    <3>4. machine'[v].host = h /\ claims'[v][h] = "RELEASED"
      BY <1>1, <1>5, <3>1
    <3>5. QED
      BY <1>1, <3>2, <3>3, <3>4 DEF AtHome
  <2>4. AtHome(v)'
    BY <1>1, <2>3 DEF AtHome
  <2>5. CheckedHere(v)'
    BY <1>1, <1>2, <1>7, CheckedFrame
  <2>6. QED
    BY <2>1, <2>2, <2>4, <2>5 DEF RuntimeInv
<1>23. UNCHANGED <<resource, op, binding>>
  BY DEF resourceVars
<1>24. ResourceInv(v)'
  <2>1. OpBound(v)'
    BY <1>2, <1>23 DEF ResourceInv, OpBound
  <2>2. BoundHome(v)'
    BY <1>1, <1>2, <1>20, <1>23 DEF ResourceInv, BoundHome
  <2>3. Deleting(v)'
    <3>1. ASSUME op[v].kind = "DELETE", op[v].state # "VERIFIED" PROVE Deleting(v)'
      <4>1. op[v].host \in VMHosts /\ Deleting(v)
        BY <1>2, <3>1, DeletingBound DEF ResourceInv
      <4>2. claims'[v][op[v].host] = "RESERVED" => claims[v][op[v].host] = "RESERVED"
        BY <1>20, <4>1
      <4>3. QED
        BY <1>1, <1>23, <4>1, <4>2 DEF Deleting
    <3>2. QED
      BY <1>23, <3>1 DEF Deleting
  <2>4. resource[v].life # "DELETED"
    BY <1>1, <1>2 DEF ResourceInv, Gone
  <2>5. Gone(v)'
    BY <1>23, <2>4 DEF Gone
  <2>6. QED
    BY <2>1, <2>2, <2>3, <2>5 DEF ResourceInv
<1>25. HostMoves(v)
  BY <1>1 DEF HostMoves
<1>26. QED
  BY <1>6, <1>7, <1>14, <1>17, <1>19, <1>22, <1>24, <1>25, OthersKept
\* A machine of the first plan has a host, which has admitted it.
LEMMA HomeAdmitted ==
  ASSUME NEW v \in VMs, RuntimeInv(v), machine[v].plan = 1
  PROVE  machine[v].host \in VMHosts /\ claims[v][machine[v].host] # "NONE"
<1>1. machine[v].life # "NONE"
  <2>1. machine[v].life = "NONE" => machine[v].plan = 0
    BY DEF RuntimeInv, Unborn
  <2>2. 0 # 1
    BY SMTT(30)
  <2>3. QED
    BY <2>1, <2>2
<1>2. QED
  BY <1>1 DEF RuntimeInv, Born, AtHome

LEMMA AdmitMoves ==
  ASSUME WorkloadInv, NEW v \in VMs, NEW h \in VMHosts, AdmitPlacement(v, h), UNCHANGED resourceVars
  PROVE  WorkloadMove
<1>1. /\ \/ \A g \in VMHosts : claims[v][g] = "NONE"
         \/ \E g \in VMHosts : child[g][v].phase = "SOURCE_QUIESCED" /\ child[g][v].released
      /\ AdmitVM(v, h) /\ UNCHANGED evacVars
  BY DEF AdmitPlacement, BuildHostEvacuationDestinationPlacementRequest
<1>2. /\ RuntimeTypeOK /\ EvacTablesOK /\ ChildrenHeld
      /\ RuntimeInv(v) /\ ResourceInv(v)
  BY DEF WorkloadInv
<1>3. claims[v][h] = "NONE"
  BY <1>1 DEF AdmitVM
<1>4. /\ RuntimeTypeOK'
      /\ \A w \in VMs : CheckedKept(w) /\ (w # v => RuntimeKept(w))
      /\ \A g \in VMHosts : /\ claims'[v][g] = IF g = h THEN "RESERVED" ELSE claims[v][g]
                            /\ attach'[v][g] = IF g = h THEN "RESERVED" ELSE attach[v][g]
      /\ UNCHANGED <<machine, defined, ready, power, domain>>
  BY <1>1, <1>2, AdmitStep
<1>5. ReleasesStay
  <2>1. ASSUME NEW g \in VMHosts, NEW w \in VMs, claims[w][g] = "RELEASED" PROVE claims'[w][g] = "RELEASED"
    <3>1. CASE w # v
      BY <1>4, <2>1, <3>1 DEF RuntimeKept
    <3>2. CASE w = v
      BY <1>3, <1>4, <2>1, <3>2
    <3>3. QED
      BY <3>1, <3>2
  <2>2. QED
    BY <2>1 DEF ReleasesStay
<1>6. EvacMove /\ \A w \in VMs : ChildKept(w)
  BY <1>1, <1>2, <1>5, EvacStays
<1>7. \A w \in VMs : ResourceKept(w)
  BY ResourcesStay
<1>8. UNCHANGED <<resource, op, binding, child>>
  BY <1>1 DEF resourceVars, evacVars
\* Where the VM was admitted before, or why it was not.
<1>9. \/ \A g \in VMHosts : claims[v][g] = "NONE"
      \/ /\ machine[v].life # "NONE" /\ resource[v].life # "DELETED"
         /\ machine[v].plan = 1 => claims[v][machine[v].host] = "RELEASED"
  <2>1. ASSUME NEW g \in VMHosts, child[g][v].phase = "SOURCE_QUIESCED", child[g][v].released
        PROVE  /\ machine[v].life # "NONE" /\ resource[v].life # "DELETED"
               /\ machine[v].plan = 1 => claims[v][machine[v].host] = "RELEASED"
    <3>1. machine[v].life # "NONE"
      BY <1>2, <2>1 DEF RuntimeInv, Unborn
    <3>2. resource[v].life # "DELETED"
      BY <1>2, <2>1 DEF ResourceInv, Gone
    <3>3. claims[v][g] = "RELEASED"
      BY <1>2, <2>1 DEF ChildrenHeld, ChildHeld
    <3>4. machine[v].plan = 1 => machine[v].host = g
      BY <1>2, <2>1 DEF RuntimeInv, AtHome
    <3>5. QED
      BY <3>1, <3>2, <3>3, <3>4
  <2>2. QED
    BY <1>1, <2>1
<1>10. machine[v].plan = 1 => machine[v].host \in VMHosts /\ claims[v][machine[v].host] = "RELEASED"
  BY <1>2, <1>9, HomeAdmitted
<1>11. RuntimeInv(v)'
  <2>1. Unborn(v)'
    <3>1. ASSUME machine[v].life = "NONE" PROVE Unborn(v)'
      <4>1. \A g \in VMHosts : claims[v][g] = "NONE"
        BY <1>9, <3>1
      <4>2. \A g \in VMHosts : claims'[v][g] = IF g = h THEN "RESERVED" ELSE "NONE"
        BY <1>4, <4>1
      <4>3. Unborn(v)
        BY <1>2 DEF RuntimeInv
      <4>4. QED
        BY <1>4, <1>8, <3>1, <4>2, <4>3 DEF Unborn
    <3>2. QED
      BY <1>4, <3>1 DEF Unborn
  <2>2. Born(v)'
    BY <1>2, <1>4 DEF RuntimeInv, Born
  <2>3. ASSUME machine[v].plan = 1 PROVE AtHome(v)'
    <3>1. claims'[v][machine[v].host] = "RELEASED"
      BY <1>3, <1>4, <1>10, <2>3
    <3>2. AtHome(v)
      BY <1>2 DEF RuntimeInv
    <3>3. QED
      BY <1>4, <1>8, <2>3, <3>1, <3>2 DEF AtHome
  <2>4. AtHome(v)'
    BY <1>4, <2>3 DEF AtHome
  <2>5. CheckedHere(v)'
    BY <1>2, <1>4, CheckedFrame
  <2>6. QED
    BY <2>1, <2>2, <2>4, <2>5 DEF RuntimeInv
<1>12. \A g \in VMHosts : claims[v][g] # "NONE" => claims'[v][g] = claims[v][g]
  BY <1>3, <1>4
<1>13. ResourceInv(v)'
  <2>1. OpBound(v)'
    BY <1>2, <1>8 DEF ResourceInv, OpBound
  <2>2. BoundHome(v)'
    BY <1>2, <1>4, <1>8, <1>12 DEF ResourceInv, BoundHome
  <2>3. Deleting(v)'
    <3>1. ASSUME op[v].kind = "DELETE", op[v].state # "VERIFIED" PROVE Deleting(v)'
      <4>1. op[v].host \in VMHosts /\ Deleting(v) /\ binding[v].plan = 1 /\ op[v].host = binding[v].host
        BY <1>2, <3>1, DeletingBound DEF ResourceInv
      <4>2. resource[v].life = "RETIRE_PENDING"
        BY <1>2, <3>1 DEF ResourceInv, OpBound
      <4>3. claims[v][op[v].host] # "NONE"
        BY <1>2, <4>1, <4>2 DEF ResourceInv, BoundHome
      <4>4. claims'[v][op[v].host] = claims[v][op[v].host]
        BY <1>12, <4>1, <4>3
      <4>5. QED
        BY <1>4, <1>8, <4>1, <4>4 DEF Deleting
    <3>2. QED
      BY <1>8, <3>1 DEF Deleting
  <2>4. resource[v].life # "DELETED"
    BY <1>2, <1>9 DEF ResourceInv, Gone
  <2>5. Gone(v)'
    BY <1>8, <2>4 DEF Gone
  <2>6. QED
    BY <2>1, <2>2, <2>3, <2>5 DEF ResourceInv
<1>14. HostMoves(v)
  BY <1>4 DEF HostMoves
<1>15. QED
  BY <1>4, <1>6, <1>7, <1>11, <1>13, <1>14, OthersKept

LEMMA MaterializeMoves ==
  ASSUME WorkloadInv, NEW v \in VMs, NEW h \in VMHosts, MaterializeRelocation(h, v), UNCHANGED resourceVars
  PROVE  WorkloadMove
<1>1. /\ child[h][v].dest # NoHost /\ child[h][v].phase = "SOURCE_QUIESCED" /\ machine[v].host = h
      /\ RelocateMachine(v, child[h][v].dest) /\ UNCHANGED evacVars
  BY DEF MaterializeRelocation, OnSourcePlan
<1>2. /\ RuntimeTypeOK /\ EvacTablesOK /\ ChildrenHeld
      /\ RuntimeInv(v) /\ ResourceInv(v)
  BY DEF WorkloadInv
<1>3. child[h][v].released /\ claims[v][h] = "RELEASED"
  BY <1>1, <1>2 DEF ChildrenHeld, ChildHeld
<1>d. PICK d : d = child[h][v].dest
  OBVIOUS
<1>4. d \in VMHosts
  BY <1>1, <1>2, <1>d, ChildTyped, ChildFields
<1>5. /\ RuntimeTypeOK'
      /\ \A w \in VMs : CheckedKept(w) /\ (w # v => RuntimeKept(w))
      /\ machine'[v].life = "PENDING" /\ machine'[v].host = d /\ machine'[v].plan = machine[v].plan + 1
      /\ claims[v][d] = "RESERVED"
      /\ UNCHANGED <<claims, attach, ready, power, domain>>
  BY <1>1, <1>2, <1>4, <1>d, RelocateStepRows
<1>6. ReleasesStay
  BY <1>5 DEF ReleasesStay
<1>7. EvacMove /\ \A w \in VMs : ChildKept(w)
  BY <1>1, <1>2, <1>6, EvacStays
<1>8. \A w \in VMs : ResourceKept(w)
  BY ResourcesStay
<1>9. UNCHANGED <<resource, op, binding, child>>
  BY <1>1 DEF resourceVars, evacVars
<1>10. machine[v].plan \in Nat /\ machine[v].plan # 0
  BY <1>1, <1>2, OnHostBorn, RowsTyped, MachineFields
<1>11. machine[v].plan + 1 # 0 /\ machine[v].plan + 1 # 1
  BY <1>10, SMTT(30)
<1>12. RuntimeInv(v)'
  <2>1. Unborn(v)' /\ Born(v)' /\ AtHome(v)'
    BY <1>4, <1>5, <1>11 DEF Unborn, Born, AtHome
  <2>2. CheckedHere(v)'
    BY <1>2, <1>5, <1>11, CheckedFrame
  <2>3. QED
    BY <2>1, <2>2 DEF RuntimeInv
<1>13. ResourceInv(v)'
  <2>1. OpBound(v)'
    BY <1>2, <1>9 DEF ResourceInv, OpBound
  <2>2. BoundHome(v)'
    <3>1. BoundHome(v)
      BY <1>2 DEF ResourceInv
    <3>2. ASSUME resource[v].life \in {"ACTIVE", "RETIRE_PENDING"}, binding[v].plan = 1
          PROVE  claims[v][binding[v].host] # "RESERVED"
      BY <1>1, <1>3, <3>1, <3>2 DEF BoundHome
    <3>3. QED
      BY <1>5, <1>9, <3>1, <3>2 DEF BoundHome
  <2>3. Deleting(v)'
    BY <1>2, <1>5, <1>9 DEF ResourceInv, Deleting
  <2>4. resource[v].life # "DELETED"
    BY <1>2, <1>3 DEF ResourceInv, Gone
  <2>5. Gone(v)'
    BY <1>9, <2>4 DEF Gone
  <2>6. QED
    BY <2>1, <2>2, <2>3, <2>5 DEF ResourceInv
<1>14. HostMoves(v)
  BY <1>1, <1>3, <1>4, <1>5, NoHostIsNone DEF HostMoves
<1>15. QED
  BY <1>5, <1>7, <1>8, <1>12, <1>13, <1>14, OthersKept

LEMMA ChildStepMoves ==
  ASSUME WorkloadInv, NEW h \in VMHosts, NEW v \in VMs, ChildStep(h, v), UNCHANGED resourceVars
  PROVE  WorkloadMove
<1>1. RuntimeTypeOK /\ EvacTablesOK /\ ChildrenHeld
  BY DEF WorkloadInv
<1>2. CASE \/ BlockHostEvacuationChild(h, v) \/ CancelHostEvacuationChild(h, v)
           \/ RecordPlannedSourceQuiescence(h, v) \/ CompleteHostEvacuationChild(h, v)
  <2>1. UNCHANGED runtimeVars
    BY <1>2 DEF BlockHostEvacuationChild, CancelHostEvacuationChild, RecordPlannedSourceQuiescence,
                CompleteHostEvacuationChild
  <2>2. ASSUME ReleasesStay PROVE EvacMove /\ \A w \in VMs : ChildKept(w)
    BY <1>1, <1>2, <2>2, CourseMoves
  <2>3. QED
    BY <2>1, <2>2, EvacOnlyMoves
<1>3. CASE EvidenceStep(h, v)
  <2>1. UNCHANGED runtimeVars
    BY <1>3 DEF EvidenceStep, AcceptPlannedSourceVolumeSafetyObservation,
                EvaluateHostEvacuationSourceStorageSafety, EvaluateHostEvacuationSourceStorageSafetySet,
                PrepareLocalLVMRelocationCopy, VerifyLocalLVMRelocationCopy,
                EvaluateHostEvacuationChildEvidence
  <2>2. ASSUME ReleasesStay PROVE EvacMove /\ \A w \in VMs : ChildKept(w)
    BY <1>1, <1>3, <2>2, EvidenceStepMoves
  <2>3. QED
    BY <2>1, <2>2, EvacOnlyMoves
<1>4. ASSUME NEW p \in PortsOf[v], \/ AuthorizeHostEvacuationNetworkPortRetirement(h, v, p)
                                   \/ AcceptHostEvacuationNetworkPortSourceQuiescence(h, v, p)
      PROVE  WorkloadMove
  <2>1. UNCHANGED runtimeVars
    BY <1>4 DEF AuthorizeHostEvacuationNetworkPortRetirement, AcceptHostEvacuationNetworkPortSourceQuiescence
  <2>2. ASSUME ReleasesStay PROVE EvacMove /\ \A w \in VMs : ChildKept(w)
    BY <1>1, <1>4, <2>2, RetirementMoves
  <2>3. QED
    BY <2>1, <2>2, EvacOnlyMoves
<1>5. ASSUME NEW g \in VMHosts, AuthorizeHostEvacuationRelocation(h, v, g) PROVE WorkloadMove
  <2>1. UNCHANGED runtimeVars
    BY <1>5 DEF AuthorizeHostEvacuationRelocation
  <2>2. ASSUME ReleasesStay PROVE EvacMove /\ \A w \in VMs : ChildKept(w)
    BY <1>1, <1>5, <2>2, RelocationMoves
  <2>3. QED
    BY <2>1, <2>2, EvacOnlyMoves
<1>6. CASE AuthorizeHostEvacuationSourceShutdown(h, v)
  BY <1>6, ShutdownMoves
<1>7. CASE ReleaseHostEvacuationSourcePlacement(h, v)
  BY <1>7, ReleaseMoves
<1>8. CASE MaterializeRelocation(h, v)
  BY <1>8, MaterializeMoves
<1>9. QED
  BY <1>2, <1>3, <1>4, <1>5, <1>6, <1>7, <1>8 DEF ChildStep, EvidenceStep

LEMMA UnderAggregateMoves ==
  ASSUME WorkloadInv, UnderAggregate, UNCHANGED resourceVars
  PROVE  WorkloadMove
BY RuntimeStepMoves, AdmitMoves, OperationStepMoves, ChildStepMoves DEF UnderAggregate
-----------------------------------------------------------------------------
(* The tables of the VM resource.                                          *)

OpFits(v, o) ==
  /\ o \in OpRow
  /\ o.detached \subseteq o.asked /\ o.asked \subseteq VolumesOf[v]
  /\ o.absent \subseteq o.retiring /\ o.retiring \subseteq PortsOf[v]

ResourceTablesOK ==
  /\ resource \in [VMs -> ResourceRow] /\ binding \in [VMs -> BindingRow] /\ op \in [VMs -> OpRow]
  /\ \A v \in VMs : OpFits(v, op[v])

\* What ConvergedAsObserved says of one VM.
Converges(v) ==
  op[v].state # "VERIFIED" /\ op'[v].state = "VERIFIED" /\ op[v].kind # "DELETE"
    => power'[v].state = resource'[v].power /\ power'[v].host = binding'[v].host

AggregateInv == WorkloadInv /\ ResourceTablesOK

AggregateMove ==
  /\ WorkloadMove /\ ResourceTablesOK'
  /\ \A v \in VMs : Converges(v)

LEMMA TablesTyped ==
  ASSUME ResourceTablesOK, NEW v \in VMs
  PROVE  resource[v] \in ResourceRow /\ binding[v] \in BindingRow /\ op[v] \in OpRow /\ OpFits(v, op[v])
BY DEF ResourceTablesOK

\* The rows of one VM are written.
LEMMA TablesWritten ==
  ASSUME ResourceTablesOK, NEW v \in VMs, NEW r \in ResourceRow, NEW o, OpFits(v, o), NEW b \in BindingRow,
         resource' = [resource EXCEPT ![v] = r], op' = [op EXCEPT ![v] = o],
         binding' = [binding EXCEPT ![v] = b]
  PROVE  /\ ResourceTablesOK' /\ resource'[v] = r /\ op'[v] = o /\ binding'[v] = b
         /\ \A w \in VMs : w # v => ResourceKept(w) /\ Converges(w)
<1>1. resource \in [VMs -> ResourceRow] /\ binding \in [VMs -> BindingRow] /\ op \in [VMs -> OpRow]
  BY DEF ResourceTablesOK
<1>2. o \in OpRow
  BY DEF OpFits
<1>3. resource' \in [VMs -> ResourceRow] /\ binding' \in [VMs -> BindingRow] /\ op' \in [VMs -> OpRow]
  BY <1>1, <1>2, Updated
<1>4. resource'[v] = r /\ op'[v] = o /\ binding'[v] = b
  BY <1>1
<1>5. ASSUME NEW w \in VMs, w # v
      PROVE  resource'[w] = resource[w] /\ op'[w] = op[w] /\ binding'[w] = binding[w]
  BY <1>1, <1>5
<1>6. ASSUME NEW w \in VMs PROVE OpFits(w, op[w])'
  <2>1. CASE w = v
    BY <1>4, <2>1 DEF OpFits
  <2>2. CASE w # v
    BY <1>5, <2>2 DEF OpFits, ResourceTablesOK
  <2>3. QED
    BY <2>1, <2>2
<1>7. ResourceTablesOK'
  BY <1>3, <1>6 DEF ResourceTablesOK
<1>8. \A w \in VMs : w # v => ResourceKept(w) /\ Converges(w)
  BY <1>5 DEF ResourceKept, Converges
<1>9. QED
  BY <1>4, <1>7, <1>8

LEMMA OpWritten ==
  ASSUME ResourceTablesOK, NEW v \in VMs, NEW o, OpFits(v, o), op' = [op EXCEPT ![v] = o],
         UNCHANGED <<resource, binding>>
  PROVE  /\ ResourceTablesOK' /\ op'[v] = o
         /\ \A w \in VMs : w # v => ResourceKept(w) /\ Converges(w)
<1>1. resource \in [VMs -> ResourceRow] /\ binding \in [VMs -> BindingRow]
  BY DEF ResourceTablesOK
<1>2. resource' = [resource EXCEPT ![v] = resource[v]] /\ binding' = [binding EXCEPT ![v] = binding[v]]
  BY <1>1
<1>3. resource[v] \in ResourceRow /\ binding[v] \in BindingRow
  BY <1>1
<1>4. QED
  BY <1>2, <1>3, TablesWritten

LEMMA EvacuationStays ==
  ASSUME WorkloadInv, UNCHANGED evacuationVars
  PROVE  /\ RuntimeTypeOK' /\ EvacMove
         /\ \A w \in VMs : RuntimeKept(w) /\ ChildKept(w) /\ RuntimeInv(w)' /\ HostMoves(w)
<1>1. UNCHANGED runtimeVars /\ UNCHANGED evacVars
  BY DEF evacuationVars
<1>2. RuntimeTypeOK /\ EvacTablesOK /\ ChildrenHeld
  BY DEF WorkloadInv
<1>3. RuntimeTypeOK' /\ ReleasesStay /\ \A v \in VMs : RuntimeKept(v)
  BY <1>1, <1>2, RuntimeStays
<1>4. EvacMove /\ \A w \in VMs : ChildKept(w)
  BY <1>1, <1>2, <1>3, EvacStays
<1>5. \A w \in VMs : RuntimeInv(w)'
  BY <1>3, <1>4, RuntimeFrame DEF WorkloadInv
<1>6. \A w \in VMs : HostMoves(w)
  BY <1>3 DEF HostMoves, RuntimeKept
<1>7. QED
  BY <1>3, <1>4, <1>5, <1>6

\* A step that writes the rows of one resource and nothing below.
LEMMA ResourceMoves ==
  ASSUME WorkloadInv, UNCHANGED evacuationVars, NEW v \in VMs, ResourceTablesOK',
         \A w \in VMs : w # v => ResourceKept(w) /\ Converges(w),
         ResourceInv(v)', Converges(v)
  PROVE  AggregateMove
<1>1. /\ RuntimeTypeOK' /\ EvacMove
      /\ \A w \in VMs : RuntimeKept(w) /\ ChildKept(w) /\ RuntimeInv(w)' /\ HostMoves(w)
  BY EvacuationStays
<1>2. RuntimeInv(v)' /\ HostMoves(v)
  BY <1>1
<1>3. WorkloadMove
  BY <1>1, <1>2, OthersKept
<1>4. QED
  BY <1>3 DEF AggregateMove

\* The same, when what the invariant reads of the resource is not written.
LEMMA SameCourseMoves ==
  ASSUME WorkloadInv, UNCHANGED evacuationVars, NEW v \in VMs, ResourceTablesOK',
         \A w \in VMs : w # v => ResourceKept(w) /\ Converges(w),
         ResourceKept(v)
  PROVE  AggregateMove
<1>1. /\ RuntimeTypeOK' /\ EvacMove
      /\ \A w \in VMs : RuntimeKept(w) /\ ChildKept(w) /\ RuntimeInv(w)' /\ HostMoves(w)
  BY EvacuationStays
<1>2. \A w \in VMs : ResourceKept(w)
  OBVIOUS
<1>3. WorkloadMove
  BY <1>1, <1>2, KeptMoves
<1>4. Converges(v)
  BY DEF Converges, ResourceKept
<1>5. QED
  BY <1>3, <1>4 DEF AggregateMove

\* Rows of an operation with one or a few columns written.
LEMMA ClaimSet ==
  ASSUME NEW o \in OpRow, NEW c \in BOOLEAN
  PROVE  LET q == [o EXCEPT !.claimed = c]
         IN /\ q \in OpRow /\ q.kind = o.kind /\ q.state = o.state /\ q.host = o.host /\ q.plan = o.plan
            /\ q.verdict = o.verdict /\ q.domain = o.domain
            /\ q.asked = o.asked /\ q.detached = o.detached /\ q.retiring = o.retiring /\ q.absent = o.absent
BY DEF OpRow

LEMMA ClaimStepMoves ==
  ASSUME AggregateInv, NEW v \in VMs, ClaimVMAggregateLifecycle(v) \/ LapseClaim(v)
  PROVE  AggregateMove
<1>1. PICK c \in BOOLEAN : op' = [op EXCEPT ![v].claimed = c]
  BY DEF ClaimVMAggregateLifecycle, LapseClaim
<1>2. UNCHANGED evacuationVars /\ UNCHANGED <<resource, binding>>
  BY DEF ClaimVMAggregateLifecycle, LapseClaim
<1>3. WorkloadInv /\ ResourceTablesOK
  BY DEF AggregateInv
<1>4. op[v] \in OpRow /\ OpFits(v, op[v])
  BY <1>3, TablesTyped
<1>q. PICK q : q = [op[v] EXCEPT !.claimed = c]
  OBVIOUS
<1>5. /\ q \in OpRow /\ q.kind = op[v].kind /\ q.state = op[v].state /\ q.host = op[v].host
      /\ q.plan = op[v].plan /\ q.verdict = op[v].verdict /\ q.domain = op[v].domain
      /\ q.asked = op[v].asked /\ q.detached = op[v].detached
      /\ q.retiring = op[v].retiring /\ q.absent = op[v].absent
  BY <1>4, <1>q, ClaimSet
<1>6. OpFits(v, q)
  BY <1>4, <1>5 DEF OpFits
<1>7. op' = [op EXCEPT ![v] = q]
  BY <1>1, <1>q
<1>8. /\ ResourceTablesOK' /\ op'[v] = q
      /\ \A w \in VMs : w # v => ResourceKept(w) /\ Converges(w)
  BY <1>2, <1>3, <1>6, <1>7, OpWritten
<1>9. ResourceKept(v)
  BY <1>2, <1>5, <1>8 DEF ResourceKept
<1>10. QED
  BY <1>2, <1>3, <1>8, <1>9, SameCourseMoves
-----------------------------------------------------------------------------
(* Create.                                                                 *)

\* A new operation.
LEMMA Opened ==
  ASSUME NEW v \in VMs, NEW k \in {"CREATE", "POWER"}
  PROVE  LET q == [NoOp EXCEPT !.kind = k, !.state = "PENDING"]
         IN /\ OpFits(v, q) /\ q.kind = k /\ q.state = "PENDING" /\ q.plan = 0
            /\ q.verdict = NoVerdict /\ q.domain = "NONE"
<1>a. PICK q : q = [NoOp EXCEPT !.kind = k, !.state = "PENDING"]
  OBVIOUS
<1>1. NoVerdict \in VerdictRow
  BY DEF NoVerdict, VerdictRow
<1>2. /\ q.kind = k /\ q.state = "PENDING" /\ q.plan = 0
      /\ q.verdict = NoVerdict /\ q.domain = "NONE" /\ q.asked = {} /\ q.detached = {}
      /\ q.retiring = {} /\ q.absent = {}
  BY <1>a DEF NoOp
<1>3. q \in OpRow
  BY <1>1, <1>a DEF NoOp, OpRow
<1>4. OpFits(v, q)
  BY <1>2, <1>3 DEF OpFits
<1>5. QED
  BY <1>a, <1>2, <1>4

LEMMA CreateMoves ==
  ASSUME AggregateInv, NEW v \in VMs, CreateVMAggregate(v)
  PROVE  AggregateMove
<1>r. PICK r : r = [NoResource EXCEPT !.life = "CREATING", !.rev = 1, !.intent = 1]
  OBVIOUS
<1>k. PICK k : k = "CREATE"
  OBVIOUS
<1>q. PICK q : q = [NoOp EXCEPT !.kind = k, !.state = "PENDING"]
  OBVIOUS
<1>1. /\ resource' = [resource EXCEPT ![v] = r] /\ op' = [op EXCEPT ![v] = q]
      /\ UNCHANGED evacuationVars /\ binding' = binding
  BY <1>r, <1>k, <1>q DEF CreateVMAggregate, Opens
<1>2. WorkloadInv /\ ResourceTablesOK
  BY DEF AggregateInv
<1>3. binding[v] \in BindingRow /\ binding' = [binding EXCEPT ![v] = binding[v]]
  BY <1>1, <1>2 DEF ResourceTablesOK
<1>4. k \in {"CREATE", "POWER"}
  BY <1>k
<1>5. /\ OpFits(v, q) /\ q.kind = k /\ q.state = "PENDING" /\ q.plan = 0
      /\ q.verdict = NoVerdict /\ q.domain = "NONE"
  BY <1>4, <1>q, Opened
<1>6. r \in ResourceRow /\ r.life = "CREATING" /\ r.power = "RUNNING"
  BY <1>r DEF NoResource, ResourceRow
<1>t. /\ ResourceTablesOK /\ r \in ResourceRow /\ OpFits(v, q) /\ binding[v] \in BindingRow
      /\ resource' = [resource EXCEPT ![v] = r] /\ op' = [op EXCEPT ![v] = q]
      /\ binding' = [binding EXCEPT ![v] = binding[v]]
  BY <1>1, <1>2, <1>3, <1>5, <1>6
<1>7. /\ ResourceTablesOK' /\ resource'[v] = r /\ op'[v] = q
      /\ \A w \in VMs : w # v => ResourceKept(w) /\ Converges(w)
  BY <1>t, TablesWritten
<1>8. ResourceInv(v)'
  <2>1. OpBound(v)'
    BY <1>5, <1>6, <1>7, <1>k DEF OpBound
  <2>2. BoundHome(v)'
    BY <1>6, <1>7 DEF BoundHome
  <2>3. Deleting(v)'
    BY <1>5, <1>7, <1>k DEF Deleting
  <2>4. Gone(v)'
    BY <1>6, <1>7 DEF Gone
  <2>5. QED
    BY <2>1, <2>2, <2>3, <2>4 DEF ResourceInv
<1>9. Converges(v)
  BY <1>5, <1>7 DEF Converges
<1>10. QED
  BY <1>1, <1>2, <1>7, <1>8, <1>9, ResourceMoves

\* The open create of a resource under creation: only OpBound speaks of it.
LEMMA Creating ==
  ASSUME NEW v \in VMs, resource'[v].life = "CREATING", op'[v].kind = "CREATE", OpBound(v)'
  PROVE  ResourceInv(v)'
<1>1. BoundHome(v)'
  BY DEF BoundHome
<1>2. Deleting(v)'
  BY DEF Deleting
<1>3. Gone(v)'
  BY DEF Gone
<1>4. QED
  BY <1>1, <1>2, <1>3 DEF ResourceInv

LEMMA BoundSet ==
  ASSUME NEW o \in OpRow, NEW h \in VMHosts
  PROVE  LET q == [o EXCEPT !.host = h, !.state = "MATERIALIZING", !.claimed = FALSE]
         IN /\ q \in OpRow /\ q.kind = o.kind /\ q.state = "MATERIALIZING" /\ q.host = h /\ q.plan = o.plan
            /\ q.verdict = o.verdict /\ q.domain = o.domain
            /\ q.asked = o.asked /\ q.detached = o.detached /\ q.retiring = o.retiring /\ q.absent = o.absent
BY DEF OpRow

LEMMA BindMoves ==
  ASSUME AggregateInv, NEW v \in VMs, NEW h \in VMHosts, BindVMAggregateAdmission(v, h)
  PROVE  AggregateMove
<1>q. PICK q : q = [op[v] EXCEPT !.host = h, !.state = "MATERIALIZING", !.claimed = FALSE]
  OBVIOUS
<1>1. WorkloadInv /\ ResourceTablesOK /\ ResourceInv(v)
  BY DEF AggregateInv, WorkloadInv
<1>2. op \in [VMs -> OpRow] /\ op[v] \in OpRow /\ OpFits(v, op[v])
  BY <1>1, TablesTyped DEF ResourceTablesOK
<1>3. /\ op[v].kind = "CREATE" /\ op[v].state = "PENDING"
      /\ op' = [op EXCEPT ![v] = q] /\ UNCHANGED evacuationVars /\ UNCHANGED <<resource, binding>>
  BY <1>2, <1>q DEF BindVMAggregateAdmission, Holds
<1>4. /\ q \in OpRow /\ q.kind = op[v].kind /\ q.state = "MATERIALIZING" /\ q.host = h
      /\ q.plan = op[v].plan /\ q.verdict = op[v].verdict /\ q.domain = op[v].domain
      /\ q.asked = op[v].asked /\ q.detached = op[v].detached
      /\ q.retiring = op[v].retiring /\ q.absent = op[v].absent
  BY <1>2, <1>q, BoundSet
<1>5. OpFits(v, q)
  BY <1>2, <1>4 DEF OpFits
<1>6. /\ ResourceTablesOK' /\ op'[v] = q
      /\ \A w \in VMs : w # v => ResourceKept(w) /\ Converges(w)
  BY <1>1, <1>3, <1>5, OpWritten
<1>7. /\ resource[v].life = "CREATING" /\ resource[v].power = "RUNNING" /\ op[v].domain \in {"NONE", "ABSENT"}
      /\ op[v].plan = 0 /\ op[v].verdict = NoVerdict
  BY <1>1, <1>3 DEF ResourceInv, OpBound
<1>8. OpBound(v)'
  BY <1>3, <1>4, <1>6, <1>7 DEF OpBound
<1>9. ResourceInv(v)'
  BY <1>3, <1>4, <1>6, <1>7, <1>8, Creating
<1>10. Converges(v)
  BY <1>4, <1>6 DEF Converges
<1>11. QED
  BY <1>1, <1>3, <1>6, <1>9, <1>10, ResourceMoves

LEMMA VerdictSet ==
  ASSUME NEW o \in OpRow, NEW d \in VerdictRow
  PROVE  LET q == [o EXCEPT !.verdict = d]
         IN /\ q \in OpRow /\ q.kind = o.kind /\ q.state = o.state /\ q.host = o.host /\ q.plan = o.plan
            /\ q.verdict = d /\ q.domain = o.domain
            /\ q.asked = o.asked /\ q.detached = o.detached /\ q.retiring = o.retiring /\ q.absent = o.absent
BY DEF OpRow

LEMMA EvidenceTyped ==
  ASSUME RuntimeTypeOK, NEW v \in VMs
  PROVE  Evidence(v) \in VerdictRow /\ Evidence(v).host = machine[v].host /\ Evidence(v).plan = machine[v].plan
<1>1. /\ machine[v].host \in VMHosts \cup {NoHost} /\ machine[v].plan \in Nat /\ ready[v].gen \in Nat
  BY RowsTyped, MachineFields, ReadyFields
<1>2. power[v].gen \in Nat
  BY RowsTyped DEF PowerRow
<1>3. QED
  BY <1>1, <1>2 DEF Evidence, VerdictRow

LEMMA EvaluateMoves ==
  ASSUME AggregateInv, NEW v \in VMs, EvaluateVMAggregateEvidence(v)
  PROVE  AggregateMove
<1>d. PICK d : d = Evidence(v)
  OBVIOUS
<1>q. PICK q : q = [op[v] EXCEPT !.verdict = d]
  OBVIOUS
<1>1. WorkloadInv /\ ResourceTablesOK /\ ResourceInv(v) /\ RuntimeTypeOK
  BY DEF AggregateInv, WorkloadInv
<1>2. op \in [VMs -> OpRow] /\ op[v] \in OpRow /\ OpFits(v, op[v])
  BY <1>1, TablesTyped DEF ResourceTablesOK
<1>3. /\ op[v].kind = "CREATE" /\ op[v].state = "MATERIALIZING" /\ op[v].plan # 0
      /\ machine[v].host = op[v].host /\ machine[v].plan = op[v].plan
      /\ op' = [op EXCEPT ![v] = q] /\ UNCHANGED evacuationVars /\ UNCHANGED <<resource, binding>>
  BY <1>2, <1>d, <1>q DEF EvaluateVMAggregateEvidence, Holds, RunsAsAdmitted
<1>4. d \in VerdictRow /\ d.host = machine[v].host /\ d.plan = machine[v].plan
  BY <1>1, <1>d, EvidenceTyped
<1>5. /\ q \in OpRow /\ q.kind = op[v].kind /\ q.state = op[v].state /\ q.host = op[v].host
      /\ q.plan = op[v].plan /\ q.verdict = d /\ q.domain = op[v].domain
      /\ q.asked = op[v].asked /\ q.detached = op[v].detached
      /\ q.retiring = op[v].retiring /\ q.absent = op[v].absent
  BY <1>2, <1>4, <1>q, VerdictSet
<1>6. OpFits(v, q)
  BY <1>2, <1>5 DEF OpFits
<1>7. /\ ResourceTablesOK' /\ op'[v] = q
      /\ \A w \in VMs : w # v => ResourceKept(w) /\ Converges(w)
  BY <1>1, <1>3, <1>6, OpWritten
<1>8. /\ resource[v].life = "CREATING" /\ resource[v].power = "RUNNING" /\ op[v].domain \in {"NONE", "ABSENT"}
      /\ op[v].plan = 1 /\ op[v].host \in VMHosts
  BY <1>1, <1>3 DEF ResourceInv, OpBound
<1>9. OpBound(v)'
  BY <1>3, <1>4, <1>5, <1>7, <1>8 DEF OpBound
<1>10. ResourceInv(v)'
  BY <1>3, <1>5, <1>7, <1>8, <1>9, Creating
<1>11. Converges(v)
  BY <1>3, <1>5, <1>7 DEF Converges
<1>12. QED
  BY <1>1, <1>3, <1>7, <1>10, <1>11, ResourceMoves
LEMMA PlanSet ==
  ASSUME NEW o \in OpRow
  PROVE  LET q == [o EXCEPT !.plan = 1, !.claimed = FALSE]
         IN /\ q \in OpRow /\ q.kind = o.kind /\ q.state = o.state /\ q.host = o.host /\ q.plan = 1
            /\ q.verdict = o.verdict /\ q.domain = o.domain
            /\ q.asked = o.asked /\ q.detached = o.detached /\ q.retiring = o.retiring /\ q.absent = o.absent
BY DEF OpRow

\* The first plan of a VM that has none.
LEMMA PrepareKeeps ==
  ASSUME RuntimeTypeOK, NEW v \in VMs, NEW h \in VMHosts, RuntimeInv(v), PrepareVMMaterialization(v, h),
         UNCHANGED evacVars
  PROVE  RuntimeInv(v)'
<1>1. /\ CheckedKept(v) /\ machine[v].life = "NONE" /\ claims[v][h] = "RESERVED"
      /\ machine'[v].life = "PENDING" /\ machine'[v].host = h /\ machine'[v].plan = 1
      /\ UNCHANGED <<claims, attach, ready, power, domain>>
  BY PrepareStepRows
<1>2. child' = child
  BY DEF evacVars
<1>3. 1 # 0
  BY SMTT(30)
<1>4. /\ ready[v].boot = "NONE" /\ power[v].state = "NONE"
      /\ \A g \in VMHosts : domain[v][g] = NoDomain /\ child[g][v].phase = "NONE"
      /\ \A g, k \in VMHosts : claims[v][g] # "NONE" /\ claims[v][k] # "NONE" => g = k
  BY <1>1 DEF RuntimeInv, Unborn
<1>5. Unborn(v)'
  BY <1>1 DEF Unborn
<1>6. Born(v)'
  BY <1>1, <1>3 DEF Born
<1>7. \A g \in VMHosts : g # h => claims[v][g] = "NONE"
  BY <1>1, <1>4
<1>8. AtHome(v)'
  BY <1>1, <1>2, <1>4, <1>7 DEF AtHome
<1>9. CheckedHere(v)'
  BY <1>1 DEF RuntimeInv, CheckedHere, CheckedKept
<1>10. QED
  BY <1>5, <1>6, <1>8, <1>9 DEF RuntimeInv

LEMMA PrepareMoves ==
  ASSUME AggregateInv, NEW v \in VMs, PrepareVMAggregateMaterialization(v)
  PROVE  AggregateMove
<1>q. PICK q : q = [op[v] EXCEPT !.plan = 1, !.claimed = FALSE]
  OBVIOUS
<1>h. PICK h : h = op[v].host
  OBVIOUS
<1>1. WorkloadInv /\ ResourceTablesOK /\ ResourceInv(v) /\ RuntimeInv(v)
  BY DEF AggregateInv, WorkloadInv
<1>2. op \in [VMs -> OpRow] /\ op[v] \in OpRow /\ OpFits(v, op[v])
  BY <1>1, TablesTyped DEF ResourceTablesOK
<1>3. /\ op[v].kind = "CREATE" /\ op[v].state = "MATERIALIZING" /\ op[v].plan = 0
      /\ PrepareVMMaterialization(v, h)
      /\ op' = [op EXCEPT ![v] = q] /\ UNCHANGED evacVars /\ UNCHANGED <<resource, binding>>
  BY <1>2, <1>q, <1>h DEF PrepareVMAggregateMaterialization, Holds
<1>4. /\ q \in OpRow /\ q.kind = op[v].kind /\ q.state = op[v].state /\ q.host = op[v].host
      /\ q.plan = 1 /\ q.verdict = op[v].verdict /\ q.domain = op[v].domain
      /\ q.asked = op[v].asked /\ q.detached = op[v].detached
      /\ q.retiring = op[v].retiring /\ q.absent = op[v].absent
  BY <1>2, <1>q, PlanSet
<1>5. OpFits(v, q)
  BY <1>2, <1>4 DEF OpFits
<1>6. /\ ResourceTablesOK' /\ op'[v] = q
      /\ \A w \in VMs : w # v => ResourceKept(w) /\ Converges(w)
  BY <1>1, <1>3, <1>5, OpWritten
<1>7. /\ resource[v].life = "CREATING" /\ resource[v].power = "RUNNING" /\ op[v].domain \in {"NONE", "ABSENT"}
      /\ h \in VMHosts /\ (op[v].verdict # NoVerdict => op[v].plan = 1)
  BY <1>1, <1>3, <1>h DEF ResourceInv, OpBound
<1>8. op[v].verdict = NoVerdict
  <2>1. 0 # 1
    BY SMTT(30)
  <2>2. QED
    BY <1>3, <1>7, <2>1
<1>9. OpBound(v)'
  BY <1>3, <1>4, <1>6, <1>7, <1>8, <1>h DEF OpBound
<1>10. ResourceInv(v)'
  BY <1>3, <1>4, <1>6, <1>7, <1>9, Creating
<1>11. Converges(v)
  BY <1>3, <1>4, <1>6 DEF Converges
<1>12. /\ RuntimeTypeOK' /\ \A w \in VMs : w # v => RuntimeKept(w)
       /\ UNCHANGED <<claims, attach, ready, power, domain>>
  BY <1>1, <1>3, <1>7, PrepareStepRows DEF WorkloadInv
<1>13. RuntimeInv(v)'
  BY <1>1, <1>3, <1>7, PrepareKeeps DEF WorkloadInv
<1>14. ReleasesStay
  BY <1>12 DEF ReleasesStay
<1>15. EvacMove /\ \A w \in VMs : ChildKept(w)
  BY <1>1, <1>3, <1>14, EvacStays DEF WorkloadInv
<1>16. HostMoves(v)
  <2>1. machine[v].life = "NONE"
    BY <1>1, <1>3, <1>7, PrepareStepRows DEF WorkloadInv
  <2>2. machine[v].host = NoHost
    BY <1>1, <2>1 DEF RuntimeInv, Unborn
  <2>3. QED
    BY <2>2 DEF HostMoves
<1>17. WorkloadMove
  BY <1>1, <1>6, <1>10, <1>12, <1>13, <1>15, <1>16, OthersKept
<1>18. QED
  BY <1>6, <1>11, <1>17 DEF AggregateMove

LEMMA Closed ==
  ASSUME NEW o \in OpRow
  PROVE  LET q == [o EXCEPT !.state = "VERIFIED", !.claimed = FALSE]
         IN /\ q \in OpRow /\ q.kind = o.kind /\ q.state = "VERIFIED" /\ q.domain = o.domain
            /\ q.asked = o.asked /\ q.detached = o.detached /\ q.retiring = o.retiring /\ q.absent = o.absent
BY DEF OpRow

LEMMA ClosedFits ==
  ASSUME ResourceTablesOK, NEW v \in VMs, Closes(v)
  PROVE  \E q : /\ op' = [op EXCEPT ![v] = q] /\ OpFits(v, q)
                /\ q.kind = op[v].kind /\ q.state = "VERIFIED" /\ q.domain = op[v].domain
<1>q. PICK q : q = [op[v] EXCEPT !.state = "VERIFIED", !.claimed = FALSE]
  OBVIOUS
<1>1. op \in [VMs -> OpRow] /\ op[v] \in OpRow /\ OpFits(v, op[v])
  BY TablesTyped DEF ResourceTablesOK
<1>2. op' = [op EXCEPT ![v] = q]
  BY <1>1, <1>q DEF Closes
<1>3. /\ q \in OpRow /\ q.kind = op[v].kind /\ q.state = "VERIFIED" /\ q.domain = op[v].domain
      /\ q.asked = op[v].asked /\ q.detached = op[v].detached
      /\ q.retiring = op[v].retiring /\ q.absent = op[v].absent
  BY <1>1, <1>q, Closed
<1>4. OpFits(v, q)
  BY <1>1, <1>3 DEF OpFits
<1>5. QED
  BY <1>2, <1>3, <1>4

\* A closed operation that is no delete in progress binds nothing.
LEMMA ClosedBound ==
  ASSUME NEW v \in VMs, op'[v].state = "VERIFIED", op'[v].domain \in {"NONE", "ABSENT"}
  PROVE  OpBound(v)' /\ Deleting(v)'
BY DEF OpBound, Deleting

LEMMA CompleteCreateMoves ==
  ASSUME AggregateInv, NEW v \in VMs, CompleteVMAggregateLifecycle(v)
  PROVE  AggregateMove
<1>b. PICK b : b = [host |-> op[v].host, plan |-> op[v].plan,
                    rev |-> resource[v].rev, intent |-> resource[v].intent]
  OBVIOUS
<1>r. PICK r : r = [resource[v] EXCEPT !.life = "ACTIVE", !.converged = TRUE]
  OBVIOUS
<1>1. WorkloadInv /\ ResourceTablesOK /\ ResourceInv(v) /\ RuntimeInv(v) /\ RuntimeTypeOK
  BY DEF AggregateInv, WorkloadInv
<1>2. /\ resource[v] \in ResourceRow /\ op[v] \in OpRow /\ resource \in [VMs -> ResourceRow]
  BY <1>1, TablesTyped DEF ResourceTablesOK
<1>3. /\ op[v].kind = "CREATE" /\ op[v].state # "VERIFIED" /\ op[v].verdict # NoVerdict
      /\ op[v].verdict = Evidence(v) /\ power[v].state = "RUNNING"
      /\ binding' = [binding EXCEPT ![v] = b] /\ resource' = [resource EXCEPT ![v] = r]
      /\ Closes(v) /\ UNCHANGED evacuationVars
  BY <1>2, <1>b, <1>r DEF CompleteVMAggregateLifecycle, Holds, VerdictRecorded, VerdictCurrent, ObservedPower
<1>4. /\ op[v].domain \in {"NONE", "ABSENT"} /\ op[v].host \in VMHosts
      /\ op[v].verdict.host = op[v].host /\ op[v].verdict.plan = 1 /\ op[v].plan = 1
      /\ resource[v].power = "RUNNING"
  BY <1>1, <1>3 DEF ResourceInv, OpBound
<1>5. machine[v].host = op[v].host /\ machine[v].plan = 1
  BY <1>1, <1>3, <1>4, EvidenceTyped
<1>6. claims[v][machine[v].host] # "NONE" /\ power[v].host = machine[v].host /\ defined[v] # 0
  <2>1. "RUNNING" # "NONE"
    OBVIOUS
  <2>2. QED
    BY <1>1, <1>3, <1>5, <2>1 DEF RuntimeInv, AtHome
<1>7. resource[v].rev \in Nat /\ resource[v].intent \in Nat /\ op[v].plan \in Nat
  BY <1>2 DEF ResourceRow, OpRow
<1>8. b \in BindingRow /\ b.host = op[v].host /\ b.plan = op[v].plan
  BY <1>4, <1>7, <1>b DEF BindingRow
<1>9. r \in ResourceRow /\ r.life = "ACTIVE" /\ r.power = resource[v].power
  BY <1>2, <1>r DEF ResourceRow
<1>10. PICK q : /\ op' = [op EXCEPT ![v] = q] /\ OpFits(v, q)
                /\ q.kind = op[v].kind /\ q.state = "VERIFIED" /\ q.domain = op[v].domain
  BY <1>1, <1>3, ClosedFits
<1>11. /\ ResourceTablesOK' /\ resource'[v] = r /\ op'[v] = q /\ binding'[v] = b
       /\ \A w \in VMs : w # v => ResourceKept(w) /\ Converges(w)
  BY <1>1, <1>3, <1>8, <1>9, <1>10, TablesWritten
<1>12. OpBound(v)' /\ Deleting(v)'
  BY <1>4, <1>10, <1>11, ClosedBound
<1>13. UNCHANGED <<claims, machine, defined, power>>
  BY <1>3 DEF evacuationVars, runtimeVars
<1>14. BoundHome(v)'
  BY <1>4, <1>5, <1>6, <1>8, <1>11, <1>13 DEF BoundHome
<1>15. Gone(v)'
  BY <1>9, <1>11 DEF Gone
<1>16. ResourceInv(v)'
  BY <1>12, <1>14, <1>15 DEF ResourceInv
<1>17. Converges(v)
  <2>1. power'[v].state = "RUNNING" /\ power'[v].host = op[v].host
    BY <1>3, <1>5, <1>6, <1>13
  <2>2. resource'[v].power = "RUNNING" /\ binding'[v].host = op[v].host
    BY <1>4, <1>8, <1>9, <1>11
  <2>3. QED
    BY <2>1, <2>2 DEF Converges
<1>18. QED
  BY <1>1, <1>3, <1>11, <1>16, <1>17, ResourceMoves

LEMMA CreateStepMoves ==
  ASSUME AggregateInv, NEW v \in VMs, CreateStep(v)
  PROVE  AggregateMove
BY CreateMoves, ClaimStepMoves, BindMoves, PrepareMoves, EvaluateMoves, CompleteCreateMoves DEF CreateStep
-----------------------------------------------------------------------------
(* Metadata, power and mobility.                                           *)

LEMMA RevisionSet ==
  ASSUME NEW r \in ResourceRow, NEW b \in BindingRow
  PROVE  /\ r.rev \in Nat /\ r.intent \in Nat /\ b.rev \in Nat /\ b.intent \in Nat
         /\ r.life \in {"NONE", "CREATING", "ACTIVE", "RETIRE_PENDING", "DELETED"}
         /\ r.power \in {"RUNNING", "SHUTOFF"} /\ b.host \in VMHosts \cup {NoHost} /\ b.plan \in Nat
BY DEF ResourceRow, BindingRow

LEMMA MetadataMoves ==
  ASSUME AggregateInv, NEW v \in VMs, UpdateVMAggregateMetadata(v)
  PROVE  AggregateMove
<1>r. PICK r : r = [resource[v] EXCEPT !.rev = resource[v].rev + 1]
  OBVIOUS
<1>b. PICK b : b = [binding[v] EXCEPT !.rev = binding[v].rev + 1]
  OBVIOUS
<1>1. WorkloadInv /\ ResourceTablesOK
  BY DEF AggregateInv
<1>2. /\ resource \in [VMs -> ResourceRow] /\ binding \in [VMs -> BindingRow] /\ op \in [VMs -> OpRow]
      /\ resource[v] \in ResourceRow /\ binding[v] \in BindingRow /\ OpFits(v, op[v])
  BY <1>1, TablesTyped DEF ResourceTablesOK
<1>3. /\ resource' = [resource EXCEPT ![v] = r] /\ binding' = [binding EXCEPT ![v] = b]
      /\ op' = [op EXCEPT ![v] = op[v]] /\ UNCHANGED evacuationVars /\ op' = op
  BY <1>2, <1>r, <1>b DEF UpdateVMAggregateMetadata
<1>4. resource[v].rev \in Nat /\ binding[v].rev \in Nat
  BY <1>2, RevisionSet
<1>5. resource[v].rev + 1 \in Nat /\ binding[v].rev + 1 \in Nat
  BY <1>4, SMTT(30)
<1>6. /\ r \in ResourceRow /\ r.life = resource[v].life /\ r.power = resource[v].power
      /\ b \in BindingRow /\ b.host = binding[v].host /\ b.plan = binding[v].plan
  BY <1>2, <1>5, <1>r, <1>b DEF ResourceRow, BindingRow
<1>7. /\ ResourceTablesOK' /\ resource'[v] = r /\ binding'[v] = b
      /\ \A w \in VMs : w # v => ResourceKept(w) /\ Converges(w)
  BY <1>1, <1>2, <1>3, <1>6, TablesWritten
<1>8. ResourceKept(v)
  BY <1>3, <1>6, <1>7 DEF ResourceKept
<1>9. QED
  BY <1>1, <1>3, <1>7, <1>8, SameCourseMoves

LEMMA StartPowerMoves ==
  ASSUME AggregateInv, NEW v \in VMs, NEW want \in {"RUNNING", "SHUTOFF"}, StartVMAggregatePowerUpdate(v, want)
  PROVE  AggregateMove
<1>r. PICK r : r = [resource[v] EXCEPT !.rev = resource[v].rev + 1, !.intent = resource[v].intent + 1,
                                       !.converged = FALSE, !.power = want]
  OBVIOUS
<1>k. PICK k : k = "POWER"
  OBVIOUS
<1>q. PICK q : q = [NoOp EXCEPT !.kind = k, !.state = "PENDING"]
  OBVIOUS
<1>1. WorkloadInv /\ ResourceTablesOK /\ ResourceInv(v)
  BY DEF AggregateInv, WorkloadInv
<1>2. /\ binding \in [VMs -> BindingRow] /\ resource[v] \in ResourceRow /\ binding[v] \in BindingRow
  BY <1>1, TablesTyped DEF ResourceTablesOK
<1>3. /\ resource[v].life = "ACTIVE" /\ resource' = [resource EXCEPT ![v] = r] /\ op' = [op EXCEPT ![v] = q]
      /\ UNCHANGED evacuationVars /\ binding' = binding
  BY <1>r, <1>k, <1>q DEF StartVMAggregatePowerUpdate, Opens, Settled
<1>4. binding' = [binding EXCEPT ![v] = binding[v]]
  BY <1>2, <1>3
<1>5. resource[v].rev \in Nat /\ resource[v].intent \in Nat
  BY <1>2, RevisionSet
<1>6. resource[v].rev + 1 \in Nat /\ resource[v].intent + 1 \in Nat
  BY <1>5, SMTT(30)
<1>7. r \in ResourceRow /\ r.life = resource[v].life
  BY <1>2, <1>6, <1>r DEF ResourceRow
<1>8. k \in {"CREATE", "POWER"}
  BY <1>k
<1>9. /\ OpFits(v, q) /\ q.kind = k /\ q.state = "PENDING" /\ q.domain = "NONE"
  BY <1>8, <1>q, Opened
<1>t. /\ ResourceTablesOK /\ r \in ResourceRow /\ OpFits(v, q) /\ binding[v] \in BindingRow
      /\ resource' = [resource EXCEPT ![v] = r] /\ op' = [op EXCEPT ![v] = q]
      /\ binding' = [binding EXCEPT ![v] = binding[v]]
  BY <1>1, <1>2, <1>3, <1>4, <1>7, <1>9
<1>10. /\ ResourceTablesOK' /\ resource'[v] = r /\ op'[v] = q
       /\ \A w \in VMs : w # v => ResourceKept(w) /\ Converges(w)
  BY <1>t, TablesWritten
<1>11. UNCHANGED <<claims, machine, defined>>
  BY <1>3 DEF evacuationVars, runtimeVars
<1>12. ResourceInv(v)'
  <2>1. OpBound(v)'
    BY <1>3, <1>7, <1>9, <1>10, <1>k DEF OpBound
  <2>2. BoundHome(v)'
    BY <1>1, <1>3, <1>7, <1>10, <1>11 DEF ResourceInv, BoundHome
  <2>3. Deleting(v)'
    BY <1>9, <1>10, <1>k DEF Deleting
  <2>4. Gone(v)'
    BY <1>3, <1>7, <1>10 DEF Gone
  <2>5. QED
    BY <2>1, <2>2, <2>3, <2>4 DEF ResourceInv
<1>13. Converges(v)
  BY <1>9, <1>10 DEF Converges
<1>14. QED
  BY <1>1, <1>3, <1>10, <1>12, <1>13, ResourceMoves

LEMMA AuthorizePowerMoves ==
  ASSUME AggregateInv, NEW v \in VMs, AuthorizeVMAggregatePowerCommand(v)
  PROVE  AggregateMove
<1>h. PICK h : h = binding[v].host
  OBVIOUS
<1>p. PICK p : p = binding[v].plan
  OBVIOUS
<1>q. PICK q : q = [op[v] EXCEPT !.state = "VERIFYING", !.host = h, !.plan = p]
  OBVIOUS
<1>1. WorkloadInv /\ ResourceTablesOK /\ ResourceInv(v) /\ RuntimeTypeOK
  BY DEF AggregateInv, WorkloadInv
<1>2. /\ op \in [VMs -> OpRow] /\ op[v] \in OpRow /\ OpFits(v, op[v])
      /\ resource[v] \in ResourceRow /\ binding[v] \in BindingRow
  BY <1>1, TablesTyped DEF ResourceTablesOK
<1>3. /\ op[v].kind = "POWER" /\ op[v].state # "VERIFIED"
      /\ CreatePowerCommand(v, h, resource[v].power, power[v].gen + 1, "AGGREGATE")
      /\ op' = [op EXCEPT ![v] = q]
      /\ UNCHANGED <<claims, attach, authority, defined, ready, realized, dataplane, power, evidence, domain>>
      /\ UNCHANGED evacVars /\ UNCHANGED <<resource, binding>>
  BY <1>2, <1>h, <1>p, <1>q DEF AuthorizeVMAggregatePowerCommand, Holds
<1>4. resource[v].life = "ACTIVE" /\ op[v].domain \in {"NONE", "ABSENT"}
  BY <1>1, <1>3 DEF ResourceInv, OpBound
<1>5. h \in VMHosts
  BY <1>1, <1>4, <1>h DEF ResourceInv, BoundHome
<1>6. p \in Nat /\ resource[v].power \in {"RUNNING", "SHUTOFF"} /\ ready[v] \in ReadyRow
  BY <1>1, <1>2, <1>p, RevisionSet, RowsTyped
<1>o. op[v] \in OpRow /\ h \in VMHosts /\ p \in Nat
  BY <1>2, <1>5, <1>6
<1>7. /\ q \in OpRow /\ q.kind = op[v].kind /\ q.state = "VERIFYING" /\ q.domain = op[v].domain
      /\ q.asked = op[v].asked /\ q.detached = op[v].detached
      /\ q.retiring = op[v].retiring /\ q.absent = op[v].absent
  BY <1>o, <1>q DEF OpRow
<1>8. OpFits(v, q)
  BY <1>2, <1>7 DEF OpFits
<1>9. /\ ResourceTablesOK' /\ op'[v] = q
      /\ \A w \in VMs : w # v => ResourceKept(w) /\ Converges(w)
  BY <1>1, <1>3, <1>8, OpWritten
<1>10. "AGGREGATE" \in Callers
  BY DEF Callers
<1>11. RuntimeTypeOK' /\ \A w \in VMs : RuntimeKept(w)
  BY <1>1, <1>3, <1>5, <1>6, <1>10, CommandStep
<1>12. ReleasesStay
  BY <1>3 DEF ReleasesStay
<1>13. EvacMove /\ \A w \in VMs : ChildKept(w)
  BY <1>1, <1>3, <1>12, EvacStays DEF WorkloadInv
<1>14. RuntimeInv(v)'
  BY <1>1, <1>11, <1>13, RuntimeFrame DEF WorkloadInv
<1>15. ResourceInv(v)'
  <2>1. OpBound(v)'
    BY <1>3, <1>4, <1>7, <1>9 DEF OpBound
  <2>2. BoundHome(v)'
    BY <1>1, <1>3, <1>11 DEF ResourceInv, BoundHome, RuntimeKept
  <2>3. Deleting(v)'
    BY <1>3, <1>7, <1>9 DEF Deleting
  <2>4. Gone(v)'
    BY <1>3, <1>4 DEF Gone
  <2>5. QED
    BY <2>1, <2>2, <2>3, <2>4 DEF ResourceInv
<1>16. HostMoves(v) /\ Converges(v)
  BY <1>3, <1>7, <1>9, <1>11 DEF HostMoves, Converges, RuntimeKept
<1>17. WorkloadMove
  BY <1>1, <1>9, <1>11, <1>13, <1>14, <1>15, <1>16, OthersKept
<1>18. QED
  BY <1>9, <1>16, <1>17 DEF AggregateMove

LEMMA CompletePowerMoves ==
  ASSUME AggregateInv, NEW v \in VMs, CompleteVMAggregatePowerUpdate(v)
  PROVE  AggregateMove
<1>b. PICK b : b = [binding[v] EXCEPT !.rev = resource[v].rev, !.intent = resource[v].intent]
  OBVIOUS
<1>r. PICK r : r = [resource[v] EXCEPT !.converged = TRUE]
  OBVIOUS
<1>1. WorkloadInv /\ ResourceTablesOK /\ ResourceInv(v)
  BY DEF AggregateInv, WorkloadInv
<1>2. /\ resource \in [VMs -> ResourceRow] /\ binding \in [VMs -> BindingRow]
      /\ resource[v] \in ResourceRow /\ binding[v] \in BindingRow
  BY <1>1, TablesTyped DEF ResourceTablesOK
<1>3. /\ op[v].kind = "POWER" /\ op[v].state # "VERIFIED"
      /\ binding[v].host = op[v].host /\ power[v].state = resource[v].power /\ power[v].host = op[v].host
      /\ binding' = [binding EXCEPT ![v] = b] /\ resource' = [resource EXCEPT ![v] = r]
      /\ Closes(v) /\ UNCHANGED evacuationVars
  BY <1>2, <1>b, <1>r DEF CompleteVMAggregatePowerUpdate, Holds, PowerReadBack
<1>4. resource[v].life = "ACTIVE" /\ op[v].domain \in {"NONE", "ABSENT"}
  BY <1>1, <1>3 DEF ResourceInv, OpBound
<1>5. resource[v].rev \in Nat /\ resource[v].intent \in Nat
  BY <1>2, RevisionSet
<1>6. /\ r \in ResourceRow /\ r.life = resource[v].life /\ r.power = resource[v].power
      /\ b \in BindingRow /\ b.host = binding[v].host /\ b.plan = binding[v].plan
  BY <1>2, <1>5, <1>r, <1>b DEF ResourceRow, BindingRow
<1>7. PICK q : /\ op' = [op EXCEPT ![v] = q] /\ OpFits(v, q)
               /\ q.kind = op[v].kind /\ q.state = "VERIFIED" /\ q.domain = op[v].domain
  BY <1>1, <1>3, ClosedFits
<1>8. /\ ResourceTablesOK' /\ resource'[v] = r /\ op'[v] = q /\ binding'[v] = b
      /\ \A w \in VMs : w # v => ResourceKept(w) /\ Converges(w)
  BY <1>1, <1>3, <1>6, <1>7, TablesWritten
<1>9. OpBound(v)' /\ Deleting(v)'
  BY <1>4, <1>7, <1>8, ClosedBound
<1>10. UNCHANGED <<claims, machine, defined, power>>
  BY <1>3 DEF evacuationVars, runtimeVars
<1>11. BoundHome(v)'
  BY <1>1, <1>6, <1>8, <1>10 DEF ResourceInv, BoundHome
<1>12. Gone(v)'
  BY <1>4, <1>6, <1>8 DEF Gone
<1>13. ResourceInv(v)'
  BY <1>9, <1>11, <1>12 DEF ResourceInv
<1>14. Converges(v)
  BY <1>3, <1>6, <1>8, <1>10 DEF Converges
<1>15. QED
  BY <1>1, <1>3, <1>8, <1>13, <1>14, ResourceMoves
LEMMA AssociateMoves ==
  ASSUME AggregateInv, NEW v \in VMs, NEW h \in VMHosts, AssociateVMAggregateMobility(h, v)
  PROVE  AggregateMove
<1>b. PICK b : b = [binding[v] EXCEPT !.host = machine[v].host, !.plan = machine[v].plan]
  OBVIOUS
<1>1. /\ WorkloadInv /\ ResourceTablesOK /\ ResourceInv(v) /\ RuntimeInv(v) /\ RuntimeTypeOK
      /\ EvacTablesOK /\ ChildHeld(h, v)
  BY DEF AggregateInv, WorkloadInv, ChildrenHeld
<1>2. /\ resource \in [VMs -> ResourceRow] /\ binding \in [VMs -> BindingRow] /\ op \in [VMs -> OpRow]
      /\ resource[v] \in ResourceRow /\ binding[v] \in BindingRow /\ OpFits(v, op[v])
  BY <1>1, TablesTyped DEF ResourceTablesOK
<1>3. /\ resource[v].life = "ACTIVE" /\ child[h][v].phase = "VERIFIED" /\ child[h][v].dest # NoHost
      /\ machine[v].host = child[h][v].dest
      /\ binding' = [binding EXCEPT ![v] = b] /\ UNCHANGED evacuationVars /\ UNCHANGED <<resource, op>>
  BY <1>2, <1>b DEF AssociateVMAggregateMobility, TerminalShown, RunsAtDestination
<1>4. resource' = [resource EXCEPT ![v] = resource[v]] /\ op' = [op EXCEPT ![v] = op[v]]
  BY <1>2, <1>3
<1>5. machine[v].host \in VMHosts /\ machine[v].host # h /\ machine[v].plan \in Nat
  <2>1. child[h][v].dest \in VMHosts
    BY <1>1, <1>3, ChildTyped, ChildFields
  <2>2. child[h][v].dest # h
    BY <1>1, <1>3 DEF ChildHeld
  <2>3. machine[v].plan \in Nat
    BY <1>1, RowsTyped, MachineFields
  <2>4. QED
    BY <1>3, <2>1, <2>2, <2>3
<1>6. machine[v].plan # 1
  BY <1>1, <1>3, <1>5 DEF RuntimeInv, AtHome
<1>7. b \in BindingRow /\ b.host = machine[v].host /\ b.plan = machine[v].plan
  BY <1>2, <1>5, <1>b DEF BindingRow
<1>t. /\ ResourceTablesOK /\ resource[v] \in ResourceRow /\ OpFits(v, op[v]) /\ b \in BindingRow
      /\ resource' = [resource EXCEPT ![v] = resource[v]] /\ op' = [op EXCEPT ![v] = op[v]]
      /\ binding' = [binding EXCEPT ![v] = b]
  BY <1>1, <1>2, <1>3, <1>4, <1>7
<1>8. /\ ResourceTablesOK' /\ binding'[v] = b
      /\ \A w \in VMs : w # v => ResourceKept(w) /\ Converges(w)
  BY <1>t, TablesWritten
<1>9. ResourceInv(v)'
  <2>1. OpBound(v)'
    BY <1>1, <1>3 DEF ResourceInv, OpBound
  <2>2. BoundHome(v)'
    BY <1>5, <1>6, <1>7, <1>8 DEF BoundHome
  <2>3. Deleting(v)'
    <3>1. ~(op[v].kind = "DELETE" /\ op[v].state # "VERIFIED")
      BY <1>1, <1>3 DEF ResourceInv, OpBound
    <3>2. QED
      BY <1>3, <3>1 DEF Deleting
  <2>4. Gone(v)'
    BY <1>3 DEF Gone
  <2>5. QED
    BY <2>1, <2>2, <2>3, <2>4 DEF ResourceInv
<1>10. Converges(v)
  BY <1>3 DEF Converges
<1>11. QED
  BY <1>1, <1>3, <1>8, <1>9, <1>10, ResourceMoves

LEMMA UpdateStepMoves ==
  ASSUME AggregateInv, NEW v \in VMs, UpdateStep(v)
  PROVE  AggregateMove
BY MetadataMoves, StartPowerMoves, AuthorizePowerMoves, CompletePowerMoves, AssociateMoves DEF UpdateStep

-----------------------------------------------------------------------------
(* Delete.                                                                 *)

DeleteOp(h, p, g) ==
  [NoOp EXCEPT !.kind = "DELETE", !.state = "PENDING", !.host = h, !.plan = p, !.shutoff = g]

DeletePending(v, h, q) ==
  OpFits(v, q) /\ q.kind = "DELETE" /\ q.state = "PENDING" /\ q.host = h /\ q.domain = "NONE"

LEMMA DeleteOpened ==
  ASSUME NEW v \in VMs, NEW h \in VMHosts, NEW p \in Nat, NEW g \in Nat
  PROVE  DeletePending(v, h, DeleteOp(h, p, g))
<1>q. PICK q : q = DeleteOp(h, p, g)
  OBVIOUS
<1>1. NoVerdict \in VerdictRow
  BY DEF NoVerdict, VerdictRow
<1>2. /\ q.kind = "DELETE" /\ q.state = "PENDING" /\ q.host = h /\ q.domain = "NONE"
      /\ q.asked = {} /\ q.detached = {} /\ q.retiring = {} /\ q.absent = {}
  BY <1>q DEF NoOp, DeleteOp
<1>3. q \in OpRow
  BY <1>1, <1>q DEF NoOp, OpRow, DeleteOp
<1>4. OpFits(v, q)
  BY <1>2, <1>3 DEF OpFits
<1>5. QED
  BY <1>2, <1>4, <1>q DEF DeletePending

LEMMA StartDeleteMoves ==
  ASSUME AggregateInv, NEW v \in VMs, StartVMAggregateDelete(v)
  PROVE  AggregateMove
<1>r. PICK r : r = [resource[v] EXCEPT !.life = "RETIRE_PENDING", !.rev = resource[v].rev + 1,
                                       !.converged = FALSE]
  OBVIOUS
<1>b. PICK b : b = [binding[v] EXCEPT !.rev = binding[v].rev + 1]
  OBVIOUS
<1>h. PICK h : h = binding[v].host
  OBVIOUS
<1>p. PICK p : p = binding[v].plan
  OBVIOUS
<1>g. PICK g : g = power[v].gen
  OBVIOUS
<1>q. PICK q : q = DeleteOp(h, p, g)
  OBVIOUS
<1>1. WorkloadInv /\ ResourceTablesOK /\ ResourceInv(v) /\ RuntimeTypeOK
  BY DEF AggregateInv, WorkloadInv
<1>2. /\ resource \in [VMs -> ResourceRow] /\ binding \in [VMs -> BindingRow] /\ op \in [VMs -> OpRow]
      /\ resource[v] \in ResourceRow /\ binding[v] \in BindingRow
  BY <1>1, TablesTyped DEF ResourceTablesOK
<1>3. /\ resource[v].life = "ACTIVE" /\ binding[v].plan = 1
      /\ resource' = [resource EXCEPT ![v] = r] /\ op' = [op EXCEPT ![v] = q]
      /\ binding' = [binding EXCEPT ![v] = b] /\ UNCHANGED evacuationVars
  BY <1>2, <1>r, <1>b, <1>h, <1>p, <1>g, <1>q DEF StartVMAggregateDelete, Settled, RootIsDependency,
                                                          DeleteOp
<1>4. h \in VMHosts
  BY <1>1, <1>3, <1>h DEF ResourceInv, BoundHome
<1>5. resource[v].rev \in Nat /\ binding[v].rev \in Nat /\ p \in Nat
  BY <1>2, <1>p, RevisionSet
<1>6. g \in Nat
  BY <1>1, <1>g, RowsTyped DEF PowerRow
<1>7. resource[v].rev + 1 \in Nat /\ binding[v].rev + 1 \in Nat
  BY <1>5, SMTT(30)
<1>8. /\ r \in ResourceRow /\ r.life = "RETIRE_PENDING"
      /\ b \in BindingRow /\ b.host = binding[v].host /\ b.plan = binding[v].plan
  BY <1>2, <1>7, <1>r, <1>b DEF ResourceRow, BindingRow
<1>o. h \in VMHosts /\ p \in Nat /\ g \in Nat
  BY <1>4, <1>5, <1>6
<1>9. OpFits(v, q) /\ q.kind = "DELETE" /\ q.state = "PENDING" /\ q.host = h /\ q.domain = "NONE"
  <2>1. DeletePending(v, h, DeleteOp(h, p, g))
    BY <1>o, DeleteOpened
  <2>2. DeletePending(v, h, q)
    BY <1>q, <2>1
  <2>3. QED
    BY <2>2 DEF DeletePending
<1>10. /\ ResourceTablesOK' /\ resource'[v] = r /\ op'[v] = q /\ binding'[v] = b
       /\ \A w \in VMs : w # v => ResourceKept(w) /\ Converges(w)
  BY <1>1, <1>3, <1>8, <1>9, TablesWritten
<1>11. UNCHANGED <<claims, machine, defined>>
  BY <1>3 DEF evacuationVars, runtimeVars
<1>12. ResourceInv(v)'
  <2>1. OpBound(v)'
    BY <1>8, <1>9, <1>10 DEF OpBound
  <2>2. BoundHome(v)'
    BY <1>1, <1>3, <1>8, <1>10, <1>11 DEF ResourceInv, BoundHome
  <2>3. Deleting(v)'
    BY <1>3, <1>8, <1>9, <1>10, <1>h DEF Deleting
  <2>4. Gone(v)'
    BY <1>8, <1>10 DEF Gone
  <2>5. QED
    BY <2>1, <2>2, <2>3, <2>4 DEF ResourceInv
<1>13. Converges(v)
  BY <1>9, <1>10 DEF Converges
<1>14. QED
  BY <1>1, <1>3, <1>10, <1>12, <1>13, ResourceMoves
\* The kind, state, host, plan, verdict and domain of an operation are kept.
SameOp(o, q) ==
  /\ q \in OpRow /\ q.kind = o.kind /\ q.state = o.state /\ q.host = o.host /\ q.plan = o.plan
  /\ q.verdict = o.verdict /\ q.domain = o.domain

LEMMA EvidenceAdded ==
  ASSUME NEW o \in OpRow, NEW volumes \in SUBSET Volumes, NEW ports \in SUBSET AllPorts
  PROVE  /\ LET q == [o EXCEPT !.asked = volumes]
            IN SameOp(o, q) /\ q.asked = volumes /\ q.detached = o.detached /\ q.retiring = o.retiring
               /\ q.absent = o.absent
         /\ LET q == [o EXCEPT !.detached = volumes]
            IN SameOp(o, q) /\ q.asked = o.asked /\ q.detached = volumes /\ q.retiring = o.retiring
               /\ q.absent = o.absent
         /\ LET q == [o EXCEPT !.retiring = ports]
            IN SameOp(o, q) /\ q.asked = o.asked /\ q.detached = o.detached /\ q.retiring = ports
               /\ q.absent = o.absent
         /\ LET q == [o EXCEPT !.absent = ports]
            IN SameOp(o, q) /\ q.asked = o.asked /\ q.detached = o.detached /\ q.retiring = o.retiring
               /\ q.absent = ports
<1>1. ASSUME NEW q, q = [o EXCEPT !.asked = volumes]
      PROVE  SameOp(o, q) /\ q.asked = volumes /\ q.detached = o.detached /\ q.retiring = o.retiring
             /\ q.absent = o.absent
  BY <1>1 DEF SameOp, OpRow
<1>2. ASSUME NEW q, q = [o EXCEPT !.detached = volumes]
      PROVE  SameOp(o, q) /\ q.asked = o.asked /\ q.detached = volumes /\ q.retiring = o.retiring
             /\ q.absent = o.absent
  BY <1>2 DEF SameOp, OpRow
<1>3. ASSUME NEW q, q = [o EXCEPT !.retiring = ports]
      PROVE  SameOp(o, q) /\ q.asked = o.asked /\ q.detached = o.detached /\ q.retiring = ports
             /\ q.absent = o.absent
  BY <1>3 DEF SameOp, OpRow
<1>4. ASSUME NEW q, q = [o EXCEPT !.absent = ports]
      PROVE  SameOp(o, q) /\ q.asked = o.asked /\ q.detached = o.detached /\ q.retiring = o.retiring
             /\ q.absent = ports
  BY <1>4 DEF SameOp, OpRow
<1>5. QED
  BY <1>1, <1>2, <1>3, <1>4

LEMMA VolumesListed ==
  ASSUME NEW v \in VMs
  PROVE  VolumesOf[v] \subseteq Volumes
<1>1. VolumesOf[v] \in {{"ROOT"}, {"ROOT", "DATA"}}
  BY AggregateAssumption
<1>2. QED
  BY <1>1 DEF Volumes

\* Columns of the evidence of a delete are written, and nothing else.
LEMMA OpOnlyMoves ==
  ASSUME AggregateInv, NEW v \in VMs, NEW q, SameOp(op[v], q), OpFits(v, q), op' = [op EXCEPT ![v] = q],
         UNCHANGED evacuationVars, UNCHANGED <<resource, binding>>
  PROVE  AggregateMove
<1>1. WorkloadInv /\ ResourceTablesOK
  BY DEF AggregateInv
<1>2. /\ ResourceTablesOK' /\ op'[v] = q
      /\ \A w \in VMs : w # v => ResourceKept(w) /\ Converges(w)
  BY <1>1, OpWritten
<1>3. ResourceKept(v)
  BY <1>2 DEF ResourceKept, SameOp
<1>4. QED
  BY <1>1, <1>2, <1>3, SameCourseMoves

LEMMA ReadBackAskedMoves ==
  ASSUME AggregateInv, NEW v \in VMs, NEW r \in VolumesOf[v], AuthorizeVMAggregateDeleteAbsenceReadBack(v, r)
  PROVE  AggregateMove
<1>s. PICK s : s = op[v].asked \cup {r}
  OBVIOUS
<1>q. PICK q : q = [op[v] EXCEPT !.asked = s]
  OBVIOUS
<1>1. op \in [VMs -> OpRow] /\ op[v] \in OpRow /\ OpFits(v, op[v])
  BY TablesTyped DEF AggregateInv, ResourceTablesOK
<1>2. op' = [op EXCEPT ![v] = q] /\ UNCHANGED evacuationVars /\ UNCHANGED <<resource, binding>>
  BY <1>1, <1>s, <1>q DEF AuthorizeVMAggregateDeleteAbsenceReadBack
<1>3. s \subseteq VolumesOf[v] /\ op[v].detached \subseteq s
  BY <1>1, <1>s DEF OpFits
<1>4. s \in SUBSET Volumes
  BY <1>3, VolumesListed
<1>5. /\ SameOp(op[v], q) /\ q.asked = s /\ q.detached = op[v].detached /\ q.retiring = op[v].retiring
      /\ q.absent = op[v].absent
  BY <1>1, <1>4, <1>q, EvidenceAdded
<1>6. OpFits(v, q)
  BY <1>1, <1>3, <1>5 DEF OpFits, SameOp
<1>7. QED
  BY <1>2, <1>5, <1>6, OpOnlyMoves

LEMMA PortRetiredMoves ==
  ASSUME AggregateInv, NEW v \in VMs, NEW p \in PortsOf[v], AuthorizeVMAggregateDeletePortRetirement(v, p)
  PROVE  AggregateMove
<1>s. PICK s : s = op[v].retiring \cup {p}
  OBVIOUS
<1>q. PICK q : q = [op[v] EXCEPT !.retiring = s]
  OBVIOUS
<1>1. op \in [VMs -> OpRow] /\ op[v] \in OpRow /\ OpFits(v, op[v])
  BY TablesTyped DEF AggregateInv, ResourceTablesOK
<1>2. op' = [op EXCEPT ![v] = q] /\ UNCHANGED evacuationVars /\ UNCHANGED <<resource, binding>>
  BY <1>1, <1>s, <1>q DEF AuthorizeVMAggregateDeletePortRetirement
<1>3. s \subseteq PortsOf[v] /\ op[v].absent \subseteq s
  BY <1>1, <1>s DEF OpFits
<1>4. s \in SUBSET AllPorts
  BY <1>3, PortsListed
<1>5. /\ SameOp(op[v], q) /\ q.asked = op[v].asked /\ q.detached = op[v].detached /\ q.retiring = s
      /\ q.absent = op[v].absent
  BY <1>1, <1>4, <1>q, EvidenceAdded
<1>6. OpFits(v, q)
  BY <1>1, <1>3, <1>5 DEF OpFits, SameOp
<1>7. QED
  BY <1>2, <1>5, <1>6, OpOnlyMoves

LEMMA PortAbsentMoves ==
  ASSUME AggregateInv, NEW v \in VMs, NEW p \in PortsOf[v], RecordVMAggregateDeleteNetworkPortAbsence(v, p)
  PROVE  AggregateMove
<1>s. PICK s : s = op[v].absent \cup {p}
  OBVIOUS
<1>q. PICK q : q = [op[v] EXCEPT !.absent = s]
  OBVIOUS
<1>1. op \in [VMs -> OpRow] /\ op[v] \in OpRow /\ OpFits(v, op[v])
  BY TablesTyped DEF AggregateInv, ResourceTablesOK
<1>2. /\ p \in op[v].retiring
      /\ op' = [op EXCEPT ![v] = q] /\ UNCHANGED evacuationVars /\ UNCHANGED <<resource, binding>>
  BY <1>1, <1>s, <1>q DEF RecordVMAggregateDeleteNetworkPortAbsence
<1>3. s \subseteq op[v].retiring /\ op[v].retiring \subseteq PortsOf[v]
  BY <1>1, <1>2, <1>s DEF OpFits
<1>4. s \in SUBSET AllPorts
  BY <1>3, PortsListed
<1>5. /\ SameOp(op[v], q) /\ q.asked = op[v].asked /\ q.detached = op[v].detached
      /\ q.retiring = op[v].retiring /\ q.absent = s
  BY <1>1, <1>4, <1>q, EvidenceAdded
<1>6. OpFits(v, q)
  BY <1>1, <1>3, <1>5 DEF OpFits, SameOp
<1>7. QED
  BY <1>2, <1>5, <1>6, OpOnlyMoves
\* A delete that moves on to the domain of its host.
DomainSet(o, s, d) == [o EXCEPT !.state = s, !.domain = d]

DomainMoved(v, o, s, d, q) ==
  OpFits(v, q) /\ q.kind = o.kind /\ q.state = s /\ q.host = o.host /\ q.domain = d

LEMMA DomainWritten ==
  ASSUME NEW v \in VMs, NEW o, OpFits(v, o), NEW s \in {"PENDING", "VERIFYING"},
         NEW d \in {"SENT", "MATCHED", "ABSENT"}
  PROVE  DomainMoved(v, o, s, d, DomainSet(o, s, d))
<1>q. PICK q : q = DomainSet(o, s, d)
  OBVIOUS
<1>1. o \in OpRow
  BY DEF OpFits
<1>2. /\ q.kind = o.kind /\ q.state = s /\ q.host = o.host /\ q.domain = d
      /\ q.asked = o.asked /\ q.detached = o.detached /\ q.retiring = o.retiring /\ q.absent = o.absent
  BY <1>1, <1>q DEF OpRow, DomainSet
<1>3. q \in OpRow
  BY <1>1, <1>q DEF OpRow, DomainSet
<1>4. OpFits(v, q)
  BY <1>2, <1>3 DEF OpFits
<1>5. QED
  BY <1>2, <1>4, <1>q DEF DomainMoved

LEMMA DomainColumn ==
  ASSUME ResourceTablesOK, NEW v \in VMs, NEW d \in {"MATCHED", "ABSENT"},
         op' = [op EXCEPT ![v].domain = d]
  PROVE  \E q : /\ op' = [op EXCEPT ![v] = q] /\ OpFits(v, q) /\ q.kind = op[v].kind
                /\ q.state = op[v].state /\ q.host = op[v].host /\ q.domain = d
<1>q. PICK q : q = [op[v] EXCEPT !.domain = d]
  OBVIOUS
<1>1. op \in [VMs -> OpRow] /\ op[v] \in OpRow /\ OpFits(v, op[v])
  BY TablesTyped DEF ResourceTablesOK
<1>2. q \in OpRow
  BY <1>1, <1>q DEF OpRow
<1>3. /\ q.kind = op[v].kind /\ q.state = op[v].state /\ q.host = op[v].host /\ q.domain = d
      /\ q.asked = op[v].asked /\ q.detached = op[v].detached
      /\ q.retiring = op[v].retiring /\ q.absent = op[v].absent
  BY <1>1, <1>q DEF OpRow
<1>4. OpFits(v, q)
  BY <1>1, <1>2, <1>3 DEF OpFits
<1>5. op' = [op EXCEPT ![v] = q]
  BY <1>1, <1>q
<1>6. QED
  BY <1>3, <1>4, <1>5

LEMMA DeleteCommandMoves ==
  ASSUME AggregateInv, NEW v \in VMs,
         AuthorizeVMAggregateDeleteDomainCommand(v) \/ RecordVMAggregateDeleteDomainAbsence(v)
  PROVE  AggregateMove
<1>1. WorkloadInv /\ ResourceTablesOK /\ ResourceInv(v)
  BY DEF AggregateInv, WorkloadInv
<1>2. op \in [VMs -> OpRow] /\ op[v] \in OpRow /\ OpFits(v, op[v])
  BY <1>1, TablesTyped DEF ResourceTablesOK
<1>3. /\ op[v].kind = "DELETE" /\ op[v].state # "VERIFIED"
      /\ UNCHANGED evacuationVars /\ UNCHANGED <<resource, binding>>
  BY DEF AuthorizeVMAggregateDeleteDomainCommand, RecordVMAggregateDeleteDomainAbsence, DeleteMayProceed, Holds
<1>4. PICK q : /\ op' = [op EXCEPT ![v] = q] /\ OpFits(v, q)
               /\ q.kind = op[v].kind /\ q.state # "VERIFIED" /\ q.host = op[v].host
               /\ q.domain = "SENT" \/ (q.domain = "ABSENT" /\ op[v].domain = "MATCHED")
  <2>1. CASE AuthorizeVMAggregateDeleteDomainCommand(v)
    <3>s. PICK s : s = "VERIFYING"
      OBVIOUS
    <3>d. PICK d : d = "SENT"
      OBVIOUS
    <3>q. PICK q : q = DomainSet(op[v], s, d)
      OBVIOUS
    <3>1. op' = [op EXCEPT ![v] = q]
      BY <1>2, <2>1, <3>s, <3>d, <3>q DEF AuthorizeVMAggregateDeleteDomainCommand, DomainSet
    <3>2. s \in {"PENDING", "VERIFYING"} /\ d \in {"SENT", "MATCHED", "ABSENT"}
      BY <3>s, <3>d
    <3>3. OpFits(v, q) /\ q.kind = op[v].kind /\ q.state = s /\ q.host = op[v].host /\ q.domain = d
      <4>1. DomainMoved(v, op[v], s, d, DomainSet(op[v], s, d))
        BY <1>2, <3>2, DomainWritten
      <4>2. DomainMoved(v, op[v], s, d, q)
        BY <3>q, <4>1
      <4>3. QED
        BY <4>2 DEF DomainMoved
    <3>4. QED
      BY <3>1, <3>3, <3>s, <3>d
  <2>2. CASE RecordVMAggregateDeleteDomainAbsence(v)
    <3>d. PICK d : d = "ABSENT"
      OBVIOUS
    <3>1. op' = [op EXCEPT ![v].domain = d] /\ op[v].domain = "MATCHED" /\ d \in {"MATCHED", "ABSENT"}
      BY <2>2, <3>d DEF RecordVMAggregateDeleteDomainAbsence
    <3>2. PICK q : /\ op' = [op EXCEPT ![v] = q] /\ OpFits(v, q) /\ q.kind = op[v].kind
                   /\ q.state = op[v].state /\ q.host = op[v].host /\ q.domain = d
      BY <1>1, <3>1, DomainColumn
    <3>3. QED
      BY <1>3, <3>1, <3>2, <3>d
  <2>3. QED
    BY <2>1, <2>2
<1>5. /\ ResourceTablesOK' /\ op'[v] = q
      /\ \A w \in VMs : w # v => ResourceKept(w) /\ Converges(w)
  BY <1>1, <1>3, <1>4, OpWritten
<1>6. resource[v].life = "RETIRE_PENDING"
  BY <1>1, <1>3 DEF ResourceInv, OpBound
<1>7. UNCHANGED <<claims, machine, defined, domain>>
  BY <1>3 DEF evacuationVars, runtimeVars
<1>8. ResourceInv(v)'
  <2>1. OpBound(v)'
    BY <1>3, <1>4, <1>5, <1>6 DEF OpBound
  <2>2. BoundHome(v)'
    BY <1>1, <1>3, <1>7 DEF ResourceInv, BoundHome
  <2>3. Deleting(v)
    BY <1>1 DEF ResourceInv
  <2>4. Deleting(v)'
    BY <1>3, <1>4, <1>5, <1>7, <2>3 DEF Deleting
  <2>5. Gone(v)'
    BY <1>3, <1>6 DEF Gone
  <2>6. QED
    BY <2>1, <2>2, <2>4, <2>5 DEF ResourceInv
<1>9. Converges(v)
  BY <1>3 DEF Converges
<1>10. QED
  BY <1>1, <1>3, <1>5, <1>8, <1>9, ResourceMoves
LEMMA CleanupMoves ==
  ASSUME AggregateInv, NEW v \in VMs, ExecuteCleanup(v)
  PROVE  AggregateMove
<1>d. PICK d : d = "MATCHED"
  OBVIOUS
<1>h. PICK h : h = op[v].host
  OBVIOUS
<1>1. WorkloadInv /\ ResourceTablesOK /\ ResourceInv(v) /\ RuntimeInv(v) /\ RuntimeTypeOK
  BY DEF AggregateInv, WorkloadInv
<1>2. /\ op[v].domain = "SENT" /\ domain' = [domain EXCEPT ![v][h] = NoDomain]
      /\ op' = [op EXCEPT ![v].domain = d] /\ UNCHANGED evacVars /\ UNCHANGED <<resource, binding>>
      /\ UNCHANGED <<claims, attach, authority, machine, defined, ready, realized, dataplane, power,
                     commands, evidence>>
  BY <1>d, <1>h DEF ExecuteCleanup
<1>3. op[v].kind = "DELETE" /\ op[v].state # "VERIFIED"
  BY <1>1, <1>2 DEF ResourceInv, OpBound
<1>4. h \in VMHosts
  BY <1>1, <1>3, <1>h, DeletingBound
<1>5. resource[v].life = "RETIRE_PENDING"
  BY <1>1, <1>3 DEF ResourceInv, OpBound
<1>6. domain \in [VMs -> [VMHosts -> DomainRow]] /\ NoDomain \in DomainRow
  BY <1>1 DEF RuntimeTypeOK, NoDomain, DomainRow
<1>7. domain' \in [VMs -> [VMHosts -> DomainRow]]
  BY <1>2, <1>6, UpdatedTwice
<1>8. /\ domain'[v][h] = NoDomain /\ \A g \in VMHosts : domain'[v][g] \in {domain[v][g], NoDomain}
      /\ \A w \in VMs : w # v => domain'[w] = domain[w]
  <2>1. domain'[v][h] = NoDomain /\ \A w \in VMs : w # v => domain'[w] = domain[w]
    BY <1>2, <1>4, <1>6
  <2>2. ASSUME NEW g \in VMHosts, g # h PROVE domain'[v][g] = domain[v][g]
    BY <1>2, <1>4, <1>6, <2>2
  <2>3. QED
    BY <2>1, <2>2
<1>9. RuntimeTypeOK'
  BY <1>1, <1>2, <1>7 DEF RuntimeTypeOK
<1>10. \A w \in VMs : CheckedKept(w) /\ (w # v => RuntimeKept(w))
  BY <1>2, <1>8 DEF RuntimeKept, CheckedKept
<1>11. d \in {"MATCHED", "ABSENT"}
  BY <1>d
<1>12. PICK q : /\ op' = [op EXCEPT ![v] = q] /\ OpFits(v, q) /\ q.kind = op[v].kind
                /\ q.state = op[v].state /\ q.host = op[v].host /\ q.domain = d
  BY <1>1, <1>2, <1>11, DomainColumn
<1>13. /\ ResourceTablesOK' /\ op'[v] = q
       /\ \A w \in VMs : w # v => ResourceKept(w) /\ Converges(w)
  BY <1>1, <1>2, <1>12, OpWritten
<1>14. ReleasesStay
  BY <1>2 DEF ReleasesStay
<1>15. EvacMove /\ \A w \in VMs : ChildKept(w)
  BY <1>1, <1>2, <1>14, EvacStays DEF WorkloadInv
<1>16. child' = child
  BY <1>2 DEF evacVars
<1>17. RuntimeInv(v)'
  <2>1. Unborn(v)'
    BY <1>1, <1>2, <1>8, <1>16 DEF RuntimeInv, Unborn
  <2>2. Born(v)'
    BY <1>1, <1>2 DEF RuntimeInv, Born
  <2>3. AtHome(v)'
    BY <1>1, <1>2, <1>8, <1>16 DEF RuntimeInv, AtHome
  <2>4. CheckedHere(v)'
    BY <1>1, <1>2, <1>10, CheckedFrame
  <2>5. QED
    BY <2>1, <2>2, <2>3, <2>4 DEF RuntimeInv
<1>18. ResourceInv(v)'
  <2>1. OpBound(v)'
    BY <1>2, <1>3, <1>5, <1>12, <1>13 DEF OpBound
  <2>2. BoundHome(v)'
    BY <1>1, <1>2 DEF ResourceInv, BoundHome
  <2>3. op[v].host = binding[v].host /\ binding[v].plan = 1
    BY <1>1, <1>3, DeletingBound
  <2>4. Deleting(v)'
    BY <1>2, <1>8, <1>12, <1>13, <1>h, <2>3 DEF Deleting
  <2>5. Gone(v)'
    BY <1>2, <1>5 DEF Gone
  <2>6. QED
    BY <2>1, <2>2, <2>4, <2>5 DEF ResourceInv
<1>19. HostMoves(v) /\ Converges(v)
  BY <1>2, <1>3 DEF HostMoves, Converges
<1>20. WorkloadMove
  BY <1>1, <1>9, <1>10, <1>13, <1>15, <1>17, <1>18, <1>19, OthersKept
<1>21. QED
  BY <1>13, <1>19, <1>20 DEF AggregateMove

LEMMA DetachedMoves ==
  ASSUME AggregateInv, NEW v \in VMs, NEW r \in VolumesOf[v], AcceptLocalLVMAttachmentObservation(v, r)
  PROVE  AggregateMove
<1>s. PICK s : s = op[v].detached \cup {r}
  OBVIOUS
<1>q. PICK q : q = [op[v] EXCEPT !.detached = s]
  OBVIOUS
<1>1. WorkloadInv /\ ResourceTablesOK /\ ResourceInv(v) /\ RuntimeInv(v) /\ RuntimeTypeOK
  BY DEF AggregateInv, WorkloadInv
<1>2. op \in [VMs -> OpRow] /\ op[v] \in OpRow /\ OpFits(v, op[v])
  BY <1>1, TablesTyped DEF ResourceTablesOK
<1>3. /\ r \in op[v].asked /\ op' = [op EXCEPT ![v] = q]
      /\ attach' = [attach EXCEPT ![v][op[v].host] = "RELEASED"] \/ attach' = attach
      /\ UNCHANGED evacVars /\ UNCHANGED <<resource, binding>>
      /\ UNCHANGED <<claims, authority, machine, defined, ready, realized, dataplane, power,
                     commands, evidence, domain>>
  BY <1>2, <1>s, <1>q DEF AcceptLocalLVMAttachmentObservation
<1>4. s \subseteq op[v].asked /\ op[v].asked \subseteq VolumesOf[v]
  BY <1>2, <1>3, <1>s DEF OpFits
<1>5. s \in SUBSET Volumes
  BY <1>4, VolumesListed
<1>6. /\ SameOp(op[v], q) /\ q.asked = op[v].asked /\ q.detached = s /\ q.retiring = op[v].retiring
      /\ q.absent = op[v].absent
  BY <1>2, <1>5, <1>q, EvidenceAdded
<1>7. OpFits(v, q)
  BY <1>2, <1>4, <1>6 DEF OpFits, SameOp
<1>8. /\ ResourceTablesOK' /\ op'[v] = q
      /\ \A w \in VMs : w # v => ResourceKept(w) /\ Converges(w)
  BY <1>1, <1>3, <1>7, OpWritten
<1>9. attach \in [VMs -> [VMHosts -> ClaimStates]] /\ "RELEASED" \in ClaimStates
  BY <1>1 DEF RuntimeTypeOK, ClaimStates
<1>10. attach' \in [VMs -> [VMHosts -> ClaimStates]]
  <2>1. [attach EXCEPT ![v][op[v].host] = "RELEASED"] \in [VMs -> [VMHosts -> ClaimStates]]
    BY <1>9, UpdatedTwice
  <2>2. QED
    BY <1>3, <1>9, <2>1
<1>11. /\ \A g \in VMHosts : attach'[v][g] \in {attach[v][g], "RELEASED"}
       /\ \A w \in VMs : w # v => attach'[w] = attach[w]
  <2>1. CASE attach' = attach
    BY <2>1
  <2>2. CASE attach' = [attach EXCEPT ![v][op[v].host] = "RELEASED"]
    <3>1. \A w \in VMs : w # v => attach'[w] = attach[w]
      BY <1>9, <2>2
    <3>2. ASSUME NEW g \in VMHosts PROVE attach'[v][g] \in {attach[v][g], "RELEASED"}
      <4>1. CASE g = op[v].host
        BY <1>9, <2>2, <4>1
      <4>2. CASE g # op[v].host
        BY <1>9, <2>2, <4>2
      <4>3. QED
        BY <4>1, <4>2
    <3>3. QED
      BY <3>1, <3>2
  <2>3. QED
    BY <1>3, <2>1, <2>2
<1>12. RuntimeTypeOK'
  BY <1>1, <1>3, <1>10 DEF RuntimeTypeOK
<1>13. \A w \in VMs : CheckedKept(w) /\ (w # v => RuntimeKept(w))
  BY <1>3, <1>11 DEF RuntimeKept, CheckedKept
<1>14. ReleasesStay
  BY <1>3 DEF ReleasesStay
<1>15. EvacMove /\ \A w \in VMs : ChildKept(w)
  BY <1>1, <1>3, <1>14, EvacStays DEF WorkloadInv
<1>16. child' = child
  BY <1>3 DEF evacVars
<1>17. RuntimeInv(v)'
  <2>1. Unborn(v)' /\ Born(v)' /\ AtHome(v)'
    BY <1>1, <1>3, <1>16 DEF RuntimeInv, Unborn, Born, AtHome
  <2>2. CheckedHere(v)'
    BY <1>1, <1>3, <1>13, CheckedFrame
  <2>3. QED
    BY <2>1, <2>2 DEF RuntimeInv
<1>18. ResourceKept(v)
  BY <1>3, <1>6, <1>8 DEF ResourceKept, SameOp
<1>19. ResourceInv(v)'
  <2>1. OpBound(v)'
    BY <1>1, <1>18, OpFrame DEF ResourceInv
  <2>2. BoundHome(v)'
    BY <1>1, <1>3 DEF ResourceInv, BoundHome
  <2>3. Deleting(v)'
    BY <1>1, <1>3, <1>18 DEF ResourceInv, Deleting, ResourceKept
  <2>4. Gone(v)'
    <3>1. ASSUME resource[v].life = "DELETED" PROVE Gone(v)'
      <4>1. Gone(v) /\ machine[v].host \in VMHosts /\ attach[v][machine[v].host] # "RESERVED"
        BY <1>1, <3>1 DEF ResourceInv, Gone
      <4>2. attach'[v][machine[v].host] # "RESERVED"
        BY <1>11, <4>1
      <4>3. op'[v].state = op[v].state
        BY <1>18 DEF ResourceKept
      <4>4. QED
        BY <1>3, <1>16, <3>1, <4>1, <4>2, <4>3 DEF Gone
    <3>2. QED
      BY <1>3, <3>1 DEF Gone
  <2>5. QED
    BY <2>1, <2>2, <2>3, <2>4 DEF ResourceInv
<1>20. HostMoves(v)
  BY <1>3 DEF HostMoves
<1>21. Converges(v)
  BY <1>18 DEF Converges, ResourceKept
<1>22. WorkloadMove
  BY <1>1, <1>8, <1>12, <1>13, <1>15, <1>17, <1>19, <1>20, OthersKept
<1>23. QED
  BY <1>8, <1>21, <1>22 DEF AggregateMove
LEMMA DeletedSet ==
  ASSUME NEW m \in MachineRow
  PROVE  LET q == [m EXCEPT !.life = "DELETED", !.desired = "SHUTOFF"]
         IN q \in MachineRow /\ q.life = "DELETED" /\ q.host = m.host /\ q.plan = m.plan
BY DEF MachineRow

LEMMA RetiredSet ==
  ASSUME NEW r \in ResourceRow, NEW n \in Nat
  PROVE  LET q == [r EXCEPT !.life = "DELETED", !.rev = n, !.converged = TRUE]
         IN q \in ResourceRow /\ q.life = "DELETED"
BY DEF ResourceRow

LEMMA CompleteDeleteMoves ==
  ASSUME AggregateInv, NEW v \in VMs, CompleteVMAggregateDelete(v)
  PROVE  AggregateMove
<1>h. PICK h : h = op[v].host
  OBVIOUS
<1>m. PICK m : m = [machine[v] EXCEPT !.life = "DELETED", !.desired = "SHUTOFF"]
  OBVIOUS
<1>n. PICK n : n = resource[v].rev + 1
  OBVIOUS
<1>r. PICK r : r = [resource[v] EXCEPT !.life = "DELETED", !.rev = n, !.converged = TRUE]
  OBVIOUS
<1>1. WorkloadInv /\ ResourceTablesOK /\ ResourceInv(v) /\ RuntimeInv(v) /\ RuntimeTypeOK /\ ChildrenHeld
  BY DEF AggregateInv, WorkloadInv
<1>2. /\ resource \in [VMs -> ResourceRow] /\ resource[v] \in ResourceRow
      /\ machine \in [VMs -> MachineRow] /\ machine[v] \in MachineRow
  BY <1>1, TablesTyped, RowsTyped DEF ResourceTablesOK, RuntimeTypeOK
<1>3. /\ op[v].kind = "DELETE" /\ op[v].state # "VERIFIED" /\ op[v].domain = "ABSENT"
      /\ attach[v][h] = "RELEASED" /\ claims[v][h] = "RESERVED"
  BY <1>h DEF CompleteVMAggregateDelete, DeleteProfileComplete, DeleteMayProceed, Holds, StorageDetached
<1>4. /\ claims' = [claims EXCEPT ![v][h] = "RELEASED"] /\ power' = [power EXCEPT ![v] = NoPower]
      /\ ready' = [ready EXCEPT ![v] = NotReady] /\ binding' = [binding EXCEPT ![v] = NoBinding]
      /\ Closes(v) /\ UNCHANGED evacVars
      /\ UNCHANGED <<attach, authority, defined, realized, dataplane, commands, evidence, domain>>
  BY <1>h DEF CompleteVMAggregateDelete
<1>5. machine' = [machine EXCEPT ![v] = m]
  BY <1>2, <1>m DEF CompleteVMAggregateDelete
<1>6. resource' = [resource EXCEPT ![v] = r]
  BY <1>2, <1>n, <1>r DEF CompleteVMAggregateDelete
<1>7. n \in Nat
  <2>1. resource[v].rev \in Nat
    BY <1>2 DEF ResourceRow
  <2>2. QED
    BY <1>n, <2>1, SMTT(30)
<1>8. /\ m \in MachineRow /\ m.life = "DELETED" /\ m.host = machine[v].host /\ m.plan = machine[v].plan
  BY <1>2, <1>m, DeletedSet
<1>9. r \in ResourceRow /\ r.life = "DELETED"
  BY <1>2, <1>7, <1>r, RetiredSet
<1>10. NoBinding \in BindingRow /\ NoPower \in PowerRow /\ NotReady \in ReadyRow
  <2>1. 0 \in Nat
    BY SMTT(30)
  <2>2. QED
    BY <2>1 DEF NoBinding, BindingRow, NoPower, PowerRow, NotReady, ReadyRow
<1>11. PICK q : /\ op' = [op EXCEPT ![v] = q] /\ OpFits(v, q)
                /\ q.kind = op[v].kind /\ q.state = "VERIFIED" /\ q.domain = op[v].domain
  BY <1>1, <1>4, ClosedFits
<1>12. /\ ResourceTablesOK' /\ resource'[v] = r /\ op'[v] = q /\ binding'[v] = NoBinding
       /\ \A w \in VMs : w # v => ResourceKept(w) /\ Converges(w)
  BY <1>1, <1>4, <1>6, <1>9, <1>10, <1>11, TablesWritten
<1>13. h \in VMHosts /\ machine[v].host = h /\ machine[v].plan = 1 /\ defined[v] # 0
  BY <1>1, <1>3, <1>h, DeletingBound
<1>14. /\ claims \in [VMs -> [VMHosts -> ClaimStates]] /\ power \in [VMs -> PowerRow]
       /\ ready \in [VMs -> ReadyRow] /\ "RELEASED" \in ClaimStates
  BY <1>1 DEF RuntimeTypeOK, ClaimStates
<1>15. /\ claims' \in [VMs -> [VMHosts -> ClaimStates]] /\ power' \in [VMs -> PowerRow]
       /\ ready' \in [VMs -> ReadyRow] /\ machine' \in [VMs -> MachineRow]
  BY <1>2, <1>4, <1>5, <1>8, <1>10, <1>14, Updated, UpdatedTwice
<1>16. RuntimeTypeOK'
  BY <1>1, <1>4, <1>15 DEF RuntimeTypeOK
<1>17. /\ machine'[v] = m /\ power'[v] = NoPower /\ ready'[v] = NotReady
       /\ \A w \in VMs : w # v => machine'[w] = machine[w] /\ power'[w] = power[w] /\ ready'[w] = ready[w]
  BY <1>2, <1>4, <1>5, <1>14
<1>18. /\ claims'[v][h] = "RELEASED" /\ \A g \in VMHosts : g # h => claims'[v][g] = claims[v][g]
       /\ \A w \in VMs : w # v => claims'[w] = claims[w]
  BY <1>4, <1>13, <1>14
<1>19. \A w \in VMs : CheckedKept(w) /\ (w # v => RuntimeKept(w))
  BY <1>4, <1>17, <1>18 DEF RuntimeKept, CheckedKept
<1>20. ReleasesStay
  <2>1. ASSUME NEW g \in VMHosts, NEW w \in VMs, claims[w][g] = "RELEASED"
        PROVE  claims'[w][g] = "RELEASED"
    BY <1>18, <2>1
  <2>2. QED
    BY <2>1 DEF ReleasesStay
<1>21. EvacMove /\ \A w \in VMs : ChildKept(w)
  BY <1>1, <1>4, <1>20, EvacStays DEF WorkloadInv
<1>22. child' = child
  BY <1>4 DEF evacVars
<1>23. \A g \in VMHosts : g # h => domain[v][g] = NoDomain /\ child[g][v].phase = "NONE" /\ claims[v][g] = "NONE"
  BY <1>1, <1>3, <1>13 DEF RuntimeInv, AtHome
<1>24. domain[v][h] = NoDomain
  BY <1>1, <1>3, <1>h DEF ResourceInv, Deleting
<1>25. ASSUME NEW g \in VMHosts PROVE ~child[g][v].released /\ claims'[v][g] # "RESERVED" /\ domain[v][g] = NoDomain
  <2>1. claims[v][g] # "RELEASED"
    BY <1>3, <1>23
  <2>2. ~child[g][v].released
    BY <1>1, <2>1 DEF ChildrenHeld, ChildHeld
  <2>3. claims'[v][g] # "RESERVED" /\ domain[v][g] = NoDomain
    BY <1>18, <1>23, <1>24
  <2>4. QED
    BY <2>2, <2>3
<1>26. NoPower.state = "NONE" /\ NotReady.boot = "NONE"
  BY DEF NoPower, NotReady
<1>27. RuntimeInv(v)'
  <2>1. Unborn(v)'
    BY <1>8, <1>17 DEF Unborn
  <2>2. machine[v].plan # 0
    BY <1>13, SMTT(30)
  <2>3. Born(v)'
    BY <1>8, <1>13, <1>17, <2>2 DEF Born
  <2>4. AtHome(v)'
    BY <1>4, <1>8, <1>13, <1>17, <1>18, <1>22, <1>23, <1>26 DEF AtHome
  <2>5. CheckedHere(v)'
    BY <1>1, <1>4, <1>8, <1>17, <1>19, CheckedFrame
  <2>6. QED
    BY <2>1, <2>3, <2>4, <2>5 DEF RuntimeInv
<1>28. ResourceInv(v)'
  <2>1. OpBound(v)' /\ Deleting(v)'
    BY <1>3, <1>11, <1>12, ClosedBound
  <2>2. BoundHome(v)'
    BY <1>9, <1>12 DEF BoundHome
  <2>3. machine'[v].host = h
    BY <1>8, <1>13, <1>17
  <2>4. Gone(v)'
    BY <1>3, <1>4, <1>11, <1>12, <1>13, <1>18, <1>22, <1>25, <2>3 DEF Gone
  <2>5. QED
    BY <2>1, <2>2, <2>4 DEF ResourceInv
<1>29. HostMoves(v) /\ Converges(v)
  BY <1>3, <1>8, <1>17 DEF HostMoves, Converges
<1>30. WorkloadMove
  BY <1>1, <1>12, <1>16, <1>19, <1>21, <1>27, <1>28, <1>29, OthersKept
<1>31. QED
  BY <1>12, <1>29, <1>30 DEF AggregateMove

LEMMA DeleteStepMoves ==
  ASSUME AggregateInv, NEW v \in VMs, DeleteStep(v)
  PROVE  AggregateMove
BY StartDeleteMoves, DeleteCommandMoves, CleanupMoves, ReadBackAskedMoves, DetachedMoves,
   PortRetiredMoves, PortAbsentMoves, CompleteDeleteMoves DEF DeleteStep
-----------------------------------------------------------------------------
(* The specification.                                                      *)

LEMMA EvacuationStarts ==
  ASSUME EvacuationInit
  PROVE  EvacTablesOK /\ ChildrenHeld
<1>1. 0 \in Nat
  BY SMTT(30)
<1>2. NoChild \in ChildRow /\ NoEvac \in EvacRow /\ "NONE" \in SlotStates
  BY <1>1 DEF NoChild, ChildRow, Phases, NoEvac, EvacRow, SlotStates
<1>3. NoChild.retired = {} /\ NoChild.retiring = {} /\ NoChild.released = FALSE /\ NoChild.dest = NoHost
  BY DEF NoChild
<1>4. EvacTablesOK
  BY <1>2, <1>3 DEF EvacuationInit, EvacTablesOK
<1>5. ChildrenHeld
  BY <1>3 DEF EvacuationInit, ChildrenHeld, ChildHeld
<1>6. QED
  BY <1>4, <1>5

LEMMA AggregateStarts ==
  ASSUME AggregateInit
  PROVE  AggregateInv
<1>1. RuntimeTypeOK /\ EvacTablesOK /\ ChildrenHeld
  BY RuntimeStarts, EvacuationStarts DEF AggregateInit, EvacuationInit
<1>2. 0 \in Nat /\ 0 # 1
  BY SMTT(30)
<1>3. NoVerdict \in VerdictRow
  BY <1>2 DEF NoVerdict, VerdictRow
<1>4. NoResource \in ResourceRow /\ NoBinding \in BindingRow /\ NoOp \in OpRow
  BY <1>2, <1>3 DEF NoResource, ResourceRow, NoBinding, BindingRow, NoOp, OpRow
<1>5. /\ NoOp.state = "VERIFIED" /\ NoOp.kind = "NONE" /\ NoOp.domain = "NONE" /\ NoOp.asked = {}
      /\ NoOp.detached = {} /\ NoOp.retiring = {} /\ NoOp.absent = {} /\ NoResource.life = "NONE"
  BY DEF NoOp, NoResource
<1>6. ResourceTablesOK
  BY <1>4, <1>5 DEF AggregateInit, ResourceTablesOK, OpFits
<1>7. ASSUME NEW v \in VMs PROVE RuntimeInv(v) /\ ResourceInv(v)
  <2>1. /\ machine[v] = NoMachine /\ defined[v] = 0 /\ ready[v] = NotReady /\ power[v] = NoPower
        /\ \A h \in VMHosts : domain[v][h] = NoDomain /\ claims[v][h] = "NONE" /\ child[h][v] = NoChild
        /\ op[v] = NoOp /\ resource[v] = NoResource /\ commands = {}
    BY DEF AggregateInit, EvacuationInit, RuntimeInit
  <2>2. /\ NoMachine.life = "NONE" /\ NoMachine.host = NoHost /\ NoMachine.plan = 0
        /\ NotReady.boot = "NONE" /\ NoPower.state = "NONE" /\ NoChild.phase = "NONE"
    BY DEF NoMachine, NotReady, NoPower, NoChild
  <2>3. RuntimeInv(v)
    BY <1>2, <2>1, <2>2 DEF RuntimeInv, Unborn, Born, AtHome, CheckedHere
  <2>4. ResourceInv(v)
    BY <1>5, <2>1 DEF ResourceInv, OpBound, BoundHome, Deleting, Gone
  <2>5. QED
    BY <2>3, <2>4
<1>8. QED
  BY <1>1, <1>6, <1>7 DEF AggregateInv, WorkloadInv

\* Nothing of the resource tables changes.
LEMMA TablesStay ==
  ASSUME ResourceTablesOK, UNCHANGED resourceVars
  PROVE  ResourceTablesOK' /\ \A v \in VMs : Converges(v)
BY DEF ResourceTablesOK, Converges, OpFits, resourceVars

LEMMA AggregateStep ==
  ASSUME AggregateInv, [AggregateNext]_aggregateVars
  PROVE  AggregateMove
<1>1. WorkloadInv /\ ResourceTablesOK
  BY DEF AggregateInv
<1>2. CASE UnderAggregate /\ UNCHANGED resourceVars
  BY <1>1, <1>2, UnderAggregateMoves, TablesStay DEF AggregateMove
<1>3. ASSUME NEW v \in VMs, CreateStep(v) \/ UpdateStep(v) \/ DeleteStep(v) PROVE AggregateMove
  BY <1>3, CreateStepMoves, UpdateStepMoves, DeleteStepMoves
<1>4. CASE UNCHANGED aggregateVars
  <2>1. UNCHANGED evacuationVars /\ UNCHANGED resourceVars
    BY <1>4 DEF aggregateVars
  <2>2. /\ RuntimeTypeOK' /\ EvacMove
        /\ \A w \in VMs : RuntimeKept(w) /\ ChildKept(w)
    BY <1>1, <2>1, EvacuationStays
  <2>3. \A w \in VMs : ResourceKept(w)
    BY <2>1 DEF resourceVars, ResourceKept
  <2>4. WorkloadMove
    BY <1>1, <2>2, <2>3, KeptMoves
  <2>5. QED
    BY <1>1, <2>1, <2>4, TablesStay DEF AggregateMove
<1>5. QED
  BY <1>2, <1>3, <1>4 DEF AggregateNext

\* The inductive invariant of the VM resources, their runtime and the
\* evacuations: everything below follows from it.
LEMMA AggregateHolds ==
  AggregateSpec => []AggregateInv
<1>1. ASSUME AggregateInv, [AggregateNext]_aggregateVars PROVE AggregateInv'
  BY <1>1, AggregateStep DEF AggregateMove, WorkloadMove, AggregateInv
<1>2. QED
  BY <1>1, AggregateStarts, PTL DEF AggregateSpec

\* The rows of the tables of a VM, of the evacuations and of the VM resources
\* keep the columns and states of their tables; what was retired or read back
\* absent was asked for, among the ports and volumes of the VM.
THEOREM AggregateRowsTyped ==
  AggregateSpec => []AggregateTypeOK
<1>1. ASSUME AggregateInv PROVE AggregateTypeOK
  BY <1>1 DEF AggregateInv, WorkloadInv, EvacTablesOK, ResourceTablesOK, OpFits, AggregateTypeOK, EvacuationTypeOK
<1>2. QED
  BY <1>1, AggregateHolds, PTL

\* A deleted VM has no domain on any host and holds no compute claim, whatever
\* read-backs, definitions and evacuations were under way when it was deleted.
THEOREM DeletedStaysGone ==
  AggregateSpec => []DeletedIsGone
<1>1. ASSUME AggregateInv PROVE DeletedIsGone
  BY <1>1 DEF AggregateInv, WorkloadInv, ResourceInv, Gone, DeletedIsGone
<1>2. QED
  BY <1>1, AggregateHolds, PTL

\* A verified child of an evacuation stays verified as long as its host drains.
THEOREM VerifiedChildren ==
  AggregateSpec => VerifiedChildStays
<1>1. ASSUME AggregateInv, [AggregateNext]_aggregateVars
      PROVE  [\A h \in VMHosts, v \in VMs :
                child[h][v].phase = "VERIFIED" /\ evac'[h].gen = evac[h].gen /\ drain[h] # "NONE"
                  => child'[h][v].phase = "VERIFIED"]_evacuationVars
  BY <1>1, AggregateStep DEF AggregateMove, WorkloadMove, VerifiedStays
<1>2. QED
  BY <1>1, AggregateHolds, PTL DEF AggregateSpec, VerifiedChildStays

\* A VM only leaves a host whose admission of it was released, and only for
\* one that has it reserved: whatever read-backs, definitions and commands are
\* under way when an evacuation or a delete moves the rows.
THEOREM MovesClaimed ==
  AggregateSpec => MovesWithItsClaim
<1>1. ASSUME AggregateInv, [AggregateNext]_aggregateVars
      PROVE  [\A v \in VMs : machine[v].host # NoHost /\ machine'[v].host # machine[v].host =>
                /\ claims[v][machine[v].host] = "RELEASED"
                /\ machine'[v].host # NoHost /\ claims[v][machine'[v].host] = "RESERVED"]_runtimeVars
  BY <1>1, AggregateStep DEF AggregateMove, WorkloadMove, HostMoves
<1>2. QED
  BY <1>1, AggregateHolds, PTL DEF AggregateSpec, MovesWithItsClaim

\* A create or power operation only ends verified in a state in which the
\* power row shows the desired power, read back from the bound host.
THEOREM ConvergenceObserved ==
  AggregateSpec => ConvergedAsObserved
<1>1. ASSUME AggregateInv, [AggregateNext]_aggregateVars
      PROVE  [\A v \in VMs : op[v].state # "VERIFIED" /\ op'[v].state = "VERIFIED" /\ op[v].kind # "DELETE"
                => power'[v].state = resource'[v].power /\ power'[v].host = binding'[v].host]_aggregateVars
  BY <1>1, AggregateStep DEF AggregateMove, Converges
<1>2. QED
  BY <1>1, AggregateHolds, PTL DEF AggregateSpec, ConvergedAsObserved
=============================================================================
