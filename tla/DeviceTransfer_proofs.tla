------------------------- MODULE DeviceTransfer_proofs -------------------------
(***************************************************************************)
(* Proofs about DeviceBuilder and DeviceTransfer: for whatever well-formed *)
(* file the kernel shows, the updater reads configurations where they are, *)
(* and the objects it reports are those of the file; and a transfer of any *)
(* length to any type of pipe is reported as it went.                      *)
(***************************************************************************)
EXTENDS DeviceTransfer, TLAPS

(***************************************************************************)
(* The file.                                                               *)
(***************************************************************************)
\* After the last descriptor of a block that is not the last comes a
\* configuration's descriptor.
LEMMA NextIsConfig ==
  ASSUME NEW f, WellFormed(f), NEW n \in 1..Len(f),
         f[n].end >= f[n].total, f[n].nth < f[1].number
  PROVE  n < Len(f) /\ f[n+1].type = "config"
<1>0. Len(f) \in Nat \ {0} /\ f[n].nth \in Nat /\ f[Len(f)].nth = f[1].number
  BY DEF WellFormed
<1>1. n # Len(f)
  BY <1>0
<1>2. n + 1 \in 2..Len(f) /\ (n + 1) - 1 = n
  BY <1>0, <1>1
<1>3. f[n+1].type = "config"
  <2>1. SUFFICES ASSUME f[n+1].type # "config" PROVE FALSE
    OBVIOUS
  <2>2. f[n].end < f[n].total
    BY <1>2, <2>1 DEF WellFormed
  <2>3. f[n].end \in Nat /\ f[n].total \in Nat
    BY DEF WellFormed
  <2> QED  BY <2>2, <2>3
<1> QED  BY <1>0, <1>1, <1>3

\* Within a block comes another descriptor of it.
LEMMA NextInBlock ==
  ASSUME NEW f, WellFormed(f), NEW n \in 1..Len(f), f[n].end < f[n].total
  PROVE  /\ n < Len(f) /\ n + 1 > 2 /\ f[n+1].type # "config"
         /\ f[n+1].nth = f[n].nth /\ f[n+1].total = f[n].total
         /\ f[n+1].end = f[n].end + Bytes(f[n+1].length)
<1>1. /\ f[n].end \in Nat /\ f[n].total \in Nat /\ Len(f) \in Nat \ {0}
      /\ f[Len(f)].end >= f[Len(f)].total
  BY DEF WellFormed
<1>2. n # Len(f)
  BY <1>1
<1>3. n + 1 \in 2..Len(f) /\ (n + 1) - 1 = n
  BY <1>1, <1>2
<1>4. f[n+1].type # "config"
  <2>1. SUFFICES ASSUME f[n+1].type = "config" PROVE FALSE
    OBVIOUS
  <2>2. f[n].end >= f[n].total
    BY <1>3, <2>1 DEF WellFormed
  <2> QED  BY <2>2, <1>1
<1>5. /\ n + 1 > 2
      /\ f[n+1].nth = f[n].nth /\ f[n+1].total = f[n].total
      /\ f[n+1].end = f[n].end + Bytes(f[n+1].length)
  BY <1>3, <1>4 DEF WellFormed
<1> QED  BY <1>1, <1>2, <1>4, <1>5

\* Where the numbers of all configurations have been counted, the file ends.
LEMMA AllConfigs ==
  ASSUME NEW f, WellFormed(f), NEW n \in 1..Len(f),
         f[n].end >= f[n].total, f[n].nth >= f[1].number
  PROVE  n = Len(f)
<1>1. SUFFICES ASSUME n # Len(f) PROVE FALSE
  OBVIOUS
<1>2. n + 1 \in 2..Len(f) /\ (n + 1) - 1 = n /\ n + 1 \in 1..Len(f) /\ Len(f) \in 1..Len(f)
  BY <1>1 DEF WellFormed
<1>3. f[n].end \in Nat /\ f[n].total \in Nat /\ f[n].nth \in Nat /\ f[Len(f)].nth \in Nat
  BY <1>2 DEF WellFormed
<1>4. f[n+1].type = "config"
  <2>1. SUFFICES ASSUME f[n+1].type # "config" PROVE FALSE
    OBVIOUS
  <2>2. f[n].end < f[n].total
    BY <1>2, <2>1 DEF WellFormed
  <2> QED  BY <2>2, <1>3
<1>5. f[n+1].nth = f[n].nth + 1
  BY <1>2, <1>4 DEF WellFormed
<1>6. f[n+1].nth <= f[Len(f)].nth
  <2>1. n + 1 <= Len(f)
    BY <1>2
  <2> QED  BY <1>2, <2>1 DEF WellFormed
<1>7. f[Len(f)].nth = f[1].number
  BY DEF WellFormed
<1> QED  BY <1>3, <1>5, <1>6, <1>7

\* What one more descriptor adds to the tree.
LEMMA ParentsStep ==
  ASSUME NEW f, NEW n \in Nat
  PROVE  ParentsUpTo(f, n + 1) =
           ParentsUpTo(f, n) \cup {<<j, n + 1>> : j \in {k \in 1..n : IsParent(f, k, n + 1)}}
<1> DEFINE New == {<<j, n + 1>> : j \in {k \in 1..n : IsParent(f, k, n + 1)}}
<1>1. ASSUME NEW e \in ParentsUpTo(f, n + 1)
      PROVE  e \in ParentsUpTo(f, n) \cup New
  <2>1. PICK j \in 1..(n+1), i \in 1..(n+1) : e = <<j, i>> /\ IsParent(f, j, i)
    BY <1>1 DEF ParentsUpTo
  <2>2. j < i
    BY <2>1 DEF IsParent
  <2>3. CASE i = n + 1
    BY <2>1, <2>2, <2>3
  <2>4. CASE i # n + 1
    BY <2>1, <2>2, <2>4 DEF ParentsUpTo
  <2> QED  BY <2>3, <2>4
<1>2. ASSUME NEW e \in ParentsUpTo(f, n)  PROVE e \in ParentsUpTo(f, n + 1)
  BY <1>2 DEF ParentsUpTo
<1>3. ASSUME NEW e \in New  PROVE e \in ParentsUpTo(f, n + 1)
  BY <1>3 DEF ParentsUpTo
<1> QED  BY <1>1, <1>2, <1>3

LEMMA NoParent ==
  ASSUME NEW f, NEW n \in Nat, \A k \in 1..n : ~ IsParent(f, k, n + 1)
  PROVE  ParentsUpTo(f, n + 1) = ParentsUpTo(f, n)
<1>1. {<<j, n + 1>> : j \in {k \in 1..n : IsParent(f, k, n + 1)}} = {}
  OBVIOUS
<1> QED  BY <1>1, ParentsStep

LEMMA OneParent ==
  ASSUME NEW f, NEW n \in Nat, NEW p \in 1..n, \A k \in 1..n : IsParent(f, k, n + 1) <=> k = p
  PROVE  ParentsUpTo(f, n + 1) = ParentsUpTo(f, n) \cup {<<p, n + 1>>}
<1>1. {k \in 1..n : IsParent(f, k, n + 1)} = {p}
  OBVIOUS
<1> QED  BY <1>1, ParentsStep

LEMMA NoParentsYet == ASSUME NEW f, NEW n \in {0, 1} PROVE ParentsUpTo(f, n) = {}
<1> SUFFICES ASSUME NEW e \in ParentsUpTo(f, n) PROVE FALSE
  OBVIOUS
<1>1. PICK j \in 1..n, i \in 1..n : e = <<j, i>> /\ j < i
  BY DEF ParentsUpTo, IsParent
<1> QED  BY <1>1

\* In a block the configuration is the block's.
LEMMA SameConfig ==
  ASSUME NEW f, WellFormed(f), NEW c \in 2..Len(f), f[c].type = "config",
         NEW i \in 2..Len(f), f[i].type = "interface", c < i,
         \A k \in (c + 1)..i : f[k].type # "config", f[i].nth = f[c].nth,
         NEW x
  PROVE  i \in Interfaces(f, x) <=> f[c].number = x
<1>1. Len(f) \in Nat /\ \A k \in 1..Len(f) : f[k].nth \in Nat
  BY DEF WellFormed
<1>2. ASSUME i \in Interfaces(f, x)  PROVE f[c].number = x
  <2>1. PICK j \in 2..i : f[j].type = "config" /\ f[j].nth = f[i].nth /\ f[j].number = x
    BY <1>2 DEF Interfaces
  <2>2. ~ j < c
    <3>1. SUFFICES ASSUME j < c PROVE FALSE
      OBVIOUS
    <3>2. c - 1 \in 1..Len(f) /\ j \in 1..Len(f) /\ j <= c - 1
      BY <3>1, <1>1
    <3>3. f[c].nth = f[c-1].nth + 1
      BY DEF WellFormed
    <3>4. f[j].nth <= f[c-1].nth
      BY <3>2 DEF WellFormed
    <3> QED  BY <1>1, <2>1, <3>2, <3>3, <3>4
  <2>3. j \notin (c + 1)..i
    BY <2>1
  <2>4. j = c
    BY <2>2, <2>3, <1>1
  <2> QED  BY <2>1, <2>4
<1>3. ASSUME f[c].number = x  PROVE i \in Interfaces(f, x)
  <2>1. c \in 2..i
    BY <1>1
  <2> QED  BY <1>3, <2>1 DEF Interfaces
<1> QED  BY <1>2, <1>3

(***************************************************************************)
(* The invariant, action by action.                                        *)
(***************************************************************************)
LEMMA InitInv == BuilderInit => BuilderInv
<1> SUFFICES ASSUME BuilderInit PROVE BuilderInv
  OBVIOUS
<1>1. WellFormed(file) /\ Len(file) \in Nat
  BY FilesAssumption DEF BuilderInit, WellFormed
<1>2. FlagsOK
  BY Zenon DEF BuilderInit, FlagsOK
<1>5. BuilderTypeOK /\ PlaceInv /\ NoDeviceLost
  BY <1>1, <1>2 DEF BuilderInit, BuilderTypeOK, PlaceInv, NoDeviceLost
<1>3. TreeInv
  BY NoParentsYet DEF BuilderInit, TreeInv
<1>4. ActiveInv
  BY DEF BuilderInit, ActiveInv
<1> QED  BY <1>3, <1>4, <1>5 DEF BuilderInv

LEMMA KernelInv == ASSUME BuilderInv, Kernel PROVE BuilderInv'
<1>1. UNCHANGED <<file, stage, at, pos, ncfg, config, interface, built, reported, failed>>
      /\ ~ quiet'
  BY DEF Kernel, buildVars, objectVars
<1>0. WellFormed(file)' /\ ParentsUpTo(file, at)' = ParentsUpTo(file, at)
  BY <1>1, Zenon DEF BuilderInv, BuilderTypeOK
<1>5. FlagsOK'
  BY <1>1 DEF Kernel, BuilderInv, BuilderTypeOK, FlagsOK
<1>2. (BuilderTypeOK /\ PlaceInv /\ TreeInv /\ NoDeviceLost)'
  BY <1>0, <1>1, <1>5 DEF BuilderInv, BuilderTypeOK, PlaceInv, TreeInv, Going, NoDeviceLost
<1>3. configuration' \in ConfigNumbers(file) \cup {0}
  BY DEF Kernel, SetConfiguration, SetInterface, BuilderInv, ActiveInv
<1>4. ActiveInv'
  BY <1>1, <1>3 DEF ActiveInv, ConfigNumbers
<1> QED  BY <1>2, <1>4 DEF BuilderInv

\* The steps that read nothing and give up nothing but the device.
LEMMA StageInv ==
  ASSUME BuilderInv,
         open_device \/ OpenFails \/ Fails \/ hub_portinfo \/ connectinfo \/ Refuses
           \/ ConfigEnds \/ checkUsbDeviceImp \/ build_config_astray
  PROVE  BuilderInv'
<1> USE DEF BuilderInv
<1>1. UNCHANGED <<kernelVars, at, pos, config, interface, objectVars, quiet>>
  BY DEF open_device, OpenFails, Fails, hub_portinfo, connectinfo, Refuses, ConfigEnds,
         checkUsbDeviceImp, build_config_astray
<1>7. WellFormed(file)'
  BY <1>1, Zenon DEF BuilderTypeOK, kernelVars
<1>8. FlagsOK'
  BY <1>1, Zenon DEF BuilderTypeOK, FlagsOK, open_device, OpenFails, Fails, hub_portinfo,
     connectinfo, Refuses, ConfigEnds, checkUsbDeviceImp, build_config_astray
<1>2. BuilderTypeOK'
  BY <1>1, <1>7, <1>8 DEF BuilderTypeOK, open_device, OpenFails, Fails, hub_portinfo, connectinfo,
     Refuses, ConfigEnds, checkUsbDeviceImp, build_config_astray, Goto, LoopFrom, kernelVars
<1>3. Going' => Going
  BY <1>1 DEF BuilderTypeOK, PlaceInv, Going, open_device, OpenFails, Fails, hub_portinfo,
     connectinfo, Refuses, ConfigEnds, checkUsbDeviceImp, build_config_astray, Goto, LoopFrom, Loop
<1>4. TreeInv' /\ ActiveInv'
  <2>1. UNCHANGED <<file, configuration, altsetting, at, built, activeConfig, activeSettings, quiet>>
    BY <1>1 DEF kernelVars, objectVars
  <2>2. \A i : Selected(i)' = Selected(i)
    BY <2>1 DEF Selected, Interfaces
  <2>3. TreeInv'
    BY <1>3, <2>1 DEF TreeInv
  <2> QED  BY <1>3, <2>1, <2>2, <2>3 DEF ActiveInv, ConfigNumbers
<1>5. PlaceInv'
  <2>1. CASE open_device \/ OpenFails \/ Fails \/ Refuses
    BY <1>1, <2>1 DEF PlaceInv, BuilderTypeOK, open_device, OpenFails, Fails, Refuses, Goto,
       Loop, Overruns, kernelVars
  <2>2. CASE hub_portinfo
    BY <1>1, <2>2 DEF PlaceInv, hub_portinfo, Goto, Overruns, kernelVars
  <2>3. CASE connectinfo
    <3>1. file[1].end = file[1].total /\ file[1].nth = 0
      BY DEF BuilderTypeOK, WellFormed
    <3>2. file[1].number \in Nat
      BY DEF BuilderTypeOK, WellFormed
    <3>3. at = 1 /\ ncfg = 0 /\ ~ reported /\ ~ Overruns(file, 1)
      <4>1. at = 1 /\ ncfg = 0 /\ ~ reported
        BY <2>3 DEF PlaceInv, connectinfo, Goto
      <4>2. ~ (file[1].end > file[1].total)
        BY <3>1 DEF BuilderTypeOK, WellFormed
      <4> QED  BY <4>1, <4>2 DEF Overruns
    <3>4. /\ UNCHANGED <<file, at, ncfg, reported>>
          /\ stage' = (IF 0 < file[1].number THEN "config" ELSE "check")
      BY <1>1, <2>3 DEF connectinfo, Goto, LoopFrom, kernelVars
    <3>5. \A i \in 1..at : i = 1
      BY <3>3
    <3>6. /\ \A i \in 1..at' : ~ Overruns(file, i)' /\ file[1].end >= file[1].total
          /\ ~ reported'
      BY <3>1, <3>3, <3>4, <3>5 DEF BuilderTypeOK, WellFormed, Overruns
    <3>7. stage' = "config" => ncfg' < file'[1].number
      BY <3>2, <3>3, <3>4
    <3>8. stage' = "check" => ncfg' >= file'[1].number
      BY <3>2, <3>3, <3>4
    <3> QED  BY <3>1, <3>3, <3>4, <3>6, <3>7, <3>8 DEF PlaceInv
  <2>4. CASE ConfigEnds
    <3>1. at \in 1..Len(file) /\ at \in 2..Len(file) /\ file[1].number \in Nat
      BY <2>4 DEF PlaceInv, BuilderTypeOK, ConfigEnds, Goto, WellFormed
    <3>3. file[at].end >= file[at].total
      BY <2>4 DEF PlaceInv, ConfigEnds, Goto
    <3> QED  BY <1>1, <2>4, <3>1, <3>3 DEF PlaceInv, BuilderTypeOK, ConfigEnds, Goto,
             Overruns, kernelVars, LoopFrom
  <2>5. CASE checkUsbDeviceImp
    <3>1. at \in 1..Len(file) /\ ncfg >= file[1].number
      BY <2>5 DEF PlaceInv, BuilderTypeOK, checkUsbDeviceImp, Goto
    <3>2. at = Len(file)
      BY <2>5, <3>1, AllConfigs DEF PlaceInv, BuilderTypeOK, checkUsbDeviceImp, Goto
    <3> QED  BY <1>1, <2>5, <3>2 DEF PlaceInv, checkUsbDeviceImp, Goto, Overruns, kernelVars
  <2>6. CASE build_config_astray
    <3>1. stage = "config" /\ at \in 1..Len(file) /\ Len(file) \in Nat
      BY <2>6 DEF PlaceInv, BuilderTypeOK, WellFormed, build_config_astray, Goto
    <3>2. at # 1
      BY <2>6 DEF BuilderTypeOK, WellFormed, Overruns, build_config_astray
    <3>3. at \in 2..Len(file) /\ Overruns(file, at)
      BY <2>6, <3>1, <3>2 DEF build_config_astray
    <3>4. UNCHANGED <<file, at>> /\ stage' = "astray"
      BY <1>1, <2>6 DEF build_config_astray, Goto, kernelVars
    <3> QED  BY <3>3, <3>4 DEF PlaceInv, Overruns
  <2> QED  BY <2>1, <2>2, <2>3, <2>4, <2>5, <2>6
<1>6. NoDeviceLost'
  <2>1. CASE Refuses
    <3>1. CASE stage = "config"
      <4>1. at < Len(file)
        BY <3>1, NextIsConfig DEF PlaceInv, BuilderTypeOK
      <4>2. at + 1 \in 2..Len(file) /\ Overruns(file, at + 1)
        BY <4>1, <3>1, <2>1 DEF Refuses, ShortRead, Loop, PlaceInv, BuilderTypeOK
      <4> QED  BY <1>1, <4>2 DEF NoDeviceLost, Overruns, kernelVars
    <3>2. CASE Loop
      <4>1. at \in 1..Len(file) /\ file[at].end < file[at].total
        BY <3>2 DEF PlaceInv, BuilderTypeOK, Loop
      <4>2. at < Len(file) /\ desc.type # "config"
        BY <4>1, NextInBlock DEF BuilderTypeOK, desc
      <4>3. at + 1 \in 2..Len(file)
        BY <4>1, <4>2
      <4> QED  BY <1>1, <2>1, <3>2, <4>2, <4>3
               DEF Refuses, ShortRead, Overruns, desc, NoDeviceLost, kernelVars, Loop
    <3> QED  BY <2>1, <3>1, <3>2 DEF Refuses
  <2>3. CASE build_config_astray
    BY <1>5, <2>3 DEF NoDeviceLost, PlaceInv, build_config_astray, Goto
  <2>2. CASE ~ (Refuses \/ build_config_astray)
    BY <1>1, <2>2 DEF NoDeviceLost, open_device, OpenFails, Fails, hub_portinfo, connectinfo,
       ConfigEnds, checkUsbDeviceImp, Goto, LoopFrom, PlaceInv, BuilderTypeOK
  <2> QED  BY <2>1, <2>2, <2>3
<1> QED  BY <1>2, <1>4, <1>5, <1>6

\* What the reading steps do not change.
LEMMA FileKept ==
  ASSUME BuilderTypeOK, UNCHANGED <<kernelVars, reported, failed>>, FlagsOK'
  PROVE  /\ WellFormed(file)' /\ Len(file)' = Len(file)
         /\ \A i : Selected(i)' = Selected(i)
<1>1. file' = file /\ configuration' = configuration /\ altsetting' = altsetting
  BY DEF kernelVars
<1>2. WellFormed(file)' /\ Len(file)' = Len(file)
  BY <1>1, Zenon DEF BuilderTypeOK
<1>3. \A i : Selected(i)' = Selected(i)
  BY <1>1 DEF Selected, Interfaces
<1> QED  BY <1>2, <1>3

LEMMA DeviceInv == ASSUME BuilderInv, get_device_descriptor PROVE BuilderInv'
<1> USE DEF BuilderInv
<1>1. /\ stage = "device" /\ stage' \in {"hub", "connect"} /\ at = 0 /\ at' = 1 /\ ncfg = 0
      /\ UNCHANGED <<file, configuration, altsetting, pos, ncfg, config, interface, built,
                     activeConfig, activeSettings, reported, quiet, failed>>
  BY DEF get_device_descriptor, get_descriptor, Goto, PlaceInv, kernelVars, objectVars
<1>2. FlagsOK'
  BY <1>1, Zenon DEF BuilderTypeOK, FlagsOK
<1>3. WellFormed(file)' /\ \A i : Selected(i)' = Selected(i)
  BY <1>1, <1>2, FileKept DEF kernelVars
<1>4. Len(file) \in Nat \ {0}
  BY DEF BuilderTypeOK, WellFormed
<1>5. BuilderTypeOK'
  BY <1>1, <1>2, <1>3, <1>4 DEF BuilderTypeOK
<1>6. PlaceInv' /\ NoDeviceLost'
  <2>1. ~ Overruns(file, 1)
    BY DEF BuilderTypeOK, WellFormed, Overruns
  <2> QED  BY <1>1, <2>1 DEF PlaceInv, NoDeviceLost, Overruns
<1>7. TreeInv'
  <2>1. built = {}
    BY <1>1, NoParentsYet DEF TreeInv, Going
  <2> QED  BY <1>1, <2>1, NoParentsYet DEF TreeInv
<1>8. ActiveInv'
  <2>1. Going /\ Going'
    BY <1>1 DEF Going
  <2>2. \A j \in activeSettings : quiet => j \in Int /\ Selected(j) /\ j <= at
    BY <2>1 DEF ActiveInv, Selected, Interfaces
  <2>3. (2..at)' = {} /\ 2..at = {}
    BY <1>1
  <2>4. quiet => activeConfig = 0
    BY <2>1, <2>3 DEF ActiveInv
  <2> QED  BY <1>1, <1>3, <2>2, <2>3, <2>4 DEF ActiveInv, ConfigNumbers
<1> QED  BY <1>5, <1>6, <1>7, <1>8

LEMMA ConfigInv ==
  ASSUME BuilderInv, NEW worked \in BOOLEAN, build_config(worked)
  PROVE  BuilderInv'
<1> USE DEF BuilderInv
<1>1. /\ stage = "config" /\ stage' = "descriptor" /\ at' = at + 1 /\ config' = at + 1
      /\ interface' = 0 /\ pos' = file[at+1].length /\ built' = built \cup {<<1, at + 1>>}
      /\ UNCHANGED <<file, configuration, altsetting, ncfg, activeSettings, reported, failed>>
  BY DEF build_config, get_descriptor, createUsbConfigImp, Goto, kernelVars, desc
<1>2. FlagsOK'
  BY <1>1, Zenon DEF BuilderTypeOK, FlagsOK, build_config
<1>3. WellFormed(file)' /\ \A i : Selected(i)' = Selected(i)
  BY <1>1, <1>2, FileKept DEF kernelVars
<1>4. /\ at \in 1..Len(file) /\ Len(file) \in Nat /\ at < Len(file)
      /\ file[at+1].type = "config" /\ at + 1 \in 2..Len(file) /\ at + 1 \in 1..Len(file)
  <2>1. at \in 1..Len(file) /\ Len(file) \in Nat
    BY <1>1 DEF BuilderTypeOK, PlaceInv, WellFormed
  <2>2. at < Len(file) /\ file[at+1].type = "config"
    BY <1>1, <2>1, NextIsConfig DEF BuilderTypeOK, PlaceInv
  <2> QED  BY <2>1, <2>2
<1>5. /\ file[at+1].nth = file[at].nth + 1 /\ file[at+1].end = file[at+1].length
      /\ file[at+1].length \in Nat
      /\ file[at+1].number # 0
  <2>1. (at + 1) - 1 = at
    BY <1>4
  <2> QED  BY <1>4, <2>1 DEF BuilderTypeOK, WellFormed
<1>6. BuilderTypeOK'
  BY <1>1, <1>2, <1>3, <1>4, <1>5 DEF BuilderTypeOK
<1>7. PlaceInv' /\ NoDeviceLost'
  <2>1. \A i \in 1..(at + 1) : Overruns(file, i) => i = at + 1 /\ at + 1 < Len(file)
    BY <1>4 DEF PlaceInv, build_config, get_descriptor, ShortRead
  <2> QED  BY <1>1, <1>4, <1>5, <2>1 DEF PlaceInv, NoDeviceLost, Overruns
<1>8. TreeInv'
  <2>1. built = ParentsUpTo(file, at)
    BY <1>1 DEF TreeInv, Going
  <2>2. \A k \in 1..at : IsParent(file, k, at + 1) <=> k = 1
    BY <1>4 DEF IsParent
  <2>3. ParentsUpTo(file, at + 1) = ParentsUpTo(file, at) \cup {<<1, at + 1>>}
    BY <1>4, <2>2, ParentsStep
  <2> QED  BY <1>1, <2>1, <2>3 DEF TreeInv
<1>9. ActiveInv'
  <2>1. SUFFICES ASSUME quiet'
                 PROVE  /\ activeConfig' =
                             IF \E i \in 2..(at + 1) : file[i].type = "config" /\ file[i].number = configuration
                             THEN configuration ELSE 0
                        /\ \A j \in activeSettings : Selected(j) /\ j <= at + 1
                        /\ \A i \in 2..(at + 1) : Selected(i) =>
                             \E j \in activeSettings : file[j].number = file[i].number
    BY <1>1, <1>3 DEF ActiveInv, ConfigNumbers
  <2>2. quiet /\ worked /\ Going
    BY <1>1, <2>1 DEF build_config, Going
  <2>3. activeConfig' = IF configuration = file[at+1].number THEN configuration ELSE activeConfig
    BY <1>1, <2>2 DEF build_config, createUsbConfigImp, isConfigActive, config_use_get_ioctl, desc
  <2>4. activeConfig' =
          IF \E i \in 2..(at + 1) : file[i].type = "config" /\ file[i].number = configuration
          THEN configuration ELSE 0
    BY <1>4, <2>2, <2>3 DEF ActiveInv
  <2>5. ~ Selected(at + 1)
    BY <1>4 DEF Selected, Interfaces
  <2>6. \A j \in activeSettings : Selected(j) /\ j <= at
    BY <2>2 DEF ActiveInv
  <2>7. \A j \in activeSettings : j \in Int
    BY <2>6 DEF Selected, Interfaces
  <2>8. \A j \in activeSettings : Selected(j) /\ j <= at + 1
    BY <1>4, <2>6, <2>7
  <2>9. \A i \in 2..(at + 1) : Selected(i) =>
          \E j \in activeSettings : file[j].number = file[i].number
    BY <1>4, <2>2, <2>5 DEF ActiveInv
  <2> QED  BY <2>4, <2>8, <2>9
<1> QED  BY <1>6, <1>7, <1>8, <1>9

\* What one turn of the loop that accepts a descriptor has in common.
LEMMA AcceptsInv ==
  ASSUME BuilderInv, Accepts, FlagsOK', interface' \in 0..(at + 1)
  PROVE  /\ stage = "descriptor" /\ stage' = "descriptor" /\ at' = at + 1
         /\ at \in 2..Len(file) /\ Len(file) \in Nat /\ at + 1 \in 2..Len(file)
         /\ config \in 2..at /\ file[config].type = "config"
         /\ file[at+1].type # "config" /\ file[at+1].nth = file[config].nth
         /\ \A k \in (config + 1)..(at + 1) : file[k].type # "config"
         /\ UNCHANGED <<file, configuration, altsetting, ncfg, config, activeConfig, reported,
                        failed>>
         /\ \A i : Selected(i)' = Selected(i)
         /\ BuilderTypeOK'
         /\ pos' = file[at+1].end /\ file[at+1].nth = ncfg + 1
         /\ file[config].total = file[at+1].total
         /\ \A i \in 1..(at + 1) : Overruns(file, i) => i = at + 1 /\ at + 1 < Len(file)
<1> USE DEF BuilderInv
<1>1. /\ stage = "descriptor" /\ stage' = "descriptor" /\ at' = at + 1
      /\ pos < file[config].total /\ file[at+1].length >= 2 /\ pos' = pos + file[at+1].length
      /\ UNCHANGED <<file, configuration, altsetting, ncfg, config, activeConfig, reported,
                     failed>>
  BY DEF Accepts, Loop, get_descriptor, desc, kernelVars
<1>2. /\ at \in 2..Len(file) /\ Len(file) \in Nat /\ config \in 2..at /\ at \in 1..Len(file)
      /\ file[at].end < file[at].total /\ file[config].type = "config"
  <2>1. Len(file) \in Nat
    BY DEF BuilderTypeOK, WellFormed
  <2>2. at \in 0..Len(file) /\ config \in 0..at
    BY DEF BuilderTypeOK
  <2>3. /\ at >= 2 /\ pos = file[at].end /\ config >= 2 /\ file[config].type = "config"
        /\ file[config].total = file[at].total
    BY <1>1 DEF PlaceInv
  <2> QED  BY <1>1, <2>1, <2>2, <2>3
<1>3. /\ at < Len(file) /\ file[at+1].type # "config" /\ file[at+1].nth = file[at].nth
      /\ file[at+1].total = file[at].total
      /\ file[at+1].end = file[at].end + Bytes(file[at+1].length)
  BY <1>2, NextInBlock DEF BuilderTypeOK
<1>4. at + 1 \in 2..Len(file) /\ at + 1 \in 1..Len(file)
  BY <1>2, <1>3
<1>5. file[at+1].length \in Nat /\ file[at].end \in Nat /\ file[at+1].end \in Nat
  BY <1>2, <1>4 DEF BuilderTypeOK, WellFormed
<1>6. pos' = file[at+1].end
  BY <1>1, <1>3, <1>5 DEF PlaceInv, Bytes
<1>7. WellFormed(file)' /\ \A i : Selected(i)' = Selected(i)
  BY <1>1, FileKept DEF kernelVars
<1>8. BuilderTypeOK'
  BY <1>1, <1>2, <1>4, <1>5, <1>6, <1>7 DEF BuilderTypeOK
<1>9. \A k \in (config + 1)..(at + 1) : file[k].type # "config"
  BY <1>1, <1>2, <1>3 DEF PlaceInv
<1>10. \A i \in 1..(at + 1) : Overruns(file, i) => i = at + 1 /\ at + 1 < Len(file)
  <2>1. file[at].end \in Nat /\ file[at].total \in Nat
    BY <1>2 DEF BuilderTypeOK, WellFormed
  <2>2. ~ Overruns(file, at)
    BY <1>2, <2>1 DEF Overruns
  <2>3. ~ ShortRead
    BY DEF Accepts, get_descriptor
  <2> QED  BY <1>2, <1>3, <1>4, <2>2, <2>3 DEF PlaceInv, ShortRead
<1> QED  BY <1>1, <1>2, <1>3, <1>4, <1>6, <1>7, <1>8, <1>9, <1>10 DEF PlaceInv

\* What a turn of the loop has to show beyond that.
LEMMA AcceptedInv ==
  ASSUME BuilderInv, Accepts, FlagsOK', interface' \in 0..(at + 1),
         \/ interface' = at + 1 /\ file[at+1].type = "interface"
         \/ interface' = interface /\ file[at+1].type # "interface",
         TreeInv', ActiveInv'
  PROVE  BuilderInv'
<1>1. BuilderTypeOK'
  BY AcceptsInv
<1>2. PlaceInv'
  <2>1. interface \in 0..at /\ ~ reported
    BY AcceptsInv DEF BuilderInv, BuilderTypeOK, PlaceInv
  <2>2. /\ \A k \in (IF interface = 0 THEN config + 1 ELSE interface + 1)..at :
            file[k].type # "interface"
        /\ interface # 0 => interface > config /\ file[interface].type = "interface"
    BY AcceptsInv DEF BuilderInv, PlaceInv
  <2>3. /\ \A k \in (IF interface' = 0 THEN config + 1 ELSE interface' + 1)..(at + 1) :
            file[k].type # "interface"
        /\ interface' # 0 => interface' > config /\ file[interface'].type = "interface"
    <3>1. CASE interface' = at + 1 /\ file[at+1].type = "interface"
      BY <3>1, AcceptsInv
    <3>2. CASE interface' = interface /\ file[at+1].type # "interface"
      BY <2>1, <2>2, <3>2, AcceptsInv
    <3> QED  BY <3>1, <3>2
  <2>4. /\ stage' = "descriptor" /\ at' = at + 1 /\ at + 1 >= 2 /\ config >= 2
        /\ file[config].total = file[at+1].total /\ file[config].nth = file[at+1].nth
        /\ file[at+1].nth = ncfg + 1 /\ pos' = file[at+1].end /\ file[config].type = "config"
        /\ \A k \in (config + 1)..(at + 1) : file[k].type # "config"
        /\ UNCHANGED <<file, config, ncfg, reported>>
        /\ \A i \in 1..(at + 1) : Overruns(file, i) => i = at + 1 /\ at + 1 < Len(file)
    BY AcceptsInv
  <2> QED  BY <2>1, <2>3, <2>4 DEF PlaceInv, Overruns
<1>3. NoDeviceLost'
  BY AcceptsInv DEF NoDeviceLost
<1> QED  BY <1>1, <1>2, <1>3 DEF BuilderInv

\* The settings, when the descriptor read is not an interface's.
LEMMA OtherActiveInv ==
  ASSUME BuilderInv, Accepts, FlagsOK', interface' \in 0..(at + 1),
         file[at+1].type # "interface", UNCHANGED <<quiet, activeSettings>>
  PROVE  ActiveInv'
<1>1. Going
  BY AcceptsInv DEF Going
<1>2. ~ Selected(at + 1)
  BY AcceptsInv DEF Selected, Interfaces
<1>3. SUFFICES ASSUME quiet
               PROVE  /\ activeConfig =
                           IF \E i \in 2..(at + 1) : file[i].type = "config" /\ file[i].number = configuration
                           THEN configuration ELSE 0
                      /\ \A j \in activeSettings : Selected(j) /\ j <= at + 1
                      /\ \A i \in 2..(at + 1) : Selected(i) =>
                           \E j \in activeSettings : file[j].number = file[i].number
  BY AcceptsInv DEF ActiveInv, ConfigNumbers, BuilderInv
<1>4. \A j \in activeSettings : Selected(j) /\ j <= at /\ j \in Int
  BY <1>1, <1>3 DEF BuilderInv, ActiveInv, Selected, Interfaces
<1>5. \A i \in 2..(at + 1) : i \in 2..at \/ i = at + 1
  BY AcceptsInv
<1>6. activeConfig =
        IF \E i \in 2..(at + 1) : file[i].type = "config" /\ file[i].number = configuration
        THEN configuration ELSE 0
  BY <1>1, <1>3, <1>5, AcceptsInv DEF BuilderInv, ActiveInv
<1>7. \A i \in 2..(at + 1) : Selected(i) =>
        \E j \in activeSettings : file[j].number = file[i].number
  BY <1>1, <1>2, <1>3, <1>5 DEF BuilderInv, ActiveInv
<1> QED  BY <1>4, <1>6, <1>7, AcceptsInv

LEMMA InterfaceInv ==
  ASSUME BuilderInv, NEW worked \in BOOLEAN, build_interface(worked)
  PROVE  BuilderInv'
<1>1. /\ Accepts /\ file[at+1].type = "interface" /\ interface' = at + 1
      /\ built' = built \cup {<<config, at + 1>>} /\ quiet' = (quiet /\ worked)
  BY DEF build_interface, createUsbInterfaceImp, desc
<1>2. FlagsOK'
  BY <1>1, Zenon DEF BuilderInv, BuilderTypeOK, FlagsOK, Accepts
<1>3. interface' \in 0..(at + 1)
  BY <1>1 DEF BuilderInv, BuilderTypeOK
<1>4. Going
  BY <1>1, <1>2, <1>3, AcceptsInv DEF Going
<1>5. TreeInv'
  <2>1. \A k \in 1..at : IsParent(file, k, at + 1) <=> k = config
    <3>1. IsParent(file, config, at + 1)
      BY <1>1, <1>2, <1>3, AcceptsInv DEF IsParent
    <3>2. ASSUME NEW k \in 1..at, IsParent(file, k, at + 1)  PROVE k = config
      <4>1. file[k].type = "config" /\ \A i \in (k + 1)..((at + 1) - 1) : file[i].type # "config"
        BY <1>1, <3>2 DEF IsParent
      <4>2. ~ k < config
        BY <4>1, <1>1, <1>2, <1>3, AcceptsInv
      <4>3. ~ k > config
        BY <4>1, <1>1, <1>2, <1>3, AcceptsInv
      <4> QED  BY <4>2, <4>3, <1>1, <1>2, <1>3, AcceptsInv
    <3> QED  BY <3>1, <3>2
  <2>2. ParentsUpTo(file, at + 1) = ParentsUpTo(file, at) \cup {<<config, at + 1>>}
    <3>1. config \in 1..at /\ at \in Nat
      BY <1>1, <1>2, <1>3, AcceptsInv
    <3> QED  BY <2>1, <3>1, ParentsStep
  <2>3. built = ParentsUpTo(file, at)
    BY <1>4 DEF BuilderInv, TreeInv
  <2> QED  BY <1>1, <1>2, <1>3, <2>2, <2>3, AcceptsInv DEF TreeInv
<1>6. ActiveInv'
  <2>1. SUFFICES ASSUME quiet'
                 PROVE  /\ activeConfig =
                             IF \E i \in 2..(at + 1) : file[i].type = "config" /\ file[i].number = configuration
                             THEN configuration ELSE 0
                        /\ \A j \in activeSettings' : Selected(j) /\ j <= at + 1
                        /\ \A i \in 2..(at + 1) : Selected(i) =>
                             \E j \in activeSettings' : file[j].number = file[i].number
    BY <1>1, <1>2, <1>3, AcceptsInv DEF ActiveInv, ConfigNumbers, BuilderInv
  <2>2. quiet /\ worked
    BY <1>1, <2>1
  <2>3. activeConfig =
          IF \E i \in 2..at : file[i].type = "config" /\ file[i].number = configuration
          THEN configuration ELSE 0
    BY <1>4, <2>2 DEF BuilderInv, ActiveInv
  <2>4. \A i \in 2..(at + 1) : i \in 2..at \/ i = at + 1
    BY <1>1, <1>2, <1>3, AcceptsInv
  <2>5. activeConfig =
          IF \E i \in 2..(at + 1) : file[i].type = "config" /\ file[i].number = configuration
          THEN configuration ELSE 0
    BY <1>1, <1>2, <1>3, <2>3, <2>4, AcceptsInv
  <2>6. \A j \in activeSettings : Selected(j) /\ j <= at /\ j \in Int
    BY <1>4, <2>2 DEF BuilderInv, ActiveInv, Selected, Interfaces
  <2>7. \A i \in 2..at : Selected(i) => \E j \in activeSettings : file[j].number = file[i].number
    BY <1>4, <2>2 DEF BuilderInv, ActiveInv
  <2>8. at + 1 \in Interfaces(file, configuration) <=> file[config].number = configuration
    <3>1. config \in 2..Len(file) /\ config < at + 1 /\ WellFormed(file)
      BY <1>1, <1>2, <1>3, AcceptsInv DEF BuilderInv, BuilderTypeOK
    <3> QED  BY <3>1, <1>1, <1>2, <1>3, AcceptsInv, SameConfig
  <2>9. activeConfig = file[config].number <=> file[config].number = configuration
    <3>1. file[config].number # 0
      BY <1>1, <1>2, <1>3, AcceptsInv DEF BuilderInv, BuilderTypeOK, WellFormed
    <3>2. config \in 2..at /\ file[config].type = "config"
      BY <1>1, <1>2, <1>3, AcceptsInv
    <3> QED  BY <2>3, <3>1, <3>2
  <2>10. CASE Selected(at + 1)
    <3>1. activeSettings' = Activate(at + 1)
      BY <2>2, <2>8, <2>9, <2>10
         DEF build_interface, createUsbInterfaceImp, isInterfaceSettingActive, interface_use_get_ioctl, Selected, desc
    <3>2. \A j \in activeSettings' : j \in activeSettings \/ j = at + 1
      BY <3>1 DEF Activate
    <3>3. at + 1 \in activeSettings'
      BY <3>1 DEF Activate
    <3>4. \A j \in activeSettings' : Selected(j) /\ j <= at + 1
      BY <2>6, <2>10, <3>2, <1>1, <1>2, <1>3, AcceptsInv
    <3>5. ASSUME NEW i \in 2..(at + 1), Selected(i)
          PROVE  \E j \in activeSettings' : file[j].number = file[i].number
      <4>1. CASE file[i].number = file[at+1].number
        BY <3>3, <4>1
      <4>2. CASE file[i].number # file[at+1].number
        <5>1. PICK j \in activeSettings : file[j].number = file[i].number
          BY <2>4, <2>7, <3>5, <4>2
        <5> QED  BY <3>1, <4>2, <5>1 DEF Activate
      <4> QED  BY <4>1, <4>2
    <3> QED  BY <2>5, <3>4, <3>5
  <2>11. CASE ~ Selected(at + 1)
    <3>1. activeSettings' = activeSettings
      BY <2>2, <2>8, <2>9, <2>11
         DEF build_interface, createUsbInterfaceImp, isInterfaceSettingActive, interface_use_get_ioctl, Selected, desc
    <3>2. \A j \in activeSettings' : Selected(j) /\ j <= at + 1
      BY <2>6, <3>1, <1>1, <1>2, <1>3, AcceptsInv
    <3>3. \A i \in 2..(at + 1) : Selected(i) =>
            \E j \in activeSettings' : file[j].number = file[i].number
      BY <2>4, <2>7, <2>11, <3>1
    <3> QED  BY <2>5, <3>2, <3>3
  <2> QED  BY <2>10, <2>11
<1> QED  BY <1>1, <1>2, <1>3, <1>5, <1>6, AcceptedInv

LEMMA EndpointInv == ASSUME BuilderInv, build_endpoint PROVE BuilderInv'
<1>1. /\ Accepts /\ file[at+1].type = "endpoint" /\ interface' = interface
      /\ built' = IF interface = 0 THEN built ELSE built \cup {<<interface, at + 1>>}
      /\ UNCHANGED <<quiet, activeSettings>>
  BY DEF build_endpoint, desc
<1>2. FlagsOK'
  BY <1>1, Zenon DEF BuilderInv, BuilderTypeOK, FlagsOK, Accepts
<1>3. interface \in 0..at /\ interface' \in 0..(at + 1)
  BY <1>1 DEF BuilderInv, BuilderTypeOK
<1>4. Going
  BY <1>1, <1>2, <1>3, AcceptsInv DEF Going
<1>5. TreeInv'
  <2>1. /\ \A k \in (IF interface = 0 THEN config + 1 ELSE interface + 1)..at :
            file[k].type # "interface"
        /\ interface # 0 => interface > config /\ file[interface].type = "interface"
    BY <1>1, <1>2, <1>3, AcceptsInv DEF BuilderInv, PlaceInv
  <2>2. \A k \in 1..at : IsParent(file, k, at + 1) <=> interface # 0 /\ k = interface
    <3>1. ASSUME interface # 0  PROVE IsParent(file, interface, at + 1)
      BY <2>1, <3>1, <1>1, <1>2, <1>3, AcceptsInv DEF IsParent
    <3>2. ASSUME NEW k \in 1..at, IsParent(file, k, at + 1)
          PROVE  interface # 0 /\ k = interface
      <4>1. /\ file[k].type = "interface"
            /\ \A i \in (k + 1)..((at + 1) - 1) : file[i].type \notin {"config", "interface"}
        BY <1>1, <3>2 DEF IsParent
      <4>2. k > config
        BY <4>1, <1>1, <1>2, <1>3, AcceptsInv
      <4>3. interface # 0
        BY <2>1, <4>1, <4>2, <1>1, <1>2, <1>3, AcceptsInv
      <4>4. ~ k > interface
        BY <2>1, <4>1, <4>3, <1>3
      <4>5. ~ k < interface
        BY <2>1, <4>1, <4>3, <1>1, <1>2, <1>3, AcceptsInv
      <4> QED  BY <4>3, <4>4, <4>5, <1>3
    <3> QED  BY <3>1, <3>2
  <2>3. at \in Nat /\ (interface # 0 => interface \in 1..at)
    BY <1>1, <1>2, <1>3, AcceptsInv
  <2>4. ParentsUpTo(file, at + 1) =
          IF interface = 0 THEN ParentsUpTo(file, at)
          ELSE ParentsUpTo(file, at) \cup {<<interface, at + 1>>}
    <3>1. CASE interface = 0
      BY <2>2, <2>3, <3>1, NoParent
    <3>2. CASE interface # 0
      BY <2>2, <2>3, <3>2, OneParent
    <3> QED  BY <3>1, <3>2
  <2>5. built = ParentsUpTo(file, at)
    BY <1>4 DEF BuilderInv, TreeInv
  <2> QED  BY <1>1, <1>2, <1>3, <2>4, <2>5, AcceptsInv DEF TreeInv
<1>6. ActiveInv'
  BY <1>1, <1>2, <1>3, OtherActiveInv
<1> QED  BY <1>1, <1>2, <1>3, <1>5, <1>6, AcceptedInv

LEMMA IgnoresInv == ASSUME BuilderInv, Ignores PROVE BuilderInv'
<1>1. /\ Accepts /\ file[at+1].type = "other" /\ interface' = interface /\ built' = built
      /\ UNCHANGED <<quiet, activeSettings>>
  BY DEF Ignores, desc
<1>2. FlagsOK'
  BY <1>1, Zenon DEF BuilderInv, BuilderTypeOK, FlagsOK, Accepts
<1>3. interface' \in 0..(at + 1)
  BY <1>1 DEF BuilderInv, BuilderTypeOK
<1>4. Going
  BY <1>1, <1>2, <1>3, AcceptsInv DEF Going
<1>5. TreeInv'
  <2>1. \A k \in 1..at : ~ IsParent(file, k, at + 1)
    BY <1>1 DEF IsParent
  <2>2. at \in Nat
    BY <1>1, <1>2, <1>3, AcceptsInv
  <2>3. ParentsUpTo(file, at + 1) = ParentsUpTo(file, at)
    BY <2>1, <2>2, NoParent
  <2>4. built = ParentsUpTo(file, at)
    BY <1>4 DEF BuilderInv, TreeInv
  <2> QED  BY <1>1, <1>2, <1>3, <2>3, <2>4, AcceptsInv DEF TreeInv
<1>6. ActiveInv'
  BY <1>1, <1>2, <1>3, OtherActiveInv
<1> QED  BY <1>1, <1>2, <1>3, <1>5, <1>6, AcceptedInv

LEMMA NextInv == ASSUME BuilderInv, [BuilderNext]_builderVars PROVE BuilderInv'
<1>1. CASE Kernel
  BY <1>1, KernelInv
<1>2. CASE open_device \/ OpenFails \/ Fails \/ hub_portinfo \/ connectinfo \/ Refuses
             \/ ConfigEnds \/ checkUsbDeviceImp \/ build_config_astray
  BY <1>2, StageInv
<1>3. CASE get_device_descriptor
  BY <1>3, DeviceInv
<1>4. CASE \E worked \in BOOLEAN : build_config(worked) \/ build_interface(worked)
  BY <1>4, ConfigInv, InterfaceInv
<1>5. CASE build_endpoint \/ Ignores
  BY <1>5, EndpointInv, IgnoresInv
<1>6. CASE UNCHANGED builderVars
  <2>1. UNCHANGED <<file, configuration, altsetting, stage, at, pos, ncfg, config, interface,
                    built, activeConfig, activeSettings, reported, quiet, failed>>
    BY <1>6 DEF builderVars, kernelVars, buildVars, objectVars
  <2>2. /\ WellFormed(file)' /\ ParentsUpTo(file, at)' = ParentsUpTo(file, at)
        /\ \A i : Selected(i)' = Selected(i)
    BY <2>1 DEF BuilderInv, BuilderTypeOK, Selected, Interfaces
  <2>3. FlagsOK'
    BY <2>1, Zenon DEF BuilderInv, BuilderTypeOK, FlagsOK
  <2>4. (BuilderTypeOK /\ PlaceInv /\ TreeInv /\ NoDeviceLost)'
    BY <2>1, <2>2, <2>3 DEF BuilderInv, BuilderTypeOK, PlaceInv, TreeInv, Going, NoDeviceLost
  <2>5. ActiveInv'
    BY <2>1, <2>2 DEF BuilderInv, ActiveInv, Going, ConfigNumbers
  <2> QED  BY <2>4, <2>5 DEF BuilderInv
<1> QED  BY <1>1, <1>2, <1>3, <1>4, <1>5, <1>6 DEF BuilderNext, BuildStep

(***************************************************************************)
(* The theorems.                                                           *)
(***************************************************************************)
\* The inductive invariant of the build, for any well-formed files, whatever
\* fails and whoever sets configurations meanwhile.
THEOREM BuilderInvariance == BuilderSpec => []BuilderInv
<1>1. BuilderInit => BuilderInv
  BY InitInv
<1>2. BuilderInv /\ [BuilderNext]_builderVars => BuilderInv'
  BY NextInv
<1> QED  BY <1>1, <1>2, PTL DEF BuilderSpec

\* The descriptor that build_config reads first and takes for a configuration's is
\* one, unless the block before ended in a descriptor that went past its end.
LEMMA InvAligned == BuilderInv => ConfigsAligned
<1> SUFFICES ASSUME BuilderInv, stage = "config", ~ Overruns(file, at)
             PROVE  at < Len(file) /\ file[at+1].type = "config"
  BY DEF ConfigsAligned, desc
<1>1. at \in 1..Len(file) /\ WellFormed(file)
  BY DEF BuilderInv, BuilderTypeOK, PlaceInv
<1>2. file[at].end >= file[at].total /\ file[at].nth < file[1].number
  BY DEF BuilderInv, PlaceInv
<1> QED  BY <1>1, <1>2, NextIsConfig

THEOREM ConfigsAlignedHolds == BuilderSpec => []ConfigsAligned
BY InvAligned, BuilderInvariance, PTL

\* A device is reported with all of its file, each object below the right one, and
\* no descriptor of it went past the end of its block; unless the reads went astray.
LEMMA InvTree == BuilderInv => TreeIsFile
<1> SUFFICES ASSUME BuilderInv, reported, stage # "astray"
             PROVE  built = ParentsUpTo(file, Len(file)) /\ \A i \in 1..Len(file) : ~ Overruns(file, i)
  BY DEF TreeIsFile
<1>1. stage = "done" /\ at = Len(file)
  BY DEF BuilderInv, PlaceInv
<1> QED  BY <1>1 DEF BuilderInv, PlaceInv, TreeInv, Going

THEOREM TreeIsFileHolds == BuilderSpec => []TreeIsFile
BY InvTree, BuilderInvariance, PTL

\* A device is left out only because something failed or a descriptor is none.
THEOREM NoDeviceLostHolds == BuilderSpec => []NoDeviceLost
<1>1. BuilderInv => NoDeviceLost
  BY DEF BuilderInv
<1> QED  BY <1>1, BuilderInvariance, PTL

\* A quiet build takes for active what the device has selected, and no more.
LEMMA InvActive == BuilderInv => ActiveIsDevices
<1> SUFFICES ASSUME BuilderInv, reported, stage # "astray", quiet
             PROVE  /\ activeConfig = configuration
                    /\ \A j \in activeSettings : Selected(j)
                    /\ \A i \in 2..Len(file) : Selected(i) =>
                         \E j \in activeSettings : file[j].number = file[i].number
  BY DEF ActiveIsDevices
<1>1. at = Len(file) /\ Going
  BY DEF BuilderInv, PlaceInv, Going
<1>2. configuration = 0 \/ \E i \in 2..Len(file) : file[i].type = "config" /\ file[i].number = configuration
  BY DEF BuilderInv, ActiveInv, ConfigNumbers
<1> QED  BY <1>1, <1>2 DEF BuilderInv, ActiveInv

THEOREM ActiveIsDevicesHolds == BuilderSpec => []ActiveIsDevices
BY InvActive, BuilderInvariance, PTL

(***************************************************************************)
(* The transfers.                                                          *)
(***************************************************************************)
\* What is submitted for each type of pipe.
LEMMA UrbForType ==
  ASSUME NEW t \in EndpointTypes \cup {"dcp"}, NEW n \in Nat
  PROVE  UrbFor(t, n) =
           [type |-> IF t = "isochronous" THEN "ISO"
                     ELSE IF t \in {"control", "dcp"} THEN "CONTROL" ELSE "BULK",
            buffer_length |-> IF t = "dcp" THEN n + Setup ELSE n,
            actual_length |-> 0, status |-> 0,
            packet |-> [length |-> IF t = "isochronous" THEN n ELSE 0,
                        actual_length |-> 0, status |-> 0]]
<1>1. CASE t = "dcp"
  <2>1. UrbFor(t, n) = dcp_request(n)
    BY <1>1 DEF UrbFor
  <2> QED  BY <1>1, <2>1 DEF dcp_request, control_pipe_request, NoUrb, NoPacket
<1>2. CASE t = "control"
  <2>1. UrbFor(t, n) = control_pipe_request([NoUrb EXCEPT !.buffer_length = n])
    BY <1>2 DEF UrbFor, pipe_request
  <2> QED  BY <1>2, <2>1 DEF control_pipe_request, NoUrb, NoPacket
<1>3. CASE t = "bulk"
  <2>1. UrbFor(t, n) = bulk_pipe_request([NoUrb EXCEPT !.buffer_length = n])
    BY <1>3 DEF UrbFor, pipe_request
  <2> QED  BY <1>3, <2>1 DEF bulk_pipe_request, NoUrb, NoPacket
<1>4. CASE t = "interrupt"
  <2>1. UrbFor(t, n) = interrupt_pipe_request([NoUrb EXCEPT !.buffer_length = n])
    BY <1>4 DEF UrbFor, pipe_request
  <2> QED  BY <1>4, <2>1 DEF interrupt_pipe_request, NoUrb, NoPacket
<1>5. CASE t = "isochronous"
  <2>1. UrbFor(t, n) = isochronous_pipe_request([NoUrb EXCEPT !.buffer_length = n])
    BY <1>5 DEF UrbFor, pipe_request
  <2> QED  BY <1>5, <2>1 DEF isochronous_pipe_request, NoUrb, NoPacket
<1> QED  BY <1>1, <1>2, <1>3, <1>4, <1>5 DEF EndpointTypes

\* What the completion of each type takes from its URB.
LEMMA CompleteType ==
  ASSUME NEW t \in EndpointTypes \cup {"dcp"}, NEW u
  PROVE  complete_request(t, u) =
           IF t = "isochronous" THEN [length |-> u.packet.actual_length, ret |-> u.packet.status]
           ELSE [length |-> IF t \in {"control", "dcp"} THEN u.actual_length + Setup
                            ELSE u.actual_length,
                 ret |-> u.status]
BY DEF EndpointTypes, complete_request, complete_dcp_request, complete_control_pipe_request,
       complete_bulk_pipe_request, complete_interrupt_pipe_request,
       complete_isochronous_pipe_request

LEMMA CallInv ==
  ASSUME TransferInv, NEW t, NEW n \in Lengths, Refused(t, n) \/ Submitted(t, n)
  PROVE  TransferInv'
<1>1. n \in Nat
  BY LengthsAssumption
<1>2. CASE Refused(t, n)
  BY <1>2 DEF Refused, Call, PipeTypes, TransferInv, LengthTruthful
<1>3. CASE Submitted(t, n)
  <2>1. /\ phase = "idle" /\ phase' = "submitted" /\ pipe' = t /\ dataLength' = n
        /\ urb' = UrbFor(t, n) /\ outcome' = outcome /\ checkControlHeader(t, n)
        /\ t \in EndpointTypes \cup {"dcp"}
    BY <1>3 DEF Submitted, Call, PipeTypes
  <2>2. outcome = NoTransfer
    BY <2>1 DEF TransferInv
  <2>3. UrbFor(pipe, dataLength)' = UrbFor(t, n)
        /\ checkControlHeader(pipe, dataLength)' = checkControlHeader(t, n)
    BY <2>1
  <2> QED  BY <1>1, <2>1, <2>2, <2>3 DEF TransferInv, LengthTruthful
<1> QED  BY <1>2, <1>3

LEMMA FailsInv == ASSUME TransferInv, SubmissionFails PROVE TransferInv'
<1>1. /\ phase = "submitted" /\ phase' = "completed" /\ error' = TRUE
      /\ UNCHANGED <<pipe, dataLength, urb, outcome>>
  BY DEF SubmissionFails
<1>2. /\ dataLength \in Nat /\ urb = UrbFor(pipe, dataLength) /\ outcome = NoTransfer
      /\ pipe \in EndpointTypes \cup {"dcp"}
  BY <1>1 DEF TransferInv
<1>3. urb.buffer_length = IF pipe = "dcp" THEN dataLength + Setup ELSE dataLength
  BY <1>2, UrbForType
<1>4. outcome.fails = TRUE
  BY <1>2 DEF NoTransfer
<1>6. (dataLength + (IF pipe = "dcp" THEN Setup ELSE 0) <= urb.buffer_length)'
  BY <1>1, <1>2, <1>3 DEF Setup
<1>7. error' = outcome'.fails
  BY <1>1, <1>4, Zenon
<1>5. LengthTruthful'
  BY <1>1, <1>6, <1>7 DEF LengthTruthful
<1> QED  BY <1>1, <1>2, <1>5 DEF TransferInv

LEMMA ReapInv ==
  ASSUME TransferInv, NEW n \in Lengths, NEW fails \in BOOLEAN, UrbCompletes(n, fails)
  PROVE  TransferInv'
<1>1. /\ phase = "submitted" /\ phase' = "reaped" /\ pipe' = pipe /\ n <= Room
      /\ outcome' = [bytes |-> n, fails |-> fails]
  BY DEF UrbCompletes
<1>2. /\ dataLength \in Nat /\ urb = UrbFor(pipe, dataLength)
      /\ pipe \in EndpointTypes \cup {"dcp"}
  BY <1>1 DEF TransferInv
<1>3. n \in Nat
  BY LengthsAssumption
<1>4. outcome'.bytes = n /\ outcome'.fails = fails
  BY <1>1
<1> DEFINE status == IF fails THEN Error ELSE 0
           done == complete_request(pipe, urb')
<1>5. (status # 0) = fails
  BY DEF Error
<1>6. urb = [type |-> IF pipe = "isochronous" THEN "ISO"
                     ELSE IF pipe \in {"control", "dcp"} THEN "CONTROL" ELSE "BULK",
            buffer_length |-> IF pipe = "dcp" THEN dataLength + Setup ELSE dataLength,
            actual_length |-> 0, status |-> 0,
            packet |-> [length |-> IF pipe = "isochronous" THEN dataLength ELSE 0,
                        actual_length |-> 0, status |-> 0]]
  BY <1>2, UrbForType
<1>7. /\ done.length = n + (IF pipe \in {"control", "dcp"} THEN Setup ELSE 0)
      /\ done.length <= urb'.buffer_length
      /\ done.ret = status
  <2>1. CASE pipe = "isochronous"
    <3>1. urb' = [urb EXCEPT !.packet.actual_length = n, !.packet.status = status]
      BY <1>6, <2>1 DEF UrbCompletes
    <3>2. /\ urb'.packet.actual_length = n /\ urb'.packet.status = status
          /\ urb'.buffer_length = dataLength
      BY <1>6, <2>1, <3>1
    <3>3. done = [length |-> n, ret |-> status]
      BY <1>2, <2>1, <3>2, CompleteType
    <3>4. n <= dataLength
      BY <1>1, <1>6, <2>1 DEF Room
    <3> QED  BY <1>3, <2>1, <3>2, <3>3, <3>4
  <2>2. CASE pipe # "isochronous"
    <3>1. urb' = [urb EXCEPT !.actual_length = n, !.status = status]
      BY <1>6, <2>2 DEF UrbCompletes
    <3>2. /\ urb'.actual_length = n /\ urb'.status = status
          /\ urb'.buffer_length = urb.buffer_length
      BY <1>6, <3>1
    <3>3. done = [length |-> IF pipe \in {"control", "dcp"} THEN n + Setup ELSE n,
                  ret |-> status]
      BY <1>2, <2>2, <3>2, CompleteType
    <3>4. n <= urb.buffer_length - (IF pipe \in {"control", "dcp"} THEN Setup ELSE 0)
      BY <1>1, <1>6, <2>2 DEF Room
    <3> QED  BY <1>2, <1>3, <1>6, <3>2, <3>3, <3>4 DEF Setup
  <2> QED  BY <2>1, <2>2
<1> QED
  BY <1>1, <1>2, <1>3, <1>4, <1>5, <1>7 DEF TransferInv, LengthTruthful

LEMMA CompleteInv == ASSUME TransferInv, CompleteUrb PROVE TransferInv'
<1> DEFINE done == complete_request(pipe, urb)
<1>1. /\ phase = "reaped" /\ phase' = "completed" /\ UNCHANGED <<pipe, urb, outcome>>
      /\ dataLength' = setDataLength(pipe, done.length)
      /\ error' = (done.ret # 0)
  BY DEF CompleteUrb
<1>2. /\ outcome.bytes \in Nat /\ (done.ret # 0) = outcome.fails
      /\ done.length = outcome.bytes + (IF pipe \in {"control", "dcp"} THEN Setup ELSE 0)
      /\ done.length <= urb.buffer_length
      /\ pipe \in EndpointTypes \cup {"dcp"}
  BY <1>1 DEF TransferInv
<1>3. error' = outcome.fails
  BY <1>1, <1>2
<1> HIDE DEF done
<1>4. /\ dataLength' = outcome.bytes + (IF pipe = "control" THEN Setup ELSE 0)
      /\ dataLength' + (IF pipe = "dcp" THEN Setup ELSE 0) <= urb.buffer_length
  BY <1>1, <1>2 DEF setDataLength, Setup
<1>5. LengthTruthful'
  BY <1>1, <1>3, <1>4 DEF LengthTruthful
<1> QED  BY <1>1, <1>2, <1>5 DEF TransferInv

LEMMA StutterInv == ASSUME TransferInv, UNCHANGED transferVars PROVE TransferInv'
BY DEF TransferInv, LengthTruthful, transferVars

LEMMA StepInv == ASSUME TransferInv, [TransferNext]_allVars PROVE TransferInv'
<1>1. CASE (BuilderNext /\ UNCHANGED transferVars) \/ UNCHANGED allVars
  <2>1. UNCHANGED transferVars
    BY <1>1 DEF allVars
  <2> QED  BY <2>1, StutterInv
<1>2. CASE \E t \in PipeTypes, n \in Lengths : Refused(t, n) \/ Submitted(t, n)
  BY <1>2, CallInv
<1>3. CASE SubmissionFails
  BY <1>3, FailsInv
<1>4. CASE \E n \in Lengths, fails \in BOOLEAN : UrbCompletes(n, fails)
  BY <1>4, ReapInv
<1>5. CASE CompleteUrb
  BY <1>5, CompleteInv
<1> QED  BY <1>1, <1>2, <1>3, <1>4, <1>5 DEF TransferNext

\* The inductive invariant of a transfer, for buffers of any lengths.
THEOREM TransferInvariance == TransferSpec => []TransferInv
<1>1. TransferInit => TransferInv
  BY DEF TransferInit, TransferInv, LengthTruthful, EndpointTypes
<1>2. TransferInv /\ [TransferNext]_allVars => TransferInv'
  BY StepInv
<1> QED  BY <1>1, <1>2, PTL DEF TransferSpec

\* What a caller is told about length and error is what happened.
THEOREM LengthTruthfulHolds == TransferSpec => []LengthTruthful
<1>1. TransferInv => LengthTruthful
  BY DEF TransferInv
<1> QED  BY <1>1, TransferInvariance, PTL

\* Transfers leave the build alone: what DeviceBuilder_proofs shows holds here too.
THEOREM BuildUsed == TransferSpec => BuilderSpec
<1>1. [TransferNext]_allVars => [BuilderNext]_builderVars
  BY DEF TransferNext, allVars, Refused, Submitted, SubmissionFails, UrbCompletes, CompleteUrb
<1>2. TransferInit => BuilderInit
  BY DEF TransferInit
<1> QED  BY <1>1, <1>2, PTL DEF TransferSpec, BuilderSpec

\* In particular, of a device that carries transfers: no descriptor was taken for
\* another, nothing is in a wrong place, and what is active is what it has selected.
THEOREM BuiltHolds ==
  TransferSpec => [](ConfigsAligned /\ TreeIsFile /\ NoDeviceLost /\ ActiveIsDevices)
<1>1. BuilderSpec => [](ConfigsAligned /\ TreeIsFile /\ NoDeviceLost /\ ActiveIsDevices)
  BY ConfigsAlignedHolds, TreeIsFileHolds, NoDeviceLostHolds, ActiveIsDevicesHolds, PTL
<1> QED  BY <1>1, BuildUsed, PTL

(***************************************************************************)
(* Transfers come after the build.                                         *)
(***************************************************************************)
\* A device that was handed over is not built any further, nor set by others.
LEMMA BuildOver == ASSUME BuilderInv, reported PROVE ~ BuilderNext
<1>1. stage \in {"done", "astray"}
  BY DEF BuilderInv, PlaceInv
<1>2. ~ Kernel
  BY <1>1 DEF Kernel
<1>3. ~ (open_device \/ OpenFails \/ Fails)
  BY <1>1 DEF open_device, OpenFails, Fails, Goto
<1>4. ~ (get_device_descriptor \/ hub_portinfo \/ connectinfo)
  BY <1>1 DEF get_device_descriptor, hub_portinfo, connectinfo, Goto
<1>5. \A worked \in BOOLEAN : ~ (build_config(worked) \/ build_interface(worked))
  BY <1>1 DEF build_config, build_interface, Accepts, Loop, Goto
<1>6. ~ (build_config_astray \/ Refuses \/ build_endpoint \/ Ignores)
  BY <1>1 DEF build_config_astray, Goto, Refuses, build_endpoint, Ignores, Accepts, Loop
<1>7. ~ (ConfigEnds \/ checkUsbDeviceImp)
  BY <1>1 DEF ConfigEnds, checkUsbDeviceImp, Goto
<1> QED  BY <1>2, <1>3, <1>4, <1>5, <1>6, <1>7 DEF BuilderNext, BuildStep

\* The inductive invariant of a device and its transfers: besides both parts, no
\* transfer begins before the device was handed over, and each is to a pipe of it.
THEOREM DeviceTransferInvariance == TransferSpec => []DeviceTransferInv
<1> DEFINE Place == phase # "idle" => reported /\ pipe \in PipeTypes
<1>1. TransferInit => Place
  BY DEF TransferInit
<1>2. BuilderInv /\ Place /\ [TransferNext]_allVars => Place'
  <2> SUFFICES ASSUME BuilderInv, Place, [TransferNext]_allVars PROVE Place'
    OBVIOUS
  <2>1. CASE BuilderNext /\ UNCHANGED transferVars
    BY <2>1, BuildOver DEF transferVars
  <2>2. CASE \E t \in PipeTypes, n \in Lengths : Refused(t, n) \/ Submitted(t, n)
    <3>1. PICK t \in PipeTypes : reported /\ pipe' = t /\ UNCHANGED builderVars
      BY <2>2 DEF Refused, Submitted, Call
    <3>2. reported' /\ PipeTypes' = PipeTypes
      BY <3>1 DEF builderVars, kernelVars, buildVars, objectVars, PipeTypes
    <3> QED  BY <3>1, <3>2
  <2>3. CASE SubmissionFails \/ CompleteUrb \/ UNCHANGED allVars
             \/ \E n \in Lengths, fails \in BOOLEAN : UrbCompletes(n, fails)
    <3>1. /\ UNCHANGED <<pipe, builderVars>> /\ (phase' # "idle" => phase # "idle")
      BY <2>3 DEF SubmissionFails, CompleteUrb, UrbCompletes, allVars, transferVars
    <3>2. reported' = reported /\ PipeTypes' = PipeTypes
      BY <3>1 DEF builderVars, kernelVars, buildVars, objectVars, PipeTypes
    <3> QED  BY <3>1, <3>2
  <2> QED  BY <2>1, <2>2, <2>3 DEF TransferNext
<1>3. TransferSpec => []BuilderInv
  BY BuilderInvariance, BuildUsed, PTL
<1>4. BuilderInv /\ TransferInv /\ Place => DeviceTransferInv
  BY DEF DeviceTransferInv
<1> QED  BY <1>1, <1>2, <1>3, <1>4, TransferInvariance, PTL DEF TransferSpec
================================================================================
