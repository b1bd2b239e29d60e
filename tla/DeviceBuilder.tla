----------------------------- MODULE DeviceBuilder -----------------------------
(***************************************************************************)
(* How nativeTopologyUpdater makes one UsbDeviceImp of what the kernel     *)
(* shows of a device (build_device, build_config, build_interface,         *)
(* build_endpoint and get_descriptor in JavaxUsbTopologyUpdater.c), which  *)
(* configuration and settings it takes for active (JavaxUsbActive.c), and  *)
(* what the factories of JavaxUsb.java make of it.                         *)
(*                                                                         *)
(* The file of a device is a sequence of descriptors: the device's, and    *)
(* for each configuration a block of wTotalLength bytes that starts with   *)
(* the configuration's.  Objects are named by the index of the descriptor  *)
(* they are made from.  In a block, end is where a descriptor ends, total  *)
(* is wTotalLength, and nth counts the configurations so far: the code     *)
(* sees none of end and nth, only the lengths.                             *)
(*                                                                         *)
(* Meanwhile the application and other processes may set configuration and *)
(* interfaces, and reads and ioctls may fail because the device has gone.  *)
(***************************************************************************)
EXTENDS Integers, Sequences

CONSTANT Files  \* what the kernel may show of a device

\* The bytes read of a descriptor that claims this length.  One that claims 0
\* or 1 is given up after its first byte.
Bytes(length) == IF length < 2 THEN 1 ELSE length

\* What the kernel cuts into blocks by the lengths: only the last descriptor of a
\* block can claim to go past its end.
WellFormed(f) ==
  /\ DOMAIN f = 1..Len(f) /\ Len(f) \in Nat \ {0}
  /\ f[1].type = "device" /\ f[1].nth = 0 /\ f[1].end = f[1].total
  /\ f[Len(f)].nth = f[1].number /\ f[Len(f)].end >= f[Len(f)].total
  /\ \A i \in 1..Len(f) :
       f[i].length \in Nat /\ f[i].total \in Nat /\ f[i].end \in Nat /\ f[i].nth \in Nat
  /\ \A i \in 2..Len(f) : f[i].type = "config" =>
       /\ f[i-1].end >= f[i-1].total
       /\ f[i].nth = f[i-1].nth + 1
       /\ f[i].end = f[i].length /\ f[i].length >= 2
  /\ \A i \in 2..Len(f) : f[i].type # "config" =>
       /\ f[i-1].end < f[i-1].total /\ i > 2
       /\ f[i].nth = f[i-1].nth /\ f[i].total = f[i-1].total
       /\ f[i].end = f[i-1].end + Bytes(f[i].length)
  /\ \A i, j \in 1..Len(f) : i <= j => f[i].nth <= f[j].nth
  /\ \A i, j \in 2..Len(f) : \* configurations have distinct numbers, none 0
       f[i].type = "config" /\ f[j].type = "config" =>
         f[i].number # 0 /\ (f[i].number = f[j].number => i = j)

Overruns(f, i) == f[i].end > f[i].total

ASSUME FilesAssumption == \A f \in Files : WellFormed(f)

VARIABLES
  file,           \* what the kernel shows of the device
  configuration,  \* the configuration the device is in, 0 if none
  altsetting,     \* the setting every interface of it is in
  stage,          \* where the updater is in build_device
  at,             \* how many descriptors it has read
  pos,            \* build_config: pos
  ncfg,           \* build_device: ncfg
  config,         \* build_config: config, 0 for NULL
  interface,      \* build_config: interface, 0 for NULL
  built,          \* the objects made, as <<parent, child>>
  activeConfig,   \* UsbDeviceImp: the active configuration's number
  activeSettings, \* the interfaces that are the active setting of their number
  reported,       \* checkUsbDeviceImp was called
  quiet,          \* history: nothing was set during the build, the GET ioctls worked
  failed          \* history: an open, read or ioctl failed

kernelVars == <<file, configuration, altsetting>>
objectVars == <<built, activeConfig, activeSettings>>
buildVars == <<stage, at, pos, ncfg, config, interface, objectVars, reported, failed>>
builderVars == <<kernelVars, buildVars, quiet>>

Interfaces(f, c) == \* the interface descriptors of the configuration with number c
  {i \in 2..Len(f) : f[i].type = "interface" /\
     \E j \in 2..i : f[j].type = "config" /\ f[j].nth = f[i].nth /\ f[j].number = c}
ConfigNumbers(f) == {f[i].number : i \in {j \in 2..Len(f) : f[j].type = "config"}}
Numbers(f) == {f[i].number : i \in {j \in 2..Len(f) : f[j].type = "interface"}}

\* A setting the kernel can have selected: one the interface has, or the default 0.
Settings(f, c, n) == {0} \cup {f[i].setting : i \in {j \in Interfaces(f, c) : f[j].number = n}}

BuilderInit ==
  /\ file \in Files
  /\ configuration \in ConfigNumbers(file) \cup {0}
  /\ altsetting \in [Numbers(file) -> UNION {Settings(file, configuration, n) : n \in Numbers(file)}]
  /\ \A n \in Numbers(file) : altsetting[n] \in Settings(file, configuration, n)
  /\ stage = "open" /\ at = 0 /\ pos = 0 /\ ncfg = 0
  /\ config = 0 /\ interface = 0
  /\ built = {} /\ activeConfig = 0 /\ activeSettings = {}
  /\ reported = FALSE /\ quiet = TRUE /\ failed = FALSE

(***************************************************************************)
(* The kernel: SETCONFIGURATION and SETINTERFACE of whoever.               *)
(***************************************************************************)
SetConfiguration(c) ==
  /\ configuration' = c
  /\ altsetting' = [n \in Numbers(file) |-> 0]

SetInterface(i) ==
  /\ i \in Interfaces(file, configuration)
  /\ altsetting' = [altsetting EXCEPT ![file[i].number] = file[i].setting]
  /\ UNCHANGED configuration

Kernel ==
  /\ stage \notin {"done", "crashed", "astray"}
  /\ \/ \E c \in ConfigNumbers(file) \cup {0} : SetConfiguration(c)
     \/ \E i \in 2..Len(file) : SetInterface(i)
  /\ quiet' = FALSE
  /\ UNCHANGED <<file, buildVars>>

\* The next descriptor of the file, which get_descriptor returns.  Of the fields of
\* the descriptor structs it has those that decide something.  A descriptor that
\* goes past the end of its block is completed with bytes of the next one, if
\* there is one and it is long enough.
desc == file[at + 1]
ShortRead == at = Len(file) \/ (at + 1 = Len(file) /\ Overruns(file, Len(file)))
get_descriptor == ~ ShortRead /\ at' = at + 1

(***************************************************************************)
(* JavaxUsbActive.c.  Where the kernel has no GET ioctls they count as     *)
(* failing.  worked says whether the ioctl did.                            *)
(***************************************************************************)
\* What GETCONFIGURATION and GETINTERFACE say of the descriptor just read.
config_use_get_ioctl(worked) ==
  IF ~ worked THEN "failure"
  ELSE IF configuration = desc.number THEN "active" ELSE "inactive"

\* After a failure comes CONFIG_ALWAYS_ACTIVE.
isConfigActive(worked) == config_use_get_ioctl(worked) # "inactive"

\* It fails too for an interface the current configuration does not have.
interface_use_get_ioctl(worked) ==
  IF ~ worked \/ \A i \in Interfaces(file, configuration) : file[i].number # desc.number
  THEN "failure"
  ELSE IF altsetting[desc.number] = desc.setting THEN "active" ELSE "inactive"

\* "failure defaults to inactive"
isInterfaceSettingActive(worked) == interface_use_get_ioctl(worked) = "active"

(***************************************************************************)
(* build_device up to its configurations.  A failure leaves the device     *)
(* out: its path, open, reads, portinfo and connectinfo.                   *)
(***************************************************************************)
Goto(from, to) == stage = from /\ stage' = to

open_device ==
  /\ Goto("open", "device")
  /\ UNCHANGED <<kernelVars, at, pos, ncfg, config, interface, objectVars, reported, quiet, failed>>

\* dev_desc is freed although it was never set: with luck it is NULL.
OpenFails ==
  /\ Goto("open", "done") \/ Goto("open", "crashed")
  /\ failed' = TRUE
  /\ UNCHANGED <<kernelVars, at, pos, ncfg, config, interface, objectVars, reported, quiet>>

Fails ==
  /\ \E s \in {"device", "hub", "connect", "config", "descriptor"} : Goto(s, "done")
  /\ stage = "descriptor" => pos < file[config].total
  /\ failed' = TRUE
  /\ UNCHANGED <<kernelVars, at, pos, ncfg, config, interface, objectVars, reported, quiet>>

\* Where build_device goes on when n configurations have been built.
LoopFrom(n) == IF n < file[1].number THEN "config" ELSE "check"

get_device_descriptor ==
  /\ Goto("device", IF file[1].hub THEN "hub" ELSE "connect")
  /\ get_descriptor
  /\ UNCHANGED <<kernelVars, pos, ncfg, config, interface, objectVars, reported, quiet, failed>>

hub_portinfo ==
  /\ Goto("hub", "connect")
  /\ UNCHANGED <<kernelVars, at, pos, ncfg, config, interface, objectVars, reported, quiet, failed>>

\* connectinfo, and configureUsbDeviceImp
connectinfo ==
  /\ Goto("connect", LoopFrom(0))
  /\ UNCHANGED <<kernelVars, at, pos, ncfg, config, interface, objectVars, reported, quiet, failed>>

(***************************************************************************)
(* build_config.                                                           *)
(***************************************************************************)
createUsbConfigImp(active) ==
  /\ built' = built \cup {<<1, at + 1>>}
  /\ activeConfig' = IF active THEN desc.number ELSE activeConfig
  /\ UNCHANGED activeSettings

\* Mutants: pos leaves out the config descriptor; or interface is still the
\* last configuration's.
build_config_unskipped(worked) ==
  /\ Goto("config", "descriptor")
  /\ ~ Overruns(file, at) /\ get_descriptor
  /\ pos' = 0 /\ config' = at + 1 /\ interface' = 0
  /\ createUsbConfigImp(isConfigActive(worked))
  /\ quiet' = (quiet /\ worked)
  /\ UNCHANGED <<kernelVars, ncfg, reported, failed>>

build_config_stale(worked) ==
  /\ Goto("config", "descriptor")
  /\ ~ Overruns(file, at) /\ get_descriptor
  /\ pos' = desc.length /\ config' = at + 1 /\ UNCHANGED interface
  /\ createUsbConfigImp(isConfigActive(worked))
  /\ quiet' = (quiet /\ worked)
  /\ UNCHANGED <<kernelVars, ncfg, reported, failed>>

\* build_config begins.  It does not ask whether what it reads is a config
\* descriptor.
build_config(worked) ==
  /\ Goto("config", "descriptor")
  /\ ~ Overruns(file, at) /\ get_descriptor
  /\ pos' = desc.length /\ config' = at + 1 /\ interface' = 0
  /\ createUsbConfigImp(isConfigActive(worked))
  /\ quiet' = (quiet /\ worked)
  /\ UNCHANGED <<kernelVars, ncfg, reported, failed>>

\* The block before ended in a descriptor that went on into this one: the reads
\* that follow begin inside it, and what they find there, up to a whole tree of
\* objects to report, is left open.
build_config_astray ==
  /\ Goto("config", "astray")
  /\ Overruns(file, at)
  /\ reported' \in BOOLEAN
  /\ UNCHANGED <<kernelVars, at, pos, ncfg, config, interface, objectVars, quiet, failed>>

\* The loop reads until pos reaches wTotalLength ...
Loop == stage = "descriptor" /\ pos < file[config].total

\* ... gives up at the end of the file, or at a descriptor that is too short or
\* does not belong here ...
Refuses ==
  /\ Loop \/ (stage = "config" /\ ~ Overruns(file, at))
  /\ \/ ShortRead
     \/ at < Len(file) /\ Overruns(file, at + 1)  \* no next block, or too short a one
     \/ stage = "descriptor" /\ (desc.length < 2 \/ desc.type \in {"device", "config"})
  /\ stage' = "done"
  /\ UNCHANGED <<kernelVars, at, pos, ncfg, config, interface, objectVars, reported, quiet, failed>>

\* Mutant: every descriptor is taken to have the size of an interface's.
AcceptsFixed ==
  /\ Loop /\ get_descriptor
  /\ desc.length >= 2
  /\ pos' = pos + 9
  /\ UNCHANGED <<kernelVars, stage, ncfg, config, activeConfig, reported, failed>>

\* ... and counts the others.
Accepts ==
  /\ Loop /\ get_descriptor
  /\ desc.length >= 2
  /\ pos' = pos + desc.length
  /\ UNCHANGED <<kernelVars, stage, ncfg, config, activeConfig, reported, failed>>

\* Interface i is the active setting, and no other of its number.
Activate(i) ==
  {j \in activeSettings : <<config, j>> \in built => file[j].number # file[i].number} \cup {i}

\* Mutant: the configuration is not asked whether it is active.
createUsbInterfaceImpUnasked(active) ==
  /\ built' = built \cup {<<config, at + 1>>}
  /\ activeSettings' = IF active THEN Activate(at + 1) ELSE activeSettings

\* "If the config is not active, neither are its interface settings"
createUsbInterfaceImp(active) ==
  /\ built' = built \cup {<<config, at + 1>>}
  /\ activeSettings' =
       IF activeConfig = file[config].number /\ active THEN Activate(at + 1) ELSE activeSettings

build_interface(worked) ==
  /\ Accepts /\ desc.type = "interface"
  /\ interface' = at + 1
  /\ createUsbInterfaceImp(isInterfaceSettingActive(worked))
  /\ quiet' = (quiet /\ worked)

\* build_endpoint and createUsbEndpointImp; without an interface it does nothing.
build_endpoint ==
  /\ Accepts /\ desc.type = "endpoint"
  /\ built' = IF interface = 0 THEN built ELSE built \cup {<<interface, at + 1>>}
  /\ UNCHANGED <<interface, activeSettings, quiet>>

Ignores ==
  /\ Accepts /\ desc.type = "other"
  /\ UNCHANGED <<interface, built, activeSettings, quiet>>

\* build_config returns, and build_device goes on with the next one.
ConfigEnds ==
  /\ Goto("descriptor", LoopFrom(ncfg + 1))
  /\ pos >= file[config].total
  /\ ncfg' = ncfg + 1
  /\ UNCHANGED <<kernelVars, at, pos, config, interface, objectVars, reported, quiet, failed>>

checkUsbDeviceImp ==
  /\ Goto("check", "done")
  /\ reported' = TRUE
  /\ UNCHANGED <<kernelVars, at, pos, ncfg, config, interface, objectVars, quiet, failed>>

BuildStep ==
  \/ open_device \/ OpenFails \/ Fails
  \/ get_device_descriptor \/ hub_portinfo \/ connectinfo
  \/ \E worked \in BOOLEAN : build_config(worked) \/ build_interface(worked)
  \/ build_config_astray \/ Refuses \/ build_endpoint \/ Ignores
  \/ ConfigEnds \/ checkUsbDeviceImp

BuilderNext == Kernel \/ BuildStep

BuilderSpec == BuilderInit /\ [][BuilderNext]_builderVars

(***************************************************************************)
(* Properties.                                                             *)
(***************************************************************************)
\* What build_config takes for granted: the read that should give a
\* configuration's descriptor does.  The lengths counted in pos have to add up
\* to wTotalLength for every configuration before, or the last descriptor of the
\* one before went past its end.
ConfigsAligned ==
  stage = "config" => Overruns(file, at) \/ (at < Len(file) /\ desc.type = "config")

\* What the file says: configurations belong to the device, an interface to the
\* configuration it follows, an endpoint to the interface it follows in the
\* same configuration.
IsParent(f, j, i) ==
  /\ j < i
  /\ \/ f[i].type = "config" /\ j = 1
     \/ /\ f[i].type = "interface" /\ f[j].type = "config"
        /\ \A k \in (j + 1)..(i - 1) : f[k].type # "config"
     \/ /\ f[i].type = "endpoint" /\ f[j].type = "interface"
        /\ \A k \in (j + 1)..(i - 1) : f[k].type \notin {"config", "interface"}

ParentsUpTo(f, n) == {e \in (1..n) \X (1..n) : IsParent(f, e[1], e[2])}

\* A device that is handed to checkUsbDeviceImp has the configurations,
\* interfaces and endpoints of its file, each below the right one: nothing of
\* one configuration ends up in another.  Unless the reads went astray, which
\* takes a descriptor that went past the end of its block; without that there is none.
TreeIsFile ==
  reported /\ stage # "astray" =>
    /\ built = ParentsUpTo(file, Len(file))
    /\ \A i \in 1..Len(file) : ~ Overruns(file, i)

\* The device is left out of the scan only if something failed or one of its
\* configurations has a descriptor that is no descriptor or goes past its end.
NoDeviceLost ==
  stage \in {"done", "astray"} /\ ~ reported =>
    failed \/ \E i \in 2..Len(file) :
      file[i].length < 2 \/ file[i].type = "device" \/ Overruns(file, i)

\* Descriptor i is an interface of the device's configuration, in the setting it is in.
Selected(i) ==
  i \in Interfaces(file, configuration) /\ altsetting[file[i].number] = file[i].setting

\* If nobody sets anything during the build and the GET ioctls work, the
\* active configuration is the device's, and the active settings are those its
\* interfaces are in, none of them in another configuration that has the same
\* interface number.
ActiveIsDevices ==
  reported /\ stage # "astray" /\ quiet =>
    /\ activeConfig = configuration
    /\ \A j \in activeSettings : Selected(j)
    /\ \A i \in 2..Len(file) : Selected(i) =>
         \E j \in activeSettings : file[j].number = file[i].number

(***************************************************************************)
(* The inductive invariant.                                                *)
(***************************************************************************)
FlagsOK == reported \in BOOLEAN /\ failed \in BOOLEAN /\ quiet \in BOOLEAN

BuilderTypeOK ==
  /\ WellFormed(file) /\ at \in 0..Len(file) /\ pos \in Nat /\ ncfg \in Nat
  /\ stage \in {"open", "device", "hub", "connect", "config", "descriptor", "check",
               "done", "crashed", "astray"}
  /\ config \in 0..at /\ interface \in 0..at
  /\ FlagsOK

\* Where the reads are, against where the kernel's blocks end.
PlaceInv ==
  /\ stage \in {"open", "device"} => at = 0 /\ ncfg = 0
  /\ stage \in {"hub", "connect"} => at = 1 /\ ncfg = 0
  /\ stage \in {"config", "check"} =>
       at >= 1 /\ file[at].end >= file[at].total /\ file[at].nth = ncfg
  /\ stage = "config" => ncfg < file[1].number
  /\ stage = "check" => ncfg >= file[1].number
  /\ stage = "descriptor" =>
       /\ at >= 2 /\ pos = file[at].end /\ file[at].nth = ncfg + 1
       /\ config >= 2 /\ file[config].type = "config"
       /\ file[config].total = file[at].total /\ file[config].nth = file[at].nth
       /\ \A k \in (config + 1)..at : file[k].type # "config"
       /\ \A k \in (IF interface = 0 THEN config + 1 ELSE interface + 1)..at :
            file[k].type # "interface"
       /\ interface # 0 => interface > config /\ file[interface].type = "interface"
  /\ stage = "astray" => \E i \in 2..Len(file) : Overruns(file, i)
  /\ reported => stage = "astray" \/ (stage = "done" /\ at = Len(file))
  /\ \A i \in 1..at : Overruns(file, i) => i = at /\ at < Len(file)

Going == (reported /\ stage = "done") \/ stage \notin {"done", "crashed", "astray"}

TreeInv == Going => built = ParentsUpTo(file, at)

\* ActiveIsDevices for the part of the file that has been read.
ActiveInv ==
  /\ configuration \in ConfigNumbers(file) \cup {0}
  /\ quiet /\ Going =>
       /\ activeConfig =
            IF \E i \in 2..at : file[i].type = "config" /\ file[i].number = configuration
            THEN configuration ELSE 0
       /\ \A j \in activeSettings : Selected(j) /\ j <= at
       /\ \A i \in 2..at : Selected(i) =>
            \E j \in activeSettings : file[j].number = file[i].number

BuilderInv == BuilderTypeOK /\ PlaceInv /\ TreeInv /\ ActiveInv /\ NoDeviceLost
================================================================================
