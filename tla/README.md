# A verification development for kakaxi-project

kakaxi-project is the tool box of a cable-TV and Ethernet-over-coax operator: a
command line for RTL8367B switches with the switch driver below it, a client
that reaches the same chips over coax, a configuration dictionary, a
video-on-demand client, and test senders. This directory holds TLA+ models of
the parts with state worth checking, TLC runs on small instances of them, and
theorems about them that the TLA+ proof system checks for every size.

Paths are relative to `src/`; `rtk_api.c` stands for
`switch/switch/rtl8368/rtk_api.c`, and `asicdrv_x.c` for
`switch/switch/rtl8368/rtl8367b_asicdrv_x.c` in the same directory.
`PROJECT.json` names, for every definition that models code, the lines it stands
for; it also lists the hazards of the code, and for each the properties that
cover it or why none does.

## 1. Inventory

### The switch

`rtl8368.c` is the command line: it parses one command and makes one library
call per process. The library is two layers. `rtk_api.c` checks arguments and
searches and allocates entries in tables; `asicdrv_*.c` reads and writes the
table entries and register fields of the chip, and `smi.c` is the bus. All state
is in the chip: the API has no variables of its own, so that a call reads the
tables, decides and writes, and the next call -- of another process -- finds what
was left. Tables refer to each other by *index*, which is where the difficulty
is: an entry is found by its contents, stored by its index, and may be given
other contents while its index is stored elsewhere.

| Component | State | Operations | Interacts with | Hard part and what makes it correct |
|---|---|---|---|---|
| Customer VLANs (`rtk_vlan_*`, `asicdrv_vlan.c`) | 4K table; 32 member configurations ("slots"); per port a PVID index; 4 protocol groups with per-port rules | init, set, mbrCfg_set, portPvid_set, protoAndPortBasedVlan add/del/delAll, priorities, filters, tag modes | guest VLAN, ACL actions share the slots | slots are shared, filled and replaced behind the backs of their other users: a port's traffic must change VLAN only by a call about it; groups are counted by search |
| 802.1X (`rtk_dot1x_*`) | port states; guest VLAN index; action on unauthorised packets | guestVlan_set, unauthPacketOper_set, port states | slots | as above |
| Service VLANs (`rtk_svlan_*`, `asicdrv_svlan.c`) | 64 slots; default SVLAN per port; untagged / unmatched action; 128 C2S, 128 SP2C, 32 multicast entries | member entries, defaults, actions, add/del of each table | ACL actions | five tables point into the slots; a slot is freed without looking at who points to it; entries are shared by ports, duplicated, searched from both ends |
| Access control lists (`rtk_filter_igrAcl_*`, `asicdrv_acl.c`) | 64 rules, actions, inversions; templates; range tables | cfg_add, cfg_del, cfg_delAll, cfg_get, fields, ranges, port states | slots, SVLAN slots, meters | one filter is several rules; its VLAN action takes a slot |
| Layer-2 table (`rtk_l2_*`, `asicdrv_lut.c`) | places of a 4-way hash and a CAM; exception table of IP multicast; flush and learning registers | unicast, multicast, IP multicast add/get/del, authorised addresses, listing, flushes, limits, ageing | the chip, which learns, moves and ages addresses by itself | a call reads, changes and writes an entry while the chip works on the same table: static entries must be what callers made them, a list must be complete and end |
| IGMP (`rtk_igmp_*`, `asicdrv_igmp.c`) | protocol actions per port, router ports, timers, limits | init and one call per setting | layer-2 table (in the chip) | packed fields, two ports to a register |
| Port and PHY (`rtk_port_*`, `asicdrv_port.c`, `asicdrv_phy.c`) | forced links, interface modes, isolation masks; PHY registers on pages | ability, forced state, negotiation, modes, test, cable test command | EEE, green Ethernet write the same PHYs | whole-register writes clear their neighbours; a page left behind; a step that fails after others |
| QoS, rate, storm (`rtk_qos_*`, `rtk_rate_*`, `rtk_storm_*`) | priorities, queues, maps, weights, meters, thresholds | set/get of each | meters shared with ACL, VLAN and storm | fields packed 2, 3, 4, 5 or 16 to a register; values coded differently from what callers pass; loops with a refusal in the middle |
| Traps, CPU port, STP, leaky VLAN, trunk, mirror, counters, interrupts, LEDs, EEE, power | register fields | set/get | each other, by sharing registers | as above |
| Switch initialisation (`rtk_switch_*`) | chip registers | init, frame lengths, address | everything | fixed write lists |
| Register access (`rtl8367b_asicdrv.c`, `smi.c`) | the chip's registers | read, write, bits | everything | bits are changed by read-modify-write, which another process can come between; tables through shared address, data and control registers |
| Command line (`rtl8368.c`) | none | one command | the API | option tables |

### Beside the switch

| Component | State | Operations | Hard part and what makes it correct |
|---|---|---|---|
| Remote MDIO (`switch/switch/mdio/mdio.c`) | one call in progress; frames on the link | `eoc_phy_read`, `eoc_phy_write` with retries | lossy, slow link; confirmations name only a register: a late answer to an earlier attempt or call must not falsify a result |
| Configuration dictionary (`ts_test/vns_config.c`) | chained hash table; running totals of the space for keys and values | set, unset, write, register callbacks, lengths, dump, load, growth | every allocation may fail half way; the totals must cover what the writers write; growth must lose no key |
| Configuration files (same file) | a text of sections and lines | dump, load | what is written must be what is read back, after a hand edit too |
| VOD client (`sendtoqam.pl`) | list of pictures to clear, expiry time, area state shared by two threads; a semaphore for the list only | key handlers; clearing thread; RTSP session | interleavings of handler and thread; semaphore; lost wake-up; seek clock |
| INI files (`dmt_test/ini.pm`) | one file | read and update a key | lock held only while reading |
| DMT load generators, transport-stream sender (`ts_test/service.c`, `tmp.c`), RARP tool (`eortool.pl`) | counters, sockets | timed loops of I/O | pure I/O, nothing to check |
| `ppr/`, notes, binaries | | | third-party data |

### Assumptions taken about what is outside

* `smi.c:227-233` defines the bus functions as placeholders that do nothing. All
  switch models take registers that keep what is written, as the virtual
  register file of `CONFIG_RTL8367B_ASICDRV_TEST` and the chip do. The build
  modelled is that of `rtl8368.out`: `MDC_MDIO_OPERATION`, `CHIP_RTL8368MB`,
  `DISABLE_VLAN_SHADOW`.
* One command at a time, for the tables: a call on VLANs, SVLANs and filters runs
  to its end before another starts. The library takes no lock; two processes at
  once would mix the accesses through the shared table registers, and no text
  promises otherwise. `L2Table` and `Registers` do not take this: there the chip,
  or a second process, works between the accesses of a call.
* Register accesses succeed. A bus error in the middle of a call leaves what had
  been written; the calls do nothing to undo it, and nothing is claimed of it.

## 2. Modules

| Module | Models | State and actions |
|---|---|---|
| `Search` | -- | `Lowest` and `Highest`: the element a loop over a table stops at or a loop without `break` remembers |
| `CVlan` | customer VLANs and guest VLAN | variables are the tables (`vlan4k`, `mc`, `pvid`, `group`, `rule`, `gvidx`, `gvPorts`, `filter`, `tagMode`) and the result `ret`; one action per API call, refusals included (`PortPvidSet`, split in `PvidShare`, `PvidFill`, `PvidReplace`; `ProtoVlanAdd` ...). `PvidOf`, `RuleOf`, `GuestVlan` are the getters |
| `VlanClassify` | what the getters of `CVlan` promise, without slots | port VLANs, protocol rules, guest VLAN |
| `Svlan` | service VLANs | `mc`, `dflt`, `fall`, `c2s`, `mc2s`, `sp2c`; one action per call |
| `Acl` | access control lists on top of `CVlan` (extends it) | `acl`, `actn`, `inv`; `CfgAdd`, `CfgDel`, `CfgDelAll`, and every call of `CVlan` (`VlanCall`) except a second `rtk_vlan_init`, which wipes the slots under the filters by design |
| `L2Table` | layer-2 entries, flushes, exceptions, listings | `lut`, the call under way (`call`, `pc`, `found`), `flushType`, `exc`, the list being made (`dump`); `Begin`, `Lookup`, `Write`, `Check` are the accesses of a call, `Learn`, `Move`, `Age` the chip, `NextGet` one `..._next_get` of a caller who lists |
| `L2Static` | the static entries of `L2Table` as a map | `Put`, `Drop`, `Authorise`, `Flush` |
| `RegCells` | -- | registers, fields, cells and puts: the vocabulary of the `*Settings` modules |
| `RegMap` | `rtl8367b_reg.h` | the blocks of registers the settings use, with the fields the map declares |
| `QosSettings`, `PortSettings`, `TrapSettings`, `VlanSettings` | `rtk_*` calls over register bits, and the `rtl8367b_setAsic*` below them | no state: `Asic...` says in which cells of which registers a driver keeps a setting; the calls are sets of puts, one element for each choice of arguments and outcome |
| `Registers` | `rtl8367b_setAsicRegBits`, `..._setAsicReg` under calls of several processes | `reg` (the chip), `at`, `seen` and `held` (where each process is, what it just read, and what it read early to write back later); `Begin`, `Take`, `Read`, `Write`, `Return` |
| `SettingsMap` | settings as cells of their own | `Start`, `Touch`, `Finish` of a call |
| `Settings` | `Registers` with all calls of the four modules | `AllCalls` |
| `Mcfg` | the dictionary | `buddy` (the chains), counters; `SetString`, `Write`, `Register`, `UnsetKey`, with any `malloc` failing |
| `McfgMap` | a dictionary as a map | what callers without `-` in their keys may rely on |
| `McfgText` | dump and load as lines | the writer's and reader's position and section; one action per key written or line read |
| `EocMdio` | remote MDIO | caller (`Begin`, `Send`, `Receive`, `Timeout`), and the link and adapter outside the repository (`Adapter`) |
| `VodClient` | the pictures of the VOD client | handlers as sequences of accesses run one per step (`Add`, `Del`, `Draw`, `Wipe`, `SetExpire`, `SetArea1`, `Ask`), the thread's steps (`See` ... `Up`), `Clock` |
| `CVlanProofs`, `SvlanProofs`, `L2TableProofs`, `EocMdioProofs`, `RegistersProofs`, `SettingsProofs`, `McfgProofs`, `VodClientProofs` | theorems | see section 5; each extends the module of its name, `McfgProofs` also `McfgText`, `CVlanProofs` also has `Acl`, and `SettingsProofs` builds on `RegistersProofs` |
| `MC*` | instances for TLC | constant definitions; `focus` keeps families of calls that do not meet in behaviours of their own |

Definitions named `X_Something` next to `X` are faulty variants of `X`: each
property of a passing run is shown to fail when one of them takes the place of
the original, so that every property is known to depend on the code.

### How the models abstract

* Slots, rules, ports and identifiers keep their order and their "0 means none";
  that is what the searches of the code depend on. Masks, priorities, addresses
  and protocols are members of small sets.
* Fields that are only copied along (untag mask, FID, meter of a VLAN; the values
  and masks of a filter's fields; untag and FID of an SVLAN) are left out.
* `evid` is one bit wider than a VLAN identifier in `CVlan`, as in the register,
  so that the index range checks of the code matter.
* In `Acl` a filter is the set of templates its fields need; the advanced care
  tag takes a place in the first of them that has one, or a rule of its own
  before or after. A port *range* reaches only the rule of template 0, and its
  check (`rangeEnd > rangeStart` is refused) leaves one port or none: both are
  kept as the code has them. `filter_id + noRulesAdd - 1` is unsigned, so a filter
  without any rule is refused at place 0 and accepted elsewhere.
* In `L2Table` an address is a value with a set of places it may live in (`Ways`,
  its hash and the CAM). What the chip does with its table is outside the
  repository and modelled from how the drivers use it: a write replaces the
  entry of the address, else an empty or learned one; a lookup may miss. An
  entry is kept while it is static, fresh (learned and not aged) or authorised.
  `MayTimeOut` lets a table access give up because the table stays busy: the accesses
  of a call, and those of a caller who lists, whose list then ends short (`dump.end`
  is `"busy"`; `rtk_api.c:9333`, `9614`, `9842`).
* In `Mcfg` a key with `-` matches by stem inside its chain, as `dict_get_entry`
  does; hash values are constants of the instance so that keys collide.
* In `VodClient` each access to a shared variable and each packet to the box is a
  step; the list alone is used under the semaphore. A picture is taken to have a
  place of its own (the picture library is not in the repository) and the box to
  accept every packet. `area1_img_state` is never `"audio"`, so `clear_img("all")`
  always runs at a volume key and lines 485-487 see an undefined state.

### Settings: registers, cells and puts

Most of the library sets a few bits of a register. These calls have no state but
the chip's, and their difficulty is that hundreds of settings share registers:
the modules say *where* each setting lives and *what* each call puts there, and
`Registers` says how it gets there.

* A setting is a sequence of cells; a cell maps bits of one register to bits of
  a code, so that codes that are split over registers, packed, or put together
  from two fields are all the same thing. What a getter returns is `ReadsAs`.
* A driver that writes a whole register without reading it (`Word`) has the
  register to itself; every other write is a read and a write, two steps.
  In the PHY registers, too, the read comes right before its write. `rtk_port_phyForceModeAbility_set`
  writes a PHY's control register as a whole and so clears bits of other
  settings; the model has it as puts into each of them.
* Some functions read first, change a field of what they have, and write later:
  those on reserved addresses (`rtl8367b_getAsicRma`, then `..._setAsicRma`) and
  `rtk_switch_portMaxPktLen_set`. Such a call has `takes`, the registers or fields
  it reads into `held` before its puts, one step each. A put marked `keep` then reads
  the register again but gives its field back as it was taken (the priority of
  trapped frames, `rma.c:53`), and one marked `over` writes the whole word that was
  taken with its code in it and reads nothing (`rma.c:57`). What was taken may be out of date by
  then. `TakeAssumption` says what makes such a call harmless when nobody meets it: what it
  writes from, it has taken whole, and its own puts have not changed it since. `ok` says whether a call returns
  `RT_ERR_OK`: calls that fail after their first writes are there with what
  they had written.
* A table of calls, `AllCalls(e)`, takes each argument of a function `e` above the
  least it accepts, or at the greatest; the tables for all `e` have every value of every
  argument. The run takes the two ends. Indices (`Port`, `Queue`, `Meter`, `Rule` and
  so on) are constants, any part of what the library has room for (`IndexAssumption`,
  `PortIndexAssumption`, `VlanIndexAssumption`, `OctetAssumption`); the run takes the
  ends and both sides of every place where packed fields go over to the next
  register. Loops in a call go over all of the indices, as in the code.
* `MapAssumption` says that the blocks of `RegMap` do not share an address and that their
  fields lie within 16 bits. It has no parameter: TLC evaluates it once and for all.
* A PHY register is a register of its own for each page; which page an access
  reaches is the business of the page register, which calls write first.
  `rtk_port_macLocalLoopbackEnable_set` does not, and is taken to reach page 0.
  Restarting the negotiation (bit 9) is a command, not a setting, and left out.

## 3. Runs

| Run | Instance | What it shows | Distinct states |
|---|---|---|---|
| `cvlan_calls` | 2 ports, 2 slots, 2 groups, 3 protocols, VLANs 1-3 and one out of range; a behaviour rewrites tables and slots by index, or has protocol rules | no PVID on an empty slot and no VLAN with two (`SlotInv`); rules sit in groups, protocols in one group (`GroupsConsistent`), which are taken and released when they should (`GroupsOwned`); nobody but a port's own call moves its PVID, and what was accepted is read back (`PvidStable`); who may move a rule or the guest VLAN (`RefsStable`); `CVlan` implements `VlanClassify` (`KeepsPromise`) | 46,589 |
| `svlan_tables` | 2 ports, 2 slots, 2 entries per table, slots freed by index with members left | one slot per SVLAN (`SlotInv`), translations unique and copies agreeing (`EntriesAgree`), read back (`Sp2cHonoured`), references never jump between SVLANs except by their own call (`RefsStable`) | 36,809 |
| `acl_rules` | 1 port, 2 slots, 2 rules, 3 templates, filters of 0, 1 and 2 rules, actions by VLAN, by slot, refused late | no filter is damaged by another (`FiltersKept`); filters and VLAN calls do not move each other's VLANs (`VlansKept`) | 29,904 |
| `l2_table` | 2 ports, 2 unicast and a multicast address with 2 places between them, an IP group, 3 exceptions; behaviours about entries and flushes, about lists, or about exceptions | an address is in the table once (`TableOK`); static entries are a map that calls change as asked (`KeepsStatic`); results are true (`ResultsTrue`); a list names all that stayed (`ListComplete`) and ends (`ListEnds`); a list that a busy table cuts short names all that stayed below the address it got to | 701,450 |
| `settings` | every call on its own from registers of zeros (with highest arguments) and of ones (with lowest), and two processes at once over the calls that share the registers of a port, over calls on reserved addresses, and over calls on the frame lengths of ports | accesses cut no field of the register map in two (`AccessesKeepMap`); no cell is ever part one call's and part another's (`NeverMixed`); a call that returns success and met no other at its registers leaves exactly what it asked for, and changes nothing it did not ask for (`ImplementsSettings`); no call asks a setting to hold more than its cells do (`AsksFit`) | 13,099 |
| `mcfg` | two plain keys and a ranged one, table of 2 chains growing to 4, any `malloc` failing; 5 keys in 2 sections and none, one hand edit | keys sit in their chain once (`TableInv`), sizes reported are sizes needed (`SizesFit`), what is dumped is loaded (`RoundTrip`), plain keys form a map (`ImplementsMap`) which ranged calls change only for keys with that stem (`PlainStable`) | 618,902 |
| `eoc_mdio` | 2 registers, 2 values, 3 attempts, 3 frames under way each way | late frames are harmless (`LinkInv`), a call that returns has told the truth (`ReturnsTrue`), late requests change nothing (`NoLateWrite`), every call ends (`CallsEnd`) | 56,907 |
| `vod_client` | all keys, 2 queued names | the semaphore is held exactly while the thread works on the list (`TypeOK`), the bar stays after *left* (`BarStays`), the area state is true between keys (`AreaTruth`), every key is handled (`KeysHandled`), the queue drains (`QueueDrains`) | 321,330 |

Four runs show a statement of the source that the code does not keep:

* `cvlan_replace_used`: "found a unused entry to replace". The search reads the
  protocol rules of the calling port for every port (`rtk_api.c:7960`), so it may
  replace a slot that another port's rule uses, and that port's frames of the
  protocol change VLAN. The exception is stated in `RefsStable`, `VlansKept` and
  `VlanClassify`.
* `svlan_c2s`: `rtk_svlan_c2s_add` for a port whose customer VLAN goes to another
  SVLAN writes the old entry back with the new index, so that the other ports of
  the entry move too (`rtk_api.c:11643`).
* `acl_del_group`: "This function delete a group of ACL rules starting from
  filter_id". `rtk_filter_igrAcl_cfg_del` clears the one rule at `filter_id`; the
  others of the filter stay valid.
* `l2_flush_vid`: "vid - VID (0 ~ 4095)". `rtk_l2_ucastAddr_flush` refuses 4095.

### What the settings show and what they do not

`ImplementsSettings` speaks of calls that return `RT_ERR_OK`. The code has calls
that are refused after their first writes, write what nobody asked for, or name
more settings than their comment; the modules have them as they are:

* Refused late, with the writes before it done: `rtk_qos_schedulingQueue_set`
  with weight 128 and a queue other than 0 (the setter stores the weight, the
  getter returns one more; 3540, 3591), `rtk_qos_priSel_set` with priority 8
  (2955), `rtk_qos_priMap_set` at a bad queue (3462), `rtk_eee_portEnable_set` on
  ports 5-7 (the flags of the MAC are written, then the PHY does not exist; 17652).
* One for all: the shared meter of a storm type in mode 0 (4518), the frame gap
  of egress rates (2589), the alternate frame length of ports (14210), the
  priority of trapped reserved frames, the delays set by the GMII mode of either
  interface, `rtk_vlan_transparent_set`, which writes the switch of
  all ports with the mask of one (8750).
* `rtk_qos_init` for eight queues uses the row of one queue, and its loops stop at
  priority 6 and DSCP 62. `rtk_port_macForceLinkExt0_set` and `...Ext1_set`, and the
  two for delays, are written for the interface of the other number (5985, 6040, 6649).
* `rtk_port_phyTestMode_set` mode 1 tunes PHY 2, whichever is tested (5724);
  `rtk_port_phyForceModeAbility_set` clears what else the control register holds (5370).
* `rtk_led_groupConfig_set` takes the LEDs out of mode display, after which
  `rtk_led_mode_get` fails; `rtk_trap_rmaAction`'s range check uses `&&` and
  accepts any address (4047); `rtk_filter_igrAcl_template_set` drops the driver's
  error (17273); the off threshold of flow control is written before the on one.
* Two processes at one register can lose each other's change: `rtl8367b_setAsicRegBits`
  writes back the neighbours it read, and the calls on reserved addresses and frame
  lengths write back words and a priority they read several accesses earlier, so that
  another call's change is undone though both report success. Nothing in the
  library prevents that and no property excludes it: `ImplementsSettings` is about
  calls that met no other, and `NeverMixed` says that even then a field is all one
  call's or all another's.
* Settings over two registers are written and read register by register:
  `NeverMixed` is about cells, not about settings, and a reader may see half.

### What no property excludes

The hazards list has these with a note instead of a property; the models have the
behaviour, or leave out what it needs, as said there.

* Customer VLANs: the group a failed `rtk_vlan_protoAndPortBasedVlan_add` keeps
  (`rtk_api.c:8347`; `GroupsOwned` leaves failed calls out); PVID 0 (7884; callers (A) pass none).
* Service VLANs: a new SVLAN inherits what still points to its slot (11264; `RefsStable` is
  about going from one SVLAN straight to another); the multicast table filled with copies of
  one address (12144; `EntriesAgree` only says that the copies agree).
* Filters: a PVID that replaces a slot only filters use (excepted in `VlansKept`, whose run
  also has no protocol rules).
* Settings: one process undoing another's change, as above.
* Dictionary: the dump's own check of the room left (`vns_config.c:573`; `SizesFit` is about
  dictionaries whose keys all have values); what a key with `-` finds (283); a section
  that is a prefix of the one before it (580; excepted in `RoundTrip` by `HeadsSorted`).
* Remote MDIO: a stream of others' frames that keeps a caller reading (`mdio.c:138`); two callers
  at once (142). VOD client: an expiry time lost at the end of a round (131; excepted in
  `QueueDrains`), and a box that hangs up (183).

### Bounds, and why they are enough

* Two slots are one to share and one to fill or replace; with three VLANs they
  overflow, so that each path of the allocation -- share, fill, replace, full --
  is taken with each kind of user. Two ports distinguish "this port" from
  "another", which is all the code does; they are interchangeable, hence the
  symmetry (no run with liveness uses symmetry). The theorems lift the main
  results to every size.
* `focus` in `MCCVlan`, `MCSvlan` and `MCL2`: families of calls that share no table but
  the slots, or nothing at all, take turns in behaviours of their own.
* In `l2_table` one unicast address has a single place, which the other and the
  multicast address compete for: table full, entry displaced while a call is
  between its accesses, and list cursor passed by a moving entry all happen.
* `settings` begins one call on a fresh chip (`MostOf` 1): what a call does depends
  on the registers only through the bits it keeps, and these are all 0 in one round and
  all 1 in the other. Two calls at once (on registers with every second bit set) are over
  calls on `PORT0_MISC_CFG` of port 0 -- rate gap, tag mode and small gap -- and
  whatever else those write (round `pairs`); over fields of reserved addresses 0, 1 and
  3, in the register that also holds the priority of all and in others (round `rma`);
  and over the alternate length of ports 0 and 7 (round `lengths`). A behaviour ends
  when it has made its calls, hence no deadlock check. The theorems are about any calls.
* `MaxKeyLen` and `MaxValLen` bound the totals of the dictionary, which grow with
  every deletion and overwrite because the code never gives that space back; the
  bound admits several such leaks for each key. A text is checked on behaviours
  of its own, without calls before it.
* `InFlight` is one frame per attempt of a call; requests of two calls overlap.
* `MaxList` 2 is the longest list one handler leaves behind (choosing a position
  queues two names); keys are not pressed while the list is too long for them.

### Callers

Properties marked (A) in `CVlan` need callers that pass no VLAN 0 and write slots
by index only with the VLAN they have; (B) callers that pass no rule for the pair
(0, 0), which marks an unused group. In `Svlan`, (A) is the same for slots. The
code accepts such calls: with them the properties fail.
`RefsStable` and `KeepsPromise` of `CVlan` are checked with a second `rtk_vlan_init`
only while nothing refers to a slot (`CleanInit`): it empties the slots and leaves rules
and guest VLAN pointing into them.

## 4. Fairness

* `L2Table`: a call that began goes on (weak fairness of `Lookup`, `Write`, `Check`).
  The caller who lists entries gets his turn again and again, but not always: the
  library is idle only between the calls of others, so `NextGet` is strongly fair.
  Nothing is assumed of the chip, which may learn, move and age for ever. The table may
  be busy too long at any time but need never be, so a list must end by its answers alone.
* `EocMdio`: weak fairness of the caller only. A process inside a call goes on
  running; `SendMME` and `ReadMME` have timeouts and return by themselves. Nothing
  is assumed of the link and the adapter, which may lose everything.
* `VodClient`: weak fairness of each thread's steps and of the clock -- both are
  kernel threads, and `time` passes. Taking the semaphore, by the handler or by
  the clearing thread, is strongly fair: `Thread::Semaphore->down` waits on a
  condition variable that `up` signals; the thread holds the semaphore for one
  round and then sleeps a second, the main thread for one access to the list. Keys are not fair: an operator may stop pressing.
  `QueueDrains` holds only once keys stop, and not for a time set while the
  thread, at the end of a round, is about to undefine it: that picture is not
  cleared until the next one is drawn (line 131), a limit of the code.
* The other specifications have no liveness: each action is a call of a caller
  who may call no more.

## 5. Proofs

The sizes (ports, slots, groups, VLANs, rules, templates, table lengths, processes,
frames under way) and the sets of values callers pass are arbitrary, within the
`ASSUME`s of the modules, which every run evaluates.

* `CVlanProofs!TypeCorrect`, `SvlanProofs!TypeCorrect`: the registers stay within
  their fields, for any callers.
* `CVlanProofs!SlotsSafe`: `SlotInv` for disciplined callers (A). `SlotInv == TypeOK /\
  PvidSlotLive /\ OneSlotPerVid` is inductive, and neither of the last two is alone.
  A slot that is filled must have been empty, hence nobody's PVID, which needs
  `PvidSlotLive`; that a slot is filled only when no slot holds the VLAN gives
  `OneSlotPerVid`. `FillSlotInv` is the one lemma about filling a slot and `FrameInv`
  the one about calls that leave slots and PVIDs alone; a replacement and a write
  by index are treated where `NextSlotInv` meets them.
* `CVlanProofs!PvidsStable`: from `SlotInv`: a fill meets no PVID's slot, and a
  replacement only a slot that no port's PVID refers to (`PvidSlotKept`); no
  other port's PVID register is written (`PvidIndexKept`).
* `CVlanProofs!GroupsSafe`, `GroupsAreOwned`: for callers (B). A rule is made
  in the one group of its protocol, and a delete only releases groups without a
  rule (`Releases`), which is what keeps the next add from opening a second group.
* `CVlanProofs!ReferencesStable`: `RefsStable` for callers (A, B) who initialise
  again only while nothing refers to a slot. It speaks of getters, so the invariant
  needs that *every* pointer that a getter follows is live: `RefsLive` -- PVIDs, valid
  rules and the guest index point to slots that hold a VLAN. Then `SlotKept`: only a
  replacement changes the VLAN of such a slot, and it passes over the slots in use.
  `RefsInv == SlotInv /\ RefsLive /\ GroupsConsistent` is inductive.
* `CVlanProofs!PromiseKept`: `CVlan` implements `VlanClassify`, for the same
  callers. A call that replaces no slot leaves every live slot alone (`SlotsFixed`),
  and the getters' answers change with its own pointer only; a replacement changes
  one slot, whose VLAN is in no other (`OneSlotPerVid`), so exactly the rules and the
  idle guest VLAN that were in it move. One lemma for each kind of call.
* `L2TableProofs`: for any callers. A call is several accesses and the chip changes the
  table in between, so what the call remembers may be out of date when it writes.
  The strengthening `CallOK` says what is left of it: an entry that is static now is the
  one found, since only calls write static entries and one call runs at a time. From
  it: `TableSafe` (`TableOK`), `ResultsAreTrue` (`ResultsTrue`), and `StaticKept`, that `L2Table`
  implements `L2Static`. `ListsComplete` needs `ListInv` on top: a place that
  kept its entry has been listed or is still to come. A lookup that finds the table
  busy ends the list where the cursor stands, and what is below that has been listed.
* `SvlanProofs!OneSlotSafe`, `EntriesSafe` (from `Sp2cSafe` and `Mc2sSafe`): each
  table's invariant with `TypeOK` is inductive; the last two for any callers, because
  an add looks at the whole table before it takes a free place (SP2C), or writes
  the new slot to every copy (multicast).
* `SvlanProofs!ReferencesStable`: `RefsStable` for callers (A). No call gives a slot that
  holds an SVLAN another one (`SlotKept`), so an answer can switch only if the entry that
  is found, or its index, changes: a C2S call leaves the entries of other customer
  VLANs and ports serving as they did (`ServesAlike`), and what a multicast delete
  uncovers agrees with what it removed (`Mc2sCopiesAgree`).
* `SvlanProofs!Sp2cReadBack`: `Sp2cHonoured`, for any callers: `Sp2cUnique` makes the upward
  scan of the getter end where the downward scan of the add did.
* `CVlanProofs!FiltersAreKept`: `FiltersKept`, for any callers, from the shape of
  the tables (`AclShape`): the room examined is the room written.
* `CVlanProofs!AclSlotsSafe`: the slots stay sound with filters filling them too.
* `CVlanProofs!VlansAreKept`: `VlansKept` for callers whose filters name no VLAN 0, from
  `RefsLive` and `SlotKept` again, with filters as one more user of the slots.
  `AclInv == SlotInv /\ RefsLive /\ AclShape` is inductive.
* `EocMdioProofs!LinkSafe`, `ReturnsAreTrue`, `NoWriteIsLate`: `LinkInv` is inductive.
  The link is first in, first out, so what is left of earlier calls stands in
  front of what the call in progress has sent: every earlier write has been executed
  with the value its register still has (`LateRequests`), and every confirmation carries what
  its register holds, or is overtaken by the write in progress (`LateConfirmations`). A
  call returns on a confirmation of its register, and so returns the truth; a
  late write repeats what is there.
* `RegistersProofs!TypesRight`, `NoCellMixed`: for any calls over settings, any
  processes and any interleaving. `NeverMixed` is not inductive: a process writes
  back what it *read*, just now or when its call began, so the invariant is `IInv ==
  TypeOK /\ NeverMixed /\ SeenWhole /\ HeldWhole`: what a process has read of a register, and
  what it has taken so far, was in one piece, cell by cell. The argument rests on `DisjointAssumption`, that no two cells share
  bits, which TLC evaluates for all the settings of the library: a mask that
  overlaps a neighbour would fail there before any run starts.

* `RegistersProofs!SettingsImplemented`: `ImplementsSettings`, for any calls whose codes
  fit (`AsksFit`). What a
  process at its registers alone has read is what is there (`SeenFresh`), and so is what
  it took, as long as it has still to write from it (`HeldFresh`, by `TakeAssumption`); so its write
  puts in what it asked for and puts back the rest; what it has put stays until it
  returns (`PutsHold`), unless another process comes to the same register, of which the
  call's record tells (`AloneApart`).
* `SettingsProofs!LibraryAsksFit`, `LibraryKeepsMap`: `AsksFit` and `AccessesKeepMap`
  for every call of the four `*Settings` modules, at every index and every argument the
  functions accept, and for any other call made of the same puts (`OfLibrary`): other
  choices of several arguments, calls cut short. The invariant is `TypeOK`, because both
  are about each put by itself (`Good`): its code has room in its setting, and each of the
  setting's cells covers, lies within or leaves alone every field of its register.
  A block's fields are those of the map at each of its addresses (`BlockFields`, from
  `MapAssumption`); from there a lemma for each shape of setting -- one cell, item `i` of
  a packed table, a code over several registers, a PHY register, a cell with gaps --
  and for each width of number says what a setting has room for (`Sound`, `Takes`).
  Then every setting of the drivers is shown sound and every function good, loops and
  early returns included; one lemma for each group of functions, one for each module.
* `SettingsProofs!LibraryImplemented`: `ImplementsSettings` for the library, from
  `LibraryAsksFit` and `SettingsImplemented`. What remains an assumption is that cells of
  different settings do not overlap (`DisjointAssumption`) and that calls take what they write from
  (`TakeAssumption`), which the run evaluates for its indices.
* `McfgProofs!TableRight`, `PlainKept`, `MapImplemented`, `BuffersFit`: for every set of
  keys, every hash and every length. `TableInv` and `SizesFit` speak of chains; the
  invariant `MInv` says that the table is sound (every chain holds entries of its own
  hash, and no key twice), that `entry_num` counts the entries and that the totals
  are *at least* the space of all keys and values. Equality would not be inductive:
  a key is counted with one byte more than it is taken off with, and an overwritten
  value likewise, so the totals only grow away from what is needed. Each call is then
  shown to replace, add or remove one entry of a set; what a plain key resolves to is the
  entry of that key in the set, and the two statements about plain keys follow. For
  the dump, each section header is charged to the first entry of its section: a line, its
  share of a header and one byte fit what that entry's key and value were counted
  with, so the byte left over takes the final NUL.
* `McfgProofs!TextKept`: `RoundTrip`, for any keys, values, sections and edits. The
  invariant `TextInv` relates lines to keys by the section in effect at a line, not by
  position: every assignment is of a key of the dictionary with its value, unless the
  operator assigned it (`TrueLines`), every key with a value has its line
  (`AllWritten`), and what is read back so far is right for the lines read
  (`ReadUpto`). The writer keeps the section of the key it writes in effect
  (`SectionRight`): a key without a section never comes after one with
  (`OrderFacts`), and by `HeadsSorted` a section it takes for announced is the one
  announced. Where a section does begin with the name of one that sorts after it,
  the header of the latter is not written, so the condition cannot be dropped.
* `VodClientProofs!TypesRight`, `BarKept`, `AreaTold`: for any bound on the list, any
  keys and any interleaving of the two threads. A handler is a sequence of accesses
  and the clearing thread removes what it has *seen*; the invariant says what the
  accesses left in the sequence will still do. `WillShow`: a key that is queued
  again is shown before the handler ends; `ArrowDrawn` and `Told`: between the two
  accesses that draw an arrow and set the state, and those that clear them, which of
  picture and state may be ahead; `ThreadTold`: the same of the thread; `Room`: what
  is still to be added fits the bound. None of the three theorems is inductive without them.

Chains, sums and the order of the dump are defined by recursion, and the library's induction theorems
cannot be used by the provers at hand: `McfgProofs` states its inductions about
*sets* of numbers (`SetInduction`), from the theorem that every non-empty
set of naturals has a least element.

Only model-checked: what must happen eventually (`ListEnds`, `CallsEnd`, `KeysHandled`,
`QueueDrains`), which is outside the prover's reach. For three of them
the part that does not speak of fairness is proved, a number that the steps lessen:

* `L2TableProofs!ListsAreShort`: each call of a list ends it, by its answer or because the
  table stays busy, or moves its cursor on, and
  nothing moves it back. `ListEnds` then only needs the caller's turns.
* `EocMdioProofs!CallsAreShort`: while a call is in progress *every* step lessens
  `Effort`, which counts the attempts left and the frames on the link, each
  confirmation once and each request twice; so a call that goes on is over after at
  most `MostEffort` steps, its own and the adapter's. `CallsEnd` adds that a process in a
  call goes on.
* `VodClientProofs!RoundsAreShort`: the clearing thread, once it has the semaphore, gives
  it back after at most two steps for each name of the list and three more, and the
  main thread cannot make that longer. `KeysHandled` adds that both threads run.

## 6. Not modelled

* The components marked `not_modelled` in `PROJECT.json`: the command line (one
  call per process), INI files, pure I/O, third-party data.
* What the chip writes and calls only read: counters, link status, cable test
  results, learned groups and router ports, page counts, timestamps, the marks of
  exceeded meters and of interrupts, which are cleared by writing ones
  (`rtk_int_advanceInfo_get` reads and then clears, and an event in between is lost).
* `rtk_switch_init`'s lists of register values; `rtk_vlan_stg_set`;
  `rtk_port_phyReg_set`, raw access to any PHY register; forcing a whole LED group
  (`led.c:238` writes a bit outside the field); the address of the switch, whose
  driver reads past the six octets in its last step (`misc.c:35`), is modelled
  with the octets only.
* The bus (`smi.c`) and the table access below `L2Table`, `CVlan`, `Svlan` and
  `Acl`: their shared address, data and control registers.
* The RTSP exchange and the seek clock of the VOD client; freeing a dictionary;
  opening and closing the MDIO channel. `mcfg_*` has no caller in the repository;
  any sequence of calls is taken.

## 7. Plan

Order: the parts whose tables point to each other first, then the concurrent and
the distributed ones, then tables that stand alone, then the register settings.
All of these are done. What would come next:

1. Proofs: that the settings of the library do not overlap, for all indices at once
   (`DisjointAssumption`).
2. Table access through shared registers, with two processes: an abstract table for
   `CVlan`, `Svlan`, `Acl` and `L2Table` to stand on.
3. The RTSP exchange of the VOD client, with its pause state and seek clock.
