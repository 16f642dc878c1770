---------------------------- MODULE ConfigStore ----------------------------
(***************************************************************************)
(* The settings: config.c, the three web requests that save them, and what *)
(* app_main reads at every boot.  config_save writes key by key, ignores   *)
(* every nvs_set that fails, and commits once; the power may go at any     *)
(* point, and what was set and not committed is then kept or lost key by   *)
(* key.  A boot may find the flash unreadable, in whole or key by key, or  *)
(* erase it.  Strings that only travel are taken as they are.              *)
(***************************************************************************)
EXTENDS Integers, Sequences

CONSTANTS Order,       \* the keys, or some of them, in the order config_save writes them
          Posted,      \* Posted[f]: the values a browser may post for f, in a sequence
          Choice,      \* the positions in these sequences
          Absent,      \* no such key in the flash
          MaxSaves,    \* bound: requests that save
          MaxBoots,    \* bound: restarts
          MaxFaults    \* bound: calls of the flash that fail or erase it, power losses

Keys == {"ssid", "password", "baud", "otg_en", "ap_ssid", "ap_pass", "wifi_mac", "eth_mac",
         "wg_en", "wg_priv", "wg_peerpub", "wg_ep", "wg_port", "wg_lclip", "wg_lclmask", "wg_ka"}

Fields == {Order[i] : i \in 1..Len(Order)}

ASSUME OrderAssumption  == Order \in Seq(Keys)
\* What atoi makes of a port or a keepalive is a number.
ASSUME NumbersAssumption ==
  \A f \in Fields \intersect {"wg_port", "wg_ka"} : \A i \in DOMAIN Posted[f] : Posted[f][i] \in Int
ASSUME BoundsAssumption == {MaxSaves, MaxBoots, MaxFaults} \subseteq Nat

VARIABLES mounted,         \* nvs_flash_init has succeeded at this boot
          namespace,       \* the namespace exists in the flash
          flash,           \* flash[f]: committed value, or Absent
          pending,         \* pending[f]: set through the open handle, or Absent
          boot_ap,         \* the flag in the flash
          current_config,  \* the copy in memory
          ap_mode,
          at,              \* "off", "load", "consume", "idle", "write" or "boot_ap"
          next,            \* while writing: position in Order
          new_cfg,         \* while writing: what is saved
          marks,           \* while writing: config_post_handler sets boot_ap afterwards
          whole,           \* history: no write of this save has failed
          misread,         \* history: memory is what a boot took that could not read the flash
          tried,           \* history: what the flash may hold, the last intact save and those since
          asked, granted,  \* history: boot_ap set, and boots that found it
          saves, boots, faults

vars == <<mounted, namespace, flash, pending, boot_ap, current_config, ap_mode, at, next, new_cfg,
          marks, whole, misread, tried, asked, granted, saves, boots, faults>>

----------------------------------------------------------------------------
(* Defaults and normalisation. *)

\* config_load without a namespace
Factory ==
  [ssid |-> "net1", password |-> "factory password", baud |-> 9600, otg_en |-> FALSE,
   ap_ssid |-> "ESP32S3_AP", ap_pass |-> "DefaultPass!", wifi_mac |-> "", eth_mac |-> "",
   wg_en |-> FALSE, wg_priv |-> "factory key", wg_peerpub |-> "factory peer",
   wg_ep |-> "192.168.1.89", wg_port |-> 51820, wg_lclip |-> "10.8.0.3",
   wg_lclmask |-> "255.255.255.0", wg_ka |-> 25]

\* config_load, a key that is missing or refused
Default ==
  [Factory EXCEPT !.wg_priv = "", !.wg_peerpub = "", !.wg_ep = "", !.wg_lclip = "10.8.0.2"]

FactoryCfg == [f \in Fields |-> Factory[f]]

DefaultCfg == [f \in Fields |-> Default[f]]

ASSUME AbsentAssumption ==
  /\ Absent \notin Int
  /\ \A f \in Fields : /\ Absent # Factory[f] /\ Absent # Default[f]
                       /\ \A i \in DOMAIN Posted[f] : Absent # Posted[f][i]

LegalRates == 1200..230400
ShortPass  == {"", "short"}          \* config_ap_pass_valid refuses them

Refused(f, v) ==
  \/ f = "password" /\ v = ""
  \/ f = "baud" /\ v \notin LegalRates
  \/ f = "ap_pass" /\ v \in ShortPass
  \/ f \in {"wg_port", "wg_ka"} /\ v = 0

\* config_load of one key
Loaded(f, v) == IF v = Absent \/ Refused(f, v) THEN Default[f] ELSE v

\* What config_save writes for one key: it passes an illegal rate on.
Stored(f, v) ==
  IF (f = "ap_ssid" /\ v = "") \/ (f \in {"ap_pass", "wg_port", "wg_ka"} /\ Refused(f, v))
    THEN Default[f] ELSE v

\* A value once saved and loaded
Settled(f, v) == Loaded(f, Stored(f, v))

\* config_load with the namespace open; the reading of the keys in bad fails.
Read(bad) == [f \in Fields |-> Loaded(f, IF f \in bad THEN Absent ELSE flash[f])]

\* What a boot loads that can read the flash
Load == IF namespace THEN Read({}) ELSE FactoryCfg

----------------------------------------------------------------------------
(* The requests: what each makes of the settings in memory. *)

ConfigKeys == {"ssid", "password", "baud", "otg_en", "ap_ssid", "ap_pass", "wifi_mac", "eth_mac"}

InvalidMac == {"not a MAC"}

\* What a form leaves as it is, because the field was empty or wrong
Untouched(f, v) ==
  \/ f \in {"ap_ssid", "ap_pass", "password", "wg_priv"} /\ v = ""
  \/ f \in {"wifi_mac", "eth_mac"} /\ v \in InvalidMac

\* Numbers are cut to the width of their C type, as by the casts of atoi in wg_post_handler.
Cut(f, v) == IF f = "wg_port" THEN v % 65536 ELSE IF f = "wg_ka" THEN v % 256 ELSE v

\* One field of a form; old is the value in memory.
Merged(f, old, v) ==
  LET new == IF Untouched(f, v) THEN old ELSE Cut(f, v) IN
  IF f \in {"ssid", "wg_lclip", "wg_lclmask"} /\ new = "" THEN Default[f]
  ELSE IF f \in {"ap_ssid", "ap_pass", "wg_port"} THEN Stored(f, new)
  ELSE new

\* A form posts every field of its half.
Forms(half) ==
  {form \in [Fields \intersect half -> Choice] : \A f \in DOMAIN form : form[f] \in DOMAIN Posted[f]}

Filled(form) ==
  [f \in Fields |-> IF f \in DOMAIN form THEN Merged(f, current_config[f], Posted[f][form[f]])
                    ELSE current_config[f]]

Nothing == [f \in Fields |-> Absent]

Fault == faults < MaxFaults /\ faults' = faults + 1

\* nvs_open for writing fails: always without a flash, and else as any call may.
OpenFails == IF mounted THEN Fault ELSE UNCHANGED faults

\* config_save, nvs_open: it creates the namespace, or fails and nothing is saved.
Save(cfg, then) ==
  /\ saves < MaxSaves
  /\ saves' = saves + 1
  /\ new_cfg' = cfg
  /\ marks' = then
  /\ \/ /\ mounted
        /\ at' = "write" /\ next' = 1 /\ whole' = TRUE
        /\ namespace' = TRUE
        /\ tried' = tried \union {cfg}
        /\ UNCHANGED faults
     \/ /\ OpenFails
        /\ at' = IF then THEN "boot_ap" ELSE "idle"
        /\ UNCHANGED <<next, whole, namespace, tried>>
  /\ UNCHANGED <<mounted, flash, pending, boot_ap, current_config, ap_mode, misread,
                 asked, granted, boots>>

BaudPost ==
  /\ at = "idle" /\ "baud" \in Fields
  /\ \E i \in DOMAIN Posted["baud"] :
       /\ Posted["baud"][i] \in LegalRates
       /\ Save([current_config EXCEPT !["baud"] = Posted["baud"][i]], FALSE)

\* A new passphrase that is too short refuses the whole form.
ConfigPost ==
  /\ at = "idle"
  /\ \E form \in Forms(ConfigKeys) :
       /\ "ap_pass" \in Fields => Posted["ap_pass"][form["ap_pass"]] \notin ShortPass \ {""}
       /\ Save(Filled(form), ap_mode)

WgPost ==
  /\ at = "idle"
  /\ \E form \in Forms(Fields \ ConfigKeys) : Save(Filled(form), FALSE)

----------------------------------------------------------------------------
(* config_save, from the first key on. *)

\* Variant: the rate is forgotten.
WrittenButRate(f, v) == IF f = "baud" THEN flash[f] ELSE Stored(f, v)

Written(f, v) == Stored(f, v)

\* One nvs_set; the next one follows whatever it returns.
Write ==
  /\ at = "write" /\ next <= Len(Order)
  /\ next' = next + 1
  /\ \/ /\ pending' = [pending EXCEPT ![Order[next]] = Written(Order[next], new_cfg[Order[next]])]
        /\ UNCHANGED <<whole, faults>>
     \/ /\ Fault
        /\ whole' = FALSE
        /\ UNCHANGED pending
  /\ UNCHANGED <<mounted, namespace, flash, boot_ap, current_config, ap_mode, at, new_cfg, marks,
                 misread, tried, asked, granted, saves, boots>>

Set == {f \in Fields : pending[f] # Absent}

\* Variant: the namespace was erased before the first key.
KeptOnly(keys) == [f \in Fields |-> IF f \in keys THEN pending[f] ELSE Absent]

Kept(keys) == [f \in Fields |-> IF f \in keys THEN pending[f] ELSE flash[f]]

\* Variant: the handle stays open.
StillOpen == pending

Closed == Nothing

\* nvs_commit, nvs_close and the copy in memory
Commit ==
  /\ at = "write" /\ next > Len(Order)
  /\ pending' = Closed
  /\ at' = IF marks THEN "boot_ap" ELSE "idle"
  /\ \/ /\ flash' = Kept(Set)
        /\ current_config' = new_cfg /\ misread' = FALSE
        /\ tried' = IF whole THEN {new_cfg} ELSE tried
        /\ UNCHANGED faults
     \/ /\ Fault
        /\ \E keys \in SUBSET Set : flash' = Kept(keys)
        /\ UNCHANGED <<current_config, misread, tried>>
  /\ UNCHANGED <<mounted, namespace, boot_ap, ap_mode, next, new_cfg, marks, whole,
                 asked, granted, saves, boots>>

\* config_set_boot_ap(true), after which config_post_handler orders the restart
SetBootAp ==
  /\ at = "boot_ap"
  /\ at' = "idle"
  /\ asked' = asked + 1
  /\ \/ mounted /\ namespace' = TRUE /\ boot_ap' = TRUE /\ UNCHANGED faults
     \/ mounted /\ Fault /\ namespace' = TRUE /\ boot_ap' \in {boot_ap, TRUE}
     \/ OpenFails /\ UNCHANGED <<namespace, boot_ap>>
  /\ UNCHANGED <<mounted, flash, pending, current_config, ap_mode, next, new_cfg, marks, whole,
                 misread, tried, granted, saves, boots>>

----------------------------------------------------------------------------
(* Restarts. *)

\* A restart between two requests; the access point may have been the fallback.
Restart ==
  /\ at = "idle" /\ boots < MaxBoots
  /\ boots' = boots + 1
  /\ at' = "off"
  /\ UNCHANGED <<mounted, namespace, flash, pending, boot_ap, current_config, ap_mode, next, new_cfg,
                 marks, whole, misread, tried, asked, granted, saves, faults>>

\* The power goes while the flash is written: every key set so far is kept or lost by itself.
PowerLoss ==
  /\ Fault
  /\ at \in {"write", "boot_ap"}
  /\ at' = "off"
  /\ \E keys \in SUBSET Set : flash' = Kept(keys)
  /\ pending' = Closed
  /\ UNCHANGED <<mounted, namespace, boot_ap, current_config, ap_mode, next, new_cfg, marks, whole,
                 misread, tried, asked, granted, saves, boots>>

\* config_init at every boot: nvs_flash_init succeeds, or fails, which app_main does not ask.
ConfigInit ==
  /\ at = "off"
  /\ at' = "load"
  /\ \/ mounted' = TRUE /\ UNCHANGED faults
     \/ mounted' = FALSE /\ Fault
  /\ UNCHANGED <<namespace, flash, pending, boot_ap, current_config, ap_mode, next, new_cfg, marks,
                 whole, misread, tried, asked, granted, saves, boots>>

\* config_init, nvs_flash_init finds no free page or a newer version: everything is erased,
\* and nvs_flash_init tried again.
Erase ==
  /\ at = "off"
  /\ Fault
  /\ at' = "load"
  /\ mounted' \in BOOLEAN
  /\ flash' = Nothing /\ namespace' = FALSE /\ boot_ap' = FALSE
  /\ tried' = {FactoryCfg, DefaultCfg}
  /\ UNCHANGED <<pending, current_config, ap_mode, next, new_cfg, marks, whole, misread,
                 asked, granted, saves, boots>>

\* nvs_flash_erase fails, which aborts, or the power goes: each key is still there or not,
\* and the next boot begins with config_init again.
EraseTorn ==
  /\ at = "off"
  /\ Fault
  /\ \E keys \in SUBSET Fields :
       flash' = [f \in Fields |-> IF f \in keys THEN flash[f] ELSE Absent]
  /\ namespace' \in {FALSE, namespace} /\ boot_ap' \in {FALSE, boot_ap}
  /\ tried' = tried \union {FactoryCfg, DefaultCfg}
  /\ UNCHANGED <<mounted, pending, current_config, ap_mode, at, next, new_cfg, marks, whole, misread,
                 asked, granted, saves, boots>>

\* app_main: config_load.  Without a namespace, or when nvs_open fails for whatever reason,
\* the factory settings; a key that is missing or cannot be read, its default.
Boot ==
  /\ at = "load"
  /\ at' = "consume"
  /\ \/ mounted /\ current_config' = Load /\ misread' = FALSE /\ UNCHANGED faults
     \/ OpenFails /\ current_config' = FactoryCfg /\ misread' = TRUE
     \/ /\ mounted /\ namespace /\ Fault
        /\ \E bad \in SUBSET Fields \ {{}} : current_config' = Read(bad)
        /\ misread' = TRUE
  /\ UNCHANGED <<mounted, namespace, flash, pending, boot_ap, ap_mode, next, new_cfg, marks, whole,
                 tried, asked, granted, saves, boots>>

\* Variant: the flag is read and left.
ErasedNever(flag) == flag

Erased(flag) == FALSE

\* config_consume_boot_ap: it opens the namespace for writing, which creates it,
\* and erases the flag it finds; the erasing may fail unnoticed, and so may the reading.
Consume ==
  /\ at = "consume" /\ mounted
  /\ at' = "idle"
  /\ namespace' = TRUE
  /\ \/ /\ ap_mode' = boot_ap
        /\ granted' = granted + (IF boot_ap THEN 1 ELSE 0)
        /\ \/ boot_ap' = Erased(boot_ap) /\ UNCHANGED faults
           \/ boot_ap /\ Fault /\ UNCHANGED boot_ap
     \/ /\ Fault
        /\ ap_mode' = FALSE
        /\ UNCHANGED <<boot_ap, granted>>
  /\ UNCHANGED <<mounted, flash, pending, current_config, next, new_cfg, marks, whole, misread, tried,
                 asked, saves, boots>>

\* nvs_open fails: no access point, and the flag waits for the next boot.
ConsumeFails ==
  /\ at = "consume"
  /\ OpenFails
  /\ at' = "idle"
  /\ ap_mode' = FALSE
  /\ UNCHANGED <<mounted, namespace, flash, pending, boot_ap, current_config, next, new_cfg, marks,
                 whole, misread, tried, asked, granted, saves, boots>>

\* start_ap_mode: the station has given up
Fallback ==
  /\ at = "idle" /\ ~ap_mode
  /\ ap_mode' = TRUE
  /\ UNCHANGED <<mounted, namespace, flash, pending, boot_ap, current_config, at, next, new_cfg, marks,
                 whole, misread, tried, asked, granted, saves, boots, faults>>

Init ==
  /\ mounted = FALSE /\ namespace = FALSE
  /\ flash = Nothing /\ pending = Nothing
  /\ boot_ap = FALSE /\ ap_mode = FALSE
  /\ at = "off" /\ next = 1
  /\ current_config = Nothing /\ new_cfg = Nothing
  /\ marks = FALSE /\ whole = FALSE /\ misread = FALSE
  /\ tried = {FactoryCfg, DefaultCfg}
  /\ asked = 0 /\ granted = 0
  /\ saves = 0 /\ boots = 0 /\ faults = 0

Next ==
  \/ BaudPost \/ ConfigPost \/ WgPost
  \/ Write \/ Commit \/ SetBootAp
  \/ Restart \/ PowerLoss \/ ConfigInit \/ Erase \/ EraseTorn
  \/ Boot \/ Consume \/ ConsumeFails \/ Fallback

Spec == Init /\ [][Next]_vars

----------------------------------------------------------------------------
(* Properties. *)

\* The step of the save and the counters stay in range, and a key is pending only while its save
\* is under way.
TypeOK ==
  /\ {mounted, namespace, boot_ap, ap_mode, marks, whole, misread} \subseteq BOOLEAN
  /\ at \in {"off", "load", "consume", "idle", "write", "boot_ap"}
  /\ next \in 1..(Len(Order) + 1)
  /\ \A c \in tried \union {flash, pending, current_config, new_cfg} : DOMAIN c = Fields
  /\ saves \in 0..MaxSaves /\ boots \in 0..MaxBoots /\ faults \in 0..MaxFaults
  /\ asked \in 0..saves /\ granted \in Nat
  /\ at # "write" => Set = {}

\* However many saves are torn by a lost power or a full flash, what a restart that can read the
\* flash would load is, field by field, what the last intact save or one tried since gave to
\* config_save; it falls back to a default (or to older settings) only if config_init has
\* erased the flash since that save.
SettingsHaveASource ==
  \A f \in Fields : \E c \in tried : Load[f] = Settled(f, c[f])

\* Between two requests, if the last save was intact, a restart changes nothing but what
\* config_load corrects: the copy in memory and the flash agree.  The exception is a boot that
\* could not read what is there: until something is saved, memory has defaults over an intact flash.
RestartChangesNothing ==
  \A c \in tried : at = "idle" /\ ~misread /\ tried = {c} =>
    \A f \in Fields : Load[f] = Settled(f, current_config[f])

\* The access point comes up by itself once for each time config_post_handler has set the flag: a
\* boot consumes it, unless the flash fails to erase it.  That saving in the access point sets the
\* flag at all contradicts src/README.md:279, "Der ESP startet automatisch neu und verbindet sich
\* als STA mit dem neuen Netz": one such save and the restart it orders end with granted = 1.
BootApOnce == granted <= asked + faults
=============================================================================
