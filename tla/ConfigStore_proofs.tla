------------------------- MODULE ConfigStore_proofs -------------------------
(***************************************************************************)
(* The settings, for every list of keys, every posted value and every      *)
(* number of saves, boots and faults, config_init's erasing of the flash   *)
(* among them: what a restart that can read the flash loads was asked for  *)
(* since, after an intact save it is what memory holds, and a boot         *)
(* consumes the request for the access point.                              *)
(***************************************************************************)
EXTENDS ConfigStore, TLAPS

Running == at \in {"consume", "idle", "write", "boot_ap"}

\* Settings that are all there.
Clean(c) == DOMAIN c = Fields /\ \A f \in Fields : c[f] # Absent

-----------------------------------------------------------------------------
(* Defaults and normalisation.                                             *)

\* The keys are keys.
LEMMA FieldsAreKeys == Fields \subseteq Keys /\ \A i \in 1..Len(Order) : Order[i] \in Fields
  BY OrderAssumption DEF Fields

\* A default survives being saved and loaded.
LEMMA DefaultSettled ==
  ASSUME NEW f
  PROVE  Settled(f, Default[f]) = Default[f]
  BY DEF Settled, Loaded, Stored

\* So does a factory setting.
LEMMA FactorySettled ==
  ASSUME NEW f \in Fields
  PROVE  Settled(f, Factory[f]) = Factory[f]
<1>1. ASSUME f = "password" PROVE ~Refused(f, Factory[f])
  <2>1. Factory[f] = "factory password" /\ "factory password" # ""
    BY <1>1 DEF Factory
  <2>2. f # "baud" /\ f # "ap_pass" /\ f \notin {"wg_port", "wg_ka"}
    BY <1>1
  <2> QED
    BY <2>1, <2>2 DEF Refused
<1>4. ASSUME f = "baud" PROVE ~Refused(f, Factory[f])
  <2>1. Factory[f] = 9600
    BY <1>4 DEF Factory
  <2> QED
    BY <1>4, <2>1 DEF Refused, LegalRates
<1>5. ASSUME f = "ap_pass" PROVE ~Refused(f, Factory[f])
  <2>1. Factory[f] = "DefaultPass!"
    BY <1>5 DEF Factory
  <2> QED
    BY <1>5, <2>1 DEF Refused, ShortPass
<1>6. ASSUME f = "wg_port" PROVE ~Refused(f, Factory[f])
  <2>1. Factory[f] = 51820
    BY <1>6 DEF Factory
  <2> QED
    BY <1>6, <2>1 DEF Refused
<1>8. ASSUME f = "wg_ka" PROVE ~Refused(f, Factory[f])
  <2>1. Factory[f] = 25
    BY <1>8 DEF Factory
  <2> QED
    BY <1>8, <2>1 DEF Refused
<1>7. ASSUME f = "ap_ssid" PROVE Factory[f] # ""
  BY <1>7 DEF Factory
<1>3. ~Refused(f, Factory[f])
  BY <1>1, <1>4, <1>5, <1>6, <1>8 DEF Refused
<1>2. Factory[f] # Absent
  BY AbsentAssumption
<1> QED
  BY <1>2, <1>3, <1>7 DEF Settled, Loaded, Stored

\* Saving and loading a second time changes nothing.
LEMMA SettledTwice ==
  ASSUME NEW f \in Fields, NEW v
  PROVE  Settled(f, Settled(f, v)) = Settled(f, v)
<1> DEFINE x == Stored(f, v)
<1> DEFINE w == Loaded(f, x)
<1>1. CASE w = Default[f]
  BY <1>1, DefaultSettled DEF Settled
<1>2. CASE w # Default[f]
  <2>1. w = x /\ x # Absent /\ ~Refused(f, x)
    BY <1>2 DEF Loaded
  <2>5. Default["ap_ssid"] = "ESP32S3_AP"
    BY DEF Default, Factory
  <2>2. f = "ap_ssid" => x # ""
    BY <2>5 DEF Stored
  <2>3. Stored(f, w) = w
    <3> HIDE DEF x
    <3> QED BY <2>1, <2>2 DEF Stored
  <2>4. Loaded(f, w) = w
    <3> HIDE DEF x
    <3> QED BY <2>1 DEF Loaded
  <2> QED
    BY <2>3, <2>4 DEF Settled
<1> QED
  BY <1>1, <1>2

\* Nothing that is there is written as absent.
LEMMA StoredIsThere ==
  ASSUME NEW f \in Fields, NEW v, v # Absent
  PROVE  Stored(f, v) # Absent
  BY AbsentAssumption DEF Stored

\* One field of a form leaves a setting there.
LEMMA MergedIsThere ==
  ASSUME NEW f \in Fields, NEW old, NEW v, old # Absent, v # Absent,
         f \in {"wg_port", "wg_ka"} => v \in Int
  PROVE  Merged(f, old, v) # Absent
<1> DEFINE new == IF Untouched(f, v) THEN old ELSE Cut(f, v)
<1>1. new # Absent
  BY AbsentAssumption DEF Cut
<1> HIDE DEF new
<1>2. Stored(f, new) # Absent /\ Default[f] # Absent
  BY <1>1, StoredIsThere, AbsentAssumption
<1> QED
  BY <1>1, <1>2 DEF Merged, new

\* A form leaves every setting there.
LEMMA FilledIsClean ==
  ASSUME NEW half, NEW form \in Forms(half), Clean(current_config)
  PROVE  Clean(Filled(form))
<1> SUFFICES ASSUME NEW f \in Fields PROVE Filled(form)[f] # Absent
  BY DEF Clean, Filled
<1>1. current_config[f] # Absent /\ Default[f] # Absent
  BY AbsentAssumption DEF Clean
<1>2. CASE f \notin DOMAIN form
  BY <1>1, <1>2 DEF Filled
<1>3. CASE f \in DOMAIN form
  <2> DEFINE v == Posted[f][form[f]]
  <2>1. form[f] \in DOMAIN Posted[f]
    BY <1>3 DEF Forms
  <2>2. v # Absent
    BY <2>1, AbsentAssumption
  <2>3. f \in {"wg_port", "wg_ka"} => v \in Int
    BY <2>1, NumbersAssumption
  <2> HIDE DEF v
  <2>4. Merged(f, current_config[f], v) # Absent
    BY <1>1, <2>2, <2>3, MergedIsThere
  <2> QED
    BY <1>3, <2>4 DEF Filled, v
<1> QED
  BY <1>2, <1>3

-----------------------------------------------------------------------------
(* The invariant: where what is in the flash, what is set through the open *)
(* handle and what is in memory come from.                                 *)

\* What the flash holds is a default that was tried, or a value tried and written.
FlashOK ==
  /\ \A f \in Fields : flash[f] = Absent => DefaultCfg \in tried
  /\ \A f \in Fields : flash[f] # Absent => \E c \in tried : flash[f] = Stored(f, c[f])
  /\ ~namespace => FactoryCfg \in tried

\* What is set through the open handle is of the settings being saved, and while no write
\* has failed every key before the next one is set.
PendingOK ==
  /\ at # "write" => pending = Nothing
  /\ at = "write" =>
       /\ new_cfg \in tried /\ Clean(new_cfg)
       /\ namespace /\ next \in Nat
       /\ DOMAIN pending = Fields
       /\ \A f \in Fields : pending[f] \in {Absent, Stored(f, new_cfg[f])}
       /\ whole => \A i \in 1..Len(Order) : i < next => pending[Order[i]] # Absent

\* What is in memory is all there, and, unless it is what a boot took that could not read the
\* flash, it is what was saved intact when nothing else was tried.
MemoryOK ==
  Running =>
    /\ Clean(current_config)
    /\ ~misread =>
         \A c \in tried : tried = {c} =>
           \A f \in Fields : Settled(f, current_config[f]) = Settled(f, c[f])

Sound == FlashOK /\ PendingOK /\ MemoryOK

\* What a restart that can read the flash would load was tried.
LEMMA LoadHasASource == FlashOK => SettingsHaveASource
<1> SUFFICES ASSUME FlashOK, NEW f \in Fields
             PROVE  \E c \in tried : Load[f] = Settled(f, c[f])
  BY DEF SettingsHaveASource
<1>1. CASE ~namespace
  <2>1. Load[f] = Factory[f] /\ FactoryCfg[f] = Factory[f] /\ FactoryCfg \in tried
    BY <1>1 DEF Load, FactoryCfg, FlashOK
  <2> QED
    BY <2>1, FactorySettled
<1>2. CASE namespace /\ flash[f] = Absent
  <2>1. Load[f] = Default[f] /\ DefaultCfg[f] = Default[f] /\ DefaultCfg \in tried
    BY <1>2 DEF Load, Read, Loaded, DefaultCfg, FlashOK
  <2> QED
    BY <2>1, DefaultSettled
<1>3. CASE namespace /\ flash[f] # Absent
  <2>1. Load[f] = Loaded(f, flash[f])
    BY <1>3 DEF Load, Read
  <2>2. PICK c \in tried : flash[f] = Stored(f, c[f])
    BY <1>3 DEF FlashOK
  <2> QED
    BY <2>1, <2>2 DEF Settled
<1> QED
  BY <1>1, <1>2, <1>3

\* Some or all of what was set is kept: each key has a source.
LEMMA KeptHasASource ==
  ASSUME FlashOK, PendingOK, NEW keys \in SUBSET Set, NEW f \in Fields
  PROVE  /\ Kept(keys)[f] = Absent => DefaultCfg \in tried
         /\ Kept(keys)[f] # Absent => \E c \in tried : Kept(keys)[f] = Stored(f, c[f])
<1>1. CASE f \in keys
  <2>1. pending[f] # Absent /\ Kept(keys)[f] = pending[f]
    BY <1>1 DEF Set, Kept
  <2>2. at = "write"
    BY <2>1 DEF PendingOK, Nothing
  <2>3. pending[f] = Stored(f, new_cfg[f]) /\ new_cfg \in tried
    BY <2>1, <2>2 DEF PendingOK
  <2> QED
    BY <2>1, <2>3
<1>2. CASE f \notin keys
  BY <1>2 DEF Kept, FlashOK
<1> QED
  BY <1>1, <1>2

\* After a save without a failed write every key is set.
LEMMA WholeSetsAll ==
  ASSUME PendingOK, at = "write", whole, next > Len(Order)
  PROVE  \A f \in Fields : f \in Set /\ pending[f] = Stored(f, new_cfg[f])
<1> SUFFICES ASSUME NEW f \in Fields PROVE f \in Set /\ pending[f] = Stored(f, new_cfg[f])
  OBVIOUS
<1>1. PICK i \in 1..Len(Order) : f = Order[i]
  BY DEF Fields
<1>2. Len(Order) \in Nat
  BY OrderAssumption
<1>3. pending[f] # Absent
  BY <1>1, <1>2 DEF PendingOK
<1> QED
  BY <1>3 DEF PendingOK, Set

-----------------------------------------------------------------------------
(* Each step keeps the invariant.                                          *)

\* A request is saved: it becomes one of the settings tried.
LEMMA SaveSound ==
  ASSUME Sound, at = "idle", NEW cfg, Clean(cfg), NEW then, Save(cfg, then)
  PROVE  Sound'
<1>1. tried \subseteq tried' /\ tried' \subseteq tried \union {cfg}
  BY DEF Save
<1>2. FlashOK'
  BY <1>1 DEF Save, Sound, FlashOK
<1>3. pending = Nothing
  BY DEF Sound, PendingOK
<1>4. PendingOK'
  <2>1. CASE at' = "write"
    <3>1. /\ new_cfg' = cfg /\ cfg \in tried' /\ namespace' /\ next' = 1
          /\ pending' = Nothing
      BY <1>3, <2>1 DEF Save
    <3> QED
      BY <2>1, <3>1 DEF PendingOK, Nothing, Clean
  <2>2. CASE at' # "write"
    BY <1>3, <2>2 DEF Save, PendingOK, Nothing
  <2> QED
    BY <2>1, <2>2
<1>5. MemoryOK'
  <2> SUFFICES ASSUME ~misread, NEW c \in tried', tried' = {c}, NEW f \in Fields
               PROVE  Settled(f, current_config[f]) = Settled(f, c[f])
    BY DEF MemoryOK, Running, Sound, Save, Clean
  <2>1. tried = {c}
    <3>1. tried # {}
      BY DEF Sound, FlashOK
    <3> QED
      BY <1>1, <3>1
  <2> QED
    BY <2>1 DEF Sound, MemoryOK, Running
<1> QED
  BY <1>2, <1>4, <1>5 DEF Sound

\* One key is set, or not.
LEMMA WriteSound ==
  ASSUME Sound, Write
  PROVE  Sound'
<1>1. FlashOK'
  BY DEF Write, Sound, FlashOK
<1>2. MemoryOK'
  BY DEF Write, Sound, MemoryOK, Running, Clean
<1>3. /\ at = "write" /\ new_cfg \in tried /\ Clean(new_cfg) /\ namespace /\ next \in Nat
      /\ DOMAIN pending = Fields /\ next <= Len(Order) /\ next' = next + 1
      /\ \A f \in Fields : pending[f] \in {Absent, Stored(f, new_cfg[f])}
      /\ whole => \A i \in 1..Len(Order) : i < next => pending[Order[i]] # Absent
      /\ UNCHANGED <<at, new_cfg, tried, namespace>>
  BY DEF Write, Sound, PendingOK
<1>4. CASE /\ pending' = [pending EXCEPT ![Order[next]] = Written(Order[next], new_cfg[Order[next]])]
           /\ UNCHANGED whole
  <2> DEFINE g == Order[next]
  <2> DEFINE v == Stored(g, new_cfg[g])
  <2>1. pending' = [pending EXCEPT ![g] = v]
    BY <1>4 DEF Written
  <2>2. v # Absent \/ g \notin Fields
    BY <1>3, StoredIsThere DEF Clean
  <2>3. \A f \in Fields : f = g => v = Stored(f, new_cfg[f])
    OBVIOUS
  <2> HIDE DEF v
  <2>4. \A f \in Fields : pending'[f] = IF f = g THEN v ELSE pending[f]
    BY <1>3, <2>1
  <2>5. DOMAIN pending' = Fields
    BY <1>3, <2>1
  <2>6. \A f \in Fields : pending'[f] \in {Absent, Stored(f, new_cfg[f])}
    BY <1>3, <2>3, <2>4
  <2>7. whole => \A i \in 1..Len(Order) : i < next + 1 => pending'[Order[i]] # Absent
    <3> SUFFICES ASSUME whole, NEW i \in 1..Len(Order), i < next + 1
                 PROVE  pending'[Order[i]] # Absent
      OBVIOUS
    <3>1. Order[i] \in Fields
      BY FieldsAreKeys
    <3>2. Len(Order) \in Nat
      BY OrderAssumption
    <3>3. CASE i = next
      BY <2>2, <2>4, <3>1, <3>3
    <3>4. CASE i < next
      BY <1>3, <2>2, <2>4, <3>1, <3>4
    <3> QED
      BY <1>3, <3>2, <3>3, <3>4
  <2> HIDE DEF g
  <2> QED
    BY <1>1, <1>2, <1>3, <1>4, <2>5, <2>6, <2>7 DEF Sound, PendingOK, Clean
<1>5. CASE whole' = FALSE /\ UNCHANGED pending
  BY <1>1, <1>2, <1>3, <1>5 DEF Sound, PendingOK, Clean
<1> QED
  BY <1>4, <1>5 DEF Write

\* The commit: everything set, or some of it when the flash fails.
LEMMA CommitSound ==
  ASSUME Sound, Commit
  PROVE  Sound'
<1>1. /\ at = "write" /\ next > Len(Order) /\ new_cfg \in tried /\ Clean(new_cfg) /\ namespace
      /\ pending' = Nothing /\ at' \in {"boot_ap", "idle"} /\ UNCHANGED namespace
  BY DEF Commit, Closed, Sound, PendingOK
<1>2. PendingOK'
  BY <1>1 DEF PendingOK, Nothing
<1>3. CASE flash' = Kept(Set) /\ current_config' = new_cfg /\ whole /\ tried' = {new_cfg}
  <2>1. \A f \in Fields : f \in Set /\ pending[f] = Stored(f, new_cfg[f])
    BY <1>1, <1>3, WholeSetsAll DEF Sound
  <2>2. \A f \in Fields : flash'[f] = pending[f] /\ pending[f] # Absent
    BY <1>3, <2>1 DEF Kept, Set
  <2>3. FlashOK'
    BY <1>1, <1>3, <2>1, <2>2 DEF FlashOK
  <2>4. MemoryOK'
    BY <1>1, <1>3 DEF MemoryOK, Clean
  <2> QED
    BY <1>2, <2>3, <2>4 DEF Sound
<1>4. CASE flash' = Kept(Set) /\ current_config' = new_cfg /\ tried' = tried
  <2>1. \A f \in Fields :
          /\ flash'[f] = Absent => DefaultCfg \in tried
          /\ flash'[f] # Absent => \E c \in tried : flash'[f] = Stored(f, c[f])
    BY <1>4, KeptHasASource DEF Sound
  <2>2. FlashOK'
    BY <1>1, <1>4, <2>1 DEF FlashOK
  <2>3. MemoryOK'
    BY <1>1, <1>4 DEF MemoryOK, Clean
  <2> QED
    BY <1>2, <2>2, <2>3 DEF Sound
<1>5. CASE /\ \E keys \in SUBSET Set : flash' = Kept(keys)
           /\ UNCHANGED <<current_config, misread, tried>>
  <2>1. \A f \in Fields :
          /\ flash'[f] = Absent => DefaultCfg \in tried
          /\ flash'[f] # Absent => \E c \in tried : flash'[f] = Stored(f, c[f])
    BY <1>5, KeptHasASource DEF Sound
  <2>2. FlashOK'
    BY <1>1, <1>5, <2>1 DEF FlashOK
  <2>3. MemoryOK'
    BY <1>1, <1>5 DEF Sound, MemoryOK, Running, Clean
  <2> QED
    BY <1>2, <2>2, <2>3 DEF Sound
<1> QED
  BY <1>3, <1>4, <1>5 DEF Commit

\* A lost power keeps some of what was set.
LEMMA PowerLossSound ==
  ASSUME Sound, PowerLoss
  PROVE  Sound'
<1>1. PICK keys \in SUBSET Set : flash' = Kept(keys)
  BY DEF PowerLoss
<1>2. /\ at' = "off" /\ pending' = Nothing /\ UNCHANGED <<namespace, tried>>
  BY DEF PowerLoss, Closed
<1>3. \A f \in Fields :
        /\ flash'[f] = Absent => DefaultCfg \in tried
        /\ flash'[f] # Absent => \E c \in tried : flash'[f] = Stored(f, c[f])
  BY <1>1, KeptHasASource DEF Sound
<1>4. FlashOK'
  BY <1>2, <1>3 DEF Sound, FlashOK
<1>5. PendingOK' /\ MemoryOK'
  BY <1>2 DEF PendingOK, MemoryOK, Running, Nothing
<1> QED
  BY <1>4, <1>5 DEF Sound

\* config_init at a boot: the flash is found, or erased, in whole or in part.
LEMMA FlashInitSound ==
  ASSUME Sound, ConfigInit \/ Erase \/ EraseTorn
  PROVE  Sound'
<1>1. at = "off" /\ pending = Nothing
  BY DEF ConfigInit, Erase, EraseTorn, Sound, PendingOK
<1>2. at' \in {"off", "load"} /\ pending' = Nothing
  BY <1>1 DEF ConfigInit, Erase, EraseTorn
<1>3. PendingOK' /\ MemoryOK'
  BY <1>2 DEF PendingOK, MemoryOK, Running, Nothing
<1>4. CASE ConfigInit
  <2>1. UNCHANGED <<namespace, flash, tried>>
    BY <1>4 DEF ConfigInit
  <2> QED
    BY <1>3, <2>1 DEF Sound, FlashOK
<1>5. CASE Erase
  <2>1. FactoryCfg \in tried' /\ DefaultCfg \in tried' /\ flash' = Nothing
    BY <1>5 DEF Erase
  <2> QED
    BY <1>3, <2>1 DEF Sound, FlashOK, Nothing
<1>6. CASE EraseTorn
  <2>1. FactoryCfg \in tried' /\ DefaultCfg \in tried' /\ tried \subseteq tried'
    BY <1>6 DEF EraseTorn
  <2>2. \A f \in Fields : flash'[f] \in {Absent, flash[f]}
    BY <1>6 DEF EraseTorn
  <2> QED
    BY <1>3, <2>1, <2>2 DEF Sound, FlashOK
<1> QED
  BY <1>4, <1>5, <1>6

\* What config_load can yield is all there.
LEMMA LoadedIsClean == Clean(FactoryCfg) /\ (\A bad : Clean(Read(bad))) /\ Clean(Load)
<1>1. Clean(FactoryCfg)
  BY AbsentAssumption DEF Clean, FactoryCfg
<1>2. ASSUME NEW bad PROVE Clean(Read(bad))
  BY AbsentAssumption DEF Clean, Read, Loaded
<1> QED
  BY <1>1, <1>2 DEF Load

\* config_load at the boot.
LEMMA BootSound ==
  ASSUME Sound, Boot
  PROVE  Sound'
<1>1. FlashOK' /\ PendingOK'
  BY DEF Boot, Sound, FlashOK, PendingOK, Nothing
<1>2. \A c \in tried : tried = {c} =>
        \A f \in Fields : Settled(f, Load[f]) = Settled(f, c[f])
  <2> SUFFICES ASSUME NEW c \in tried, tried = {c}, NEW f \in Fields
               PROVE  Settled(f, Load[f]) = Settled(f, c[f])
    OBVIOUS
  <2>1. Load[f] = Settled(f, c[f])
    BY LoadHasASource DEF Sound, SettingsHaveASource
  <2> QED
    BY <2>1, SettledTwice
<1>3. CASE current_config' = Load
  <2>1. Clean(current_config)' /\ tried' = tried
    BY <1>3, LoadedIsClean DEF Boot, Clean
  <2> QED
    BY <1>1, <1>2, <1>3, <2>1 DEF Sound, MemoryOK
<1>4. CASE current_config' = FactoryCfg /\ misread'
  <2>1. Clean(current_config)'
    BY <1>4, LoadedIsClean DEF Clean
  <2> QED
    BY <1>1, <1>4, <2>1 DEF Sound, MemoryOK
<1>5. CASE (\E bad : current_config' = Read(bad)) /\ misread'
  <2>1. Clean(current_config)'
    BY <1>5, LoadedIsClean DEF Clean
  <2> QED
    BY <1>1, <1>5, <2>1 DEF Sound, MemoryOK
<1> QED
  BY <1>3, <1>4, <1>5 DEF Boot

\* The legal rate that is posted is saved.
LEMMA BaudPostSound ==
  ASSUME Sound, BaudPost
  PROVE  Sound'
<1>1. PICK i \in DOMAIN Posted["baud"] :
        Save([current_config EXCEPT !["baud"] = Posted["baud"][i]], FALSE)
  BY DEF BaudPost
<1>2. at = "idle" /\ "baud" \in Fields
  BY DEF BaudPost
<1>3. Clean(current_config)
  BY <1>2 DEF Sound, MemoryOK, Running
<1>4. Posted["baud"][i] # Absent
  BY <1>2, AbsentAssumption
<1> DEFINE cfg == [current_config EXCEPT !["baud"] = Posted["baud"][i]]
<1>5. Clean(cfg)
  BY <1>2, <1>3, <1>4 DEF Clean
<1> HIDE DEF cfg
<1>6. Save(cfg, FALSE)
  BY <1>1 DEF cfg
<1> QED
  BY <1>2, <1>5, <1>6, SaveSound

\* The form of the device and that of the tunnel.
LEMMA FormSound ==
  ASSUME Sound, ConfigPost \/ WgPost
  PROVE  Sound'
<1>1. at = "idle"
  BY DEF ConfigPost, WgPost
<1>2. Clean(current_config)
  BY <1>1 DEF Sound, MemoryOK, Running
<1>3. CASE ConfigPost
  <2>1. PICK form \in Forms(ConfigKeys) : Save(Filled(form), ap_mode)
    BY <1>3 DEF ConfigPost
  <2> QED
    BY <1>1, <1>2, <2>1, FilledIsClean, SaveSound
<1>4. CASE WgPost
  <2>1. PICK form \in Forms(Fields \ ConfigKeys) : Save(Filled(form), FALSE)
    BY <1>4 DEF WgPost
  <2> QED
    BY <1>1, <1>2, <2>1, FilledIsClean, SaveSound
<1> QED
  BY <1>3, <1>4

\* The steps that touch neither the settings in the flash nor those in memory.
LEMMA OtherSound ==
  ASSUME Sound, SetBootAp \/ Restart \/ Consume \/ ConsumeFails \/ Fallback
  PROVE  Sound'
<1>1. /\ at # "write" /\ at' # "write" /\ pending' = pending
      /\ Running' => Running
      /\ namespace => namespace'
      /\ UNCHANGED <<flash, current_config, misread, tried>>
  <2>1. CASE SetBootAp
    <3>1. namespace' = TRUE \/ namespace' = namespace
      BY <2>1 DEF SetBootAp
    <3>2. /\ at = "boot_ap" /\ at' = "idle" /\ pending' = pending
          /\ UNCHANGED <<flash, current_config, misread, tried>>
      BY <2>1 DEF SetBootAp
    <3> QED
      BY <3>1, <3>2 DEF Running
  <2>2. CASE Restart
    BY <2>2 DEF Restart, Running
  <2>3. CASE Consume
    BY <2>3 DEF Consume, Running
  <2>4. CASE ConsumeFails
    BY <2>4 DEF ConsumeFails, Running
  <2>5. CASE Fallback
    BY <2>5 DEF Fallback, Running
  <2> QED
    BY <2>1, <2>2, <2>3, <2>4, <2>5
<1>2. FlashOK'
  BY <1>1 DEF Sound, FlashOK
<1>3. PendingOK'
  BY <1>1 DEF Sound, PendingOK, Nothing
<1>4. MemoryOK'
  BY <1>1 DEF Sound, MemoryOK, Clean
<1> QED
  BY <1>2, <1>3, <1>4 DEF Sound

\* A device whose flash was never written.
LEMMA InitSound == Init => Sound
<1> SUFFICES ASSUME Init PROVE Sound
  OBVIOUS
<1>1. FactoryCfg \in tried /\ DefaultCfg \in tried
  BY DEF Init, FactoryCfg, DefaultCfg
<1> QED
  BY <1>1 DEF Init, Sound, FlashOK, PendingOK, MemoryOK, Running, Nothing

\* Every step.
LEMMA StepSound == Sound /\ [Next]_vars => Sound'
<1> SUFFICES ASSUME Sound, [Next]_vars PROVE Sound'
  OBVIOUS
<1>1. CASE UNCHANGED vars
  BY <1>1 DEF vars, Sound, FlashOK, PendingOK, MemoryOK, Running, Clean, Nothing
<1>2. CASE Next
  BY <1>2, BaudPostSound, FormSound, WriteSound, CommitSound, PowerLossSound, FlashInitSound,
     BootSound, OtherSound DEF Next
<1> QED
  BY <1>1, <1>2

\* At every moment the flash and the open handle hold what was asked for since the flash was
\* last erased or an intact save, and so does the memory, unless the boot could not read the flash.
THEOREM SettingsSound == Spec => []Sound
  BY InitSound, StepSound, PTL DEF Spec

\* SettingsHaveASource: however saves are torn, each field that a restart which can read the
\* flash would load was asked for by the last intact save or one tried since, or is a default
\* because config_init has erased the flash since (config_load, config_save, config_init).
THEOREM LoadsWhatWasAsked == Spec => []SettingsHaveASource
<1>1. Sound => SettingsHaveASource
  BY LoadHasASource DEF Sound
<1> QED
  BY <1>1, SettingsSound, PTL

\* RestartChangesNothing: after an intact save the copy in memory is what config_load would
\* make of the flash, unless this boot took defaults because it could not read the flash.
THEOREM MemoryMatchesFlash == Spec => []RestartChangesNothing
<1>1. Sound => RestartChangesNothing
  <2> SUFFICES ASSUME Sound, NEW c \in tried, at = "idle", ~misread, tried = {c}, NEW f \in Fields
               PROVE  Load[f] = Settled(f, current_config[f])
    BY DEF RestartChangesNothing
  <2>1. Load[f] = Settled(f, c[f])
    BY LoadHasASource DEF Sound, SettingsHaveASource
  <2>2. Settled(f, current_config[f]) = Settled(f, c[f])
    BY DEF Sound, MemoryOK, Running
  <2> QED
    BY <2>1, <2>2
<1> QED
  BY <1>1, SettingsSound, PTL

-----------------------------------------------------------------------------
(* The request for the access point.                                       *)

\* A request still in the flash has not been granted, except where erasing it failed.
Owed ==
  /\ boot_ap \in BOOLEAN /\ asked \in Nat /\ granted \in Nat /\ faults \in Nat
  /\ granted <= asked + faults
  /\ boot_ap = TRUE => granted < asked + faults

\* Every step keeps the account.
LEMMA StepOwed == Owed /\ [Next]_vars => Owed'
<1> SUFFICES ASSUME Owed, [Next]_vars PROVE Owed'
  OBVIOUS
<1>1. MaxFaults \in Nat
  BY BoundsAssumption
<1>2. faults \in Nat /\ asked \in Nat /\ granted \in Nat /\ boot_ap \in BOOLEAN
  BY DEF Owed
<1>3. CASE UNCHANGED vars
  BY <1>3 DEF vars, Owed
<1>4. CASE /\ UNCHANGED <<boot_ap, asked, granted>>
           /\ faults' = faults \/ faults' = faults + 1
  BY <1>2, <1>4 DEF Owed
<1>5. CASE BaudPost \/ ConfigPost \/ WgPost
  <2>1. PICK cfg, then : Save(cfg, then)
    BY <1>5 DEF BaudPost, ConfigPost, WgPost
  <2> QED
    BY <1>4, <2>1 DEF Save, OpenFails, Fault
<1>6. CASE \/ Write \/ Commit \/ Restart \/ PowerLoss \/ ConfigInit \/ Boot \/ ConsumeFails
           \/ Fallback
  <2>1. UNCHANGED <<boot_ap, asked, granted>>
    BY <1>6 DEF Write, Commit, Restart, PowerLoss, ConfigInit, Boot, ConsumeFails, Fallback
  <2>2. faults' = faults \/ faults' = faults + 1
    BY <1>6 DEF Write, Commit, Restart, PowerLoss, ConfigInit, Boot, ConsumeFails, Fallback,
       OpenFails, Fault
  <2> QED
    BY <1>4, <2>1, <2>2
<1>9. CASE Erase \/ EraseTorn
  <2>1. boot_ap' \in {FALSE, boot_ap}
    BY <1>9, Zenon DEF Erase, EraseTorn
  <2>2. boot_ap' \in BOOLEAN
    BY <1>2, <2>1
  <2>3. faults' = faults + 1 /\ asked' = asked /\ granted' = granted
    BY <1>9 DEF Erase, EraseTorn, Fault
  <2>4. granted <= asked + faults
    BY DEF Owed
  <2> QED
    BY <1>2, <2>2, <2>3, <2>4 DEF Owed
<1>7. CASE SetBootAp
  <2>1. asked' = asked + 1 /\ granted' = granted
    BY <1>7 DEF SetBootAp
  <2>2. boot_ap' \in BOOLEAN
    BY <1>2, <1>7 DEF SetBootAp
  <2>3. faults' = faults \/ faults' = faults + 1
    BY <1>7 DEF SetBootAp, OpenFails, Fault
  <2>4. granted' <= asked' + faults' /\ granted' < asked' + faults'
    <3>1. granted <= asked + faults
      BY DEF Owed
    <3>2. CASE faults' = faults
      BY <1>2, <2>1, <3>1, <3>2
    <3>3. CASE faults' = faults + 1
      BY <1>2, <2>1, <3>1, <3>3
    <3> QED
      BY <2>3, <3>2, <3>3
  <2>5. asked' \in Nat /\ granted' \in Nat /\ faults' \in Nat
    BY <1>2, <2>1, <2>3
  <2> QED
    BY <2>2, <2>4, <2>5 DEF Owed
<1>8. CASE Consume
  <2>1. asked' = asked
    BY <1>8 DEF Consume
  <2>2. CASE /\ granted' = granted + (IF boot_ap THEN 1 ELSE 0)
             /\ boot_ap' = FALSE /\ faults' = faults
    <3>1. granted' \in Nat /\ granted' <= asked' + faults'
      <4>1. CASE boot_ap = TRUE
        BY <1>2, <2>1, <2>2, <4>1 DEF Owed
      <4>2. CASE boot_ap = FALSE
        BY <1>2, <2>1, <2>2, <4>2 DEF Owed
      <4> QED
        BY <1>2, <4>1, <4>2
    <3>2. boot_ap' \in BOOLEAN /\ ~(boot_ap' = TRUE)
      BY <2>2, Zenon
    <3> QED
      BY <1>2, <2>1, <2>2, <3>1, <3>2 DEF Owed
  <2>3. CASE /\ granted' = granted + (IF boot_ap THEN 1 ELSE 0)
             /\ boot_ap' = boot_ap /\ faults' = faults + 1
    BY <1>2, <2>1, <2>3 DEF Owed
  <2>4. CASE granted' = granted /\ boot_ap' = boot_ap /\ faults' = faults + 1
    BY <1>4, <2>1, <2>4
  <2> QED
    BY <1>8, <2>2, <2>3, <2>4 DEF Consume, Erased, Fault
<1> QED
  BY <1>3, <1>5, <1>6, <1>7, <1>8, <1>9 DEF Next

\* BootApOnce: the access point comes up by itself at most once for each time it was asked for,
\* and once more for each call of the flash that failed (config_set_boot_ap, config_consume_boot_ap).
THEOREM RequestServedOnce == Spec => []BootApOnce
<1>1. Init => Owed
  <2> SUFFICES ASSUME Init PROVE Owed
    OBVIOUS
  <2>1. asked = 0 /\ granted = 0 /\ faults = 0
    BY DEF Init
  <2>2. boot_ap \in BOOLEAN /\ ~(boot_ap = TRUE)
    BY Zenon DEF Init
  <2>3. granted <= asked + faults
    BY <2>1
  <2> QED
    BY <2>1, <2>2, <2>3 DEF Owed
<1>2. Owed => BootApOnce
  BY DEF Owed, BootApOnce
<1> QED
  BY <1>1, <1>2, StepOwed, PTL DEF Spec

-----------------------------------------------------------------------------
(* The types.                                                              *)

Flags == /\ mounted \in BOOLEAN /\ namespace \in BOOLEAN /\ boot_ap \in BOOLEAN
         /\ ap_mode \in BOOLEAN /\ marks \in BOOLEAN /\ whole \in BOOLEAN
         /\ misread \in BOOLEAN

Shapes ==
  /\ DOMAIN flash = Fields /\ DOMAIN pending = Fields
  /\ DOMAIN current_config = Fields /\ DOMAIN new_cfg = Fields
  /\ \A c \in tried : DOMAIN c = Fields

\* A save whose boot_ap is still to be set has been counted, and the request has not.
Counts ==
  /\ at \in {"off", "load", "consume", "idle", "write", "boot_ap"}
  /\ next \in 1..(Len(Order) + 1)
  /\ saves \in 0..MaxSaves /\ boots \in 0..MaxBoots /\ faults \in 0..MaxFaults
  /\ asked \in 0..saves /\ granted \in Nat
  /\ at \in {"write", "boot_ap"} => asked < saves

\* The settings each request saves have a value for every key.
LEMMA RequestSaves ==
  ASSUME Shapes, Flags, BaudPost \/ ConfigPost \/ WgPost
  PROVE  \E cfg, then : Save(cfg, then) /\ DOMAIN cfg = Fields /\ then \in BOOLEAN /\ at = "idle"
<1>1. CASE BaudPost
  <2>1. PICK i \in DOMAIN Posted["baud"] :
          Save([current_config EXCEPT !["baud"] = Posted["baud"][i]], FALSE)
    BY <1>1 DEF BaudPost
  <2>2. DOMAIN [current_config EXCEPT !["baud"] = Posted["baud"][i]] = Fields
    BY DEF Shapes
  <2> QED
    BY <1>1, <2>1, <2>2 DEF BaudPost
<1>2. CASE ConfigPost
  <2>1. PICK form \in Forms(ConfigKeys) : Save(Filled(form), ap_mode)
    BY <1>2 DEF ConfigPost
  <2>2. DOMAIN Filled(form) = Fields
    BY DEF Filled
  <2> QED
    BY <1>2, <2>1, <2>2 DEF ConfigPost, Flags
<1>3. CASE WgPost
  <2>1. PICK form \in Forms(Fields \ ConfigKeys) : Save(Filled(form), FALSE)
    BY <1>3 DEF WgPost
  <2>2. DOMAIN Filled(form) = Fields
    BY DEF Filled
  <2> QED
    BY <1>3, <2>1, <2>2 DEF WgPost
<1> QED
  BY <1>1, <1>2, <1>3

\* A fault stays within its bound.
LEMMA FaultCounted ==
  ASSUME Counts, faults' = faults \/ Fault \/ OpenFails
  PROVE  faults' \in 0..MaxFaults
  BY BoundsAssumption DEF Counts, OpenFails, Fault

\* Every step keeps the flags, the shapes and the counts.
LEMMA StepTyped == Flags /\ Shapes /\ Counts /\ [Next]_vars => (Flags /\ Shapes /\ Counts)'
<1> SUFFICES ASSUME Flags, Shapes, Counts, [Next]_vars PROVE (Flags /\ Shapes /\ Counts)'
  OBVIOUS
<1>0. /\ MaxSaves \in Nat /\ MaxBoots \in Nat /\ MaxFaults \in Nat /\ Len(Order) \in Nat
      /\ saves \in 0..MaxSaves /\ asked \in 0..saves
  BY BoundsAssumption, OrderAssumption DEF Counts
<1>1. CASE UNCHANGED vars
  BY <1>1 DEF vars, Flags, Shapes, Counts
<1>2. CASE BaudPost \/ ConfigPost \/ WgPost
  <2>1. PICK cfg, then : Save(cfg, then) /\ DOMAIN cfg = Fields /\ then \in BOOLEAN /\ at = "idle"
    BY <1>2, RequestSaves
  <2>2. faults' \in 0..MaxFaults
    BY <2>1, FaultCounted DEF Save
  <2>3. /\ saves' = saves + 1 /\ saves < MaxSaves /\ new_cfg' = cfg /\ marks' = then
        /\ at' \in {"write", "boot_ap", "idle"} /\ next' \in {1, next}
        /\ tried' \subseteq tried \union {cfg}
        /\ UNCHANGED <<mounted, flash, pending, boot_ap, current_config, ap_mode, misread,
                       asked, granted, boots>>
    BY <2>1 DEF Save
  <2>4. namespace' \in BOOLEAN /\ whole' \in BOOLEAN
    BY <2>1 DEF Save, Flags
  <2>5. Flags' /\ Shapes'
    BY <2>1, <2>3, <2>4 DEF Flags, Shapes
  <2>6. Counts'
    BY <1>0, <2>2, <2>3 DEF Counts
  <2> QED
    BY <2>5, <2>6
<1>3. CASE Write
  <2>1. Flags'
    BY <1>3 DEF Write, Flags
  <2>2. Shapes'
    BY <1>3 DEF Write, Shapes
  <2>3. Counts'
    BY <1>0, <1>3, FaultCounted DEF Write, Counts
  <2> QED
    BY <2>1, <2>2, <2>3
<1>4. CASE Commit
  <2>1. Flags'
    BY <1>4 DEF Commit, Flags
  <2>2. Shapes'
    BY <1>4 DEF Commit, Shapes, Kept, Closed, Nothing
  <2>3. Counts'
    BY <1>0, <1>4, FaultCounted DEF Commit, Counts
  <2> QED
    BY <2>1, <2>2, <2>3
<1>5. CASE SetBootAp
  <2>1. Flags'
    BY <1>5 DEF SetBootAp, Flags
  <2>2. Shapes'
    BY <1>5 DEF SetBootAp, Shapes
  <2>3. Counts'
    <3>1. asked < saves
      BY <1>5 DEF SetBootAp, Counts
    <3>2. asked' \in 0..saves
      BY <1>0, <1>5, <3>1 DEF SetBootAp
    <3>3. faults' \in 0..MaxFaults
      BY <1>5, FaultCounted DEF SetBootAp
    <3>4. at' = "idle" /\ UNCHANGED <<next, saves, boots, granted>>
      BY <1>5 DEF SetBootAp
    <3> QED
      BY <3>2, <3>3, <3>4 DEF Counts
  <2> QED
    BY <2>1, <2>2, <2>3
<1>6. CASE Restart
  BY <1>0, <1>6 DEF Restart, Flags, Shapes, Counts
<1>7. CASE PowerLoss
  <2>1. Flags'
    BY <1>7 DEF PowerLoss, Flags
  <2>2. Shapes'
    BY <1>7 DEF PowerLoss, Shapes, Kept, Closed, Nothing
  <2>3. Counts'
    BY <1>0, <1>7, FaultCounted DEF PowerLoss, Counts
  <2> QED
    BY <2>1, <2>2, <2>3
<1>8. CASE Boot
  <2>1. Flags'
    BY <1>8 DEF Boot, Flags
  <2>2. Shapes'
    BY <1>8, LoadedIsClean DEF Boot, Shapes, Clean
  <2>3. Counts'
    <3>1. faults' \in 0..MaxFaults
      BY <1>8, FaultCounted DEF Boot
    <3>2. at' = "consume" /\ UNCHANGED <<next, saves, boots, asked, granted>>
      BY <1>8 DEF Boot
    <3> QED
      BY <3>1, <3>2 DEF Counts
  <2> QED
    BY <2>1, <2>2, <2>3
<1>12. CASE ConfigInit
  <2>1. Flags' /\ Shapes'
    BY <1>12 DEF ConfigInit, Flags, Shapes
  <2>2. Counts'
    BY <1>12, FaultCounted DEF ConfigInit, Counts
  <2> QED
    BY <2>1, <2>2
<1>13. CASE Erase \/ EraseTorn
  <2>1. Flags'
    BY <1>13 DEF Erase, EraseTorn, Flags
  <2>2. Shapes'
    BY <1>13 DEF Erase, EraseTorn, Shapes, Nothing, FactoryCfg, DefaultCfg
  <2>3. Counts'
    BY <1>13, FaultCounted DEF Erase, EraseTorn, Counts
  <2> QED
    BY <2>1, <2>2, <2>3
<1>9. CASE Consume
  <2>1. Flags'
    BY <1>9 DEF Consume, Erased, Flags
  <2>2. Shapes'
    BY <1>9 DEF Consume, Shapes
  <2>3. granted' \in Nat
    BY <1>9 DEF Consume, Counts
  <2>4. Counts'
    <3>1. faults' \in 0..MaxFaults
      BY <1>9, FaultCounted DEF Consume
    <3>2. at' = "idle" /\ UNCHANGED <<next, saves, boots, asked>>
      BY <1>9 DEF Consume
    <3> QED
      BY <2>3, <3>1, <3>2 DEF Counts
  <2> QED
    BY <2>1, <2>2, <2>4
<1>10. CASE ConsumeFails
  <2>1. Flags' /\ Shapes'
    BY <1>10 DEF ConsumeFails, Flags, Shapes
  <2>2. Counts'
    BY <1>10, FaultCounted DEF ConsumeFails, Counts
  <2> QED
    BY <2>1, <2>2
<1>11. CASE Fallback
  BY <1>11 DEF Fallback, Flags, Shapes, Counts
<1> QED
  BY <1>1, <1>2, <1>3, <1>4, <1>5, <1>6, <1>7, <1>8, <1>9, <1>10, <1>11, <1>12,
     <1>13 DEF Next

\* TypeOK: the step of the save and the counters stay in range, and nothing set through the
\* handle outlives the save (nvs_close).
THEOREM TypeCorrect == Spec => []TypeOK
<1>1. Init => Flags /\ Shapes /\ Counts
  <2> SUFFICES ASSUME Init PROVE Flags /\ Shapes /\ Counts
    OBVIOUS
  <2>1. Flags
    BY DEF Init, Flags
  <2>2. Shapes
    BY DEF Init, Shapes, Nothing, FactoryCfg, DefaultCfg
  <2>3. Counts
    BY BoundsAssumption, OrderAssumption DEF Init, Counts
  <2> QED
    BY <2>1, <2>2, <2>3
<1>2. Flags /\ Shapes /\ Counts /\ Sound => TypeOK
  BY DEF Flags, Shapes, Counts, Sound, PendingOK, Set, Nothing, TypeOK
<1> QED
  BY <1>1, <1>2, StepTyped, SettingsSound, PTL DEF Spec
=============================================================================
