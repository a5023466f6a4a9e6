------------------------------- MODULE SpiBus -------------------------------
(***************************************************************************)
(* What the two SPI drivers (ifsttar_can_spi.c, spike.c) share: both want  *)
(* the device at bus 1, chip select 1, and both are loaded by the same     *)
(* steps.  An init function acquires its resources in order; one that      *)
(* fails releases what its error labels name.  The functions run from      *)
(* beginning to end in one call of insmod or rmmod, so each is one action. *)
(***************************************************************************)
EXTENDS Naturals, Sequences

Drivers == {"can_spi", "spike"}

(* What init_cdev, init_class and init_spi acquire, in their order.  Two   *)
(* things are not among these resources: user_buff, which open allocates,  *)
(* and the reference that bus_find_device_by_name takes to a device found  *)
(* at the chip select, which neither driver ever puts.                     *)
InitSteps == <<"cdev", "class", "tx_buff", "rx_buff", "driver">>

Resources == {InitSteps[i] : i \in 1 .. Len(InitSteps)}

VARIABLES
  held,         \* held[d]: the resources driver d has acquired, not released
  onBus,        \* the driver that added the device at the chip select
  claimed,      \* that device has a driver (pdev->driver is not NULL)
  known         \* known[d]: the pointer spi_device of driver d is not NULL

busVars == <<held, onBus, claimed, known>>

BusTypeOK ==
  /\ held \in [Drivers -> SUBSET Resources]
  /\ onBus \in Drivers \cup {"none"}
  /\ claimed \in BOOLEAN
  /\ known \in [Drivers -> BOOLEAN]

BusInit ==
  /\ held = [d \in Drivers |-> {}]
  /\ onBus = "none" /\ claimed = FALSE
  /\ known = [d \in Drivers |-> FALSE]

Loaded(d) == {"cdev", "driver"} \subseteq held[d]

-----------------------------------------------------------------------------
(* The init function of driver d fails at step k, 6 being the step that    *)
(* adds the device, or succeeds (k = 7).                                   *)

Acquired(k) == {InitSteps[i] : i \in {i \in 1 .. 5 : i < k}}

(* The labels fail_2 and fail_3: once the class exists, both go; before,   *)
(* the character device goes if there is one.                              *)
UndoneByInit(k) ==
  IF k = 7 THEN {} ELSE IF k > 2 THEN {"cdev", "class"} ELSE {"cdev"}

(* Variant: the device on the bus is taken over whatever it is.            *)
GetsDevice_Always(d) == TRUE

(* The driver gets a device: the one it adds, or the one it added before   *)
(* and has left there, which registering the driver binds to it.           *)
GetsDevice(d) == onBus \in {"none", d}

(* add_..._device_to_bus complains only if another driver is bound; a      *)
(* device without a driver is taken for its own and nothing is added.      *)
MayAdd(d) == GetsDevice(d) \/ ~claimed

Insmod(d, k, undone) ==
  LET gets == k = 7 /\ GetsDevice(d)
  IN /\ ~Loaded(d)
     /\ k = 7 => MayAdd(d)
     /\ held' = [held EXCEPT ![d] =
                   (@ \cup Acquired(k)) \ (undone \cup UndoneByInit(k))]
     /\ onBus' = IF gets THEN d ELSE onBus
     /\ claimed' = (claimed \/ gets)
     /\ known' = [known EXCEPT ![d] = gets]

(* The device is unregistered if the pointer to it is not NULL; the driver *)
(* then goes and so does what the exit function frees.                     *)
Rmmod(d, released) ==
  /\ Loaded(d)
  /\ held' = [held EXCEPT ![d] = @ \ released]
  /\ onBus' = IF known[d] THEN "none" ELSE onBus
  /\ claimed' = (claimed /\ ~known[d])
  /\ known' = [known EXCEPT ![d] = FALSE]

(* The device is bound to the driver or unbound from it, by root.          *)
Bind(d) ==
  /\ Loaded(d) /\ onBus = d /\ ~claimed
  /\ claimed' = TRUE
  /\ known' = [known EXCEPT ![d] = TRUE]
  /\ UNCHANGED <<held, onBus>>

(* The kernel unbinds whether or not the remove function did its work.     *)
Unbind(d, forgets) ==
  /\ Loaded(d) /\ onBus = d /\ claimed
  /\ claimed' = FALSE
  /\ known' = [known EXCEPT ![d] = @ /\ ~forgets]
  /\ UNCHANGED <<held, onBus>>

-----------------------------------------------------------------------------
(* A driver that holds a pointer to a device is loaded and the device is   *)
(* on the bus and its own, whatever order the two are loaded in, unloaded, *)
(* bound and unbound, and fail to load: no transfer is given to a device   *)
(* that is gone or to the other driver's.                                  *)
DeviceIsOwn == \A d \in Drivers : known[d] => Loaded(d) /\ onBus = d
=============================================================================
