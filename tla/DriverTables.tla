----------------------------- MODULE DriverTables -----------------------------
(***************************************************************************)
(* The load and unload programs of the lessons' drivers, one table per     *)
(* source file: what the init function acquires and where each failure     *)
(* jumps to, what stands under each error label (execution falls through   *)
(* from a label to the end), what the exit function releases, whether      *)
(* file_operations.owner is THIS_MODULE, and what the handlers dereference.*)
(* DriverLifecycle executes these tables.                                  *)
(*                                                                         *)
(* A resource is named for the call that acquires it:                      *)
(*   region  alloc_chrdev_region / register_chrdev_region                  *)
(*   cdev, class, device, gpio, irq, kobj, attr, thread...  likewise       *)
(*   buffer, tasklet   kmalloc;      wq   create_workqueue                 *)
(*   procdir, procfile proc_mkdir, proc_create                             *)
(*   waitq, lock, work, tasklet_init   memory of the module made ready     *)
(*                     (init_waitqueue_head, mutex_init, ...)              *)
(***************************************************************************)
EXTENDS Sequences

\* A step of an init function.  "err" is the label its failure jumps to
\* ("fail" is a bare `return -1'), or one of
\*   "never"    the call cannot fail
\*   "ignored"  the result is not tested, or the test never sees the failure
\*   "oops"     the error pointer is used as if it were valid
Get(r, label) == [get |-> r, err |-> label]
Check(label)  == [get |-> "none", err |-> label]
Try(r)        == [get |-> r, err |-> "ignored"]
Make(r)       == [get |-> r, err |-> "never"]

\* The statements under the error labels, in textual order.
At(label, r)  == [at |-> label, put |-> r]
And(r)        == [at |-> "none", put |-> r]

-----------------------------------------------------------------------------
(* 003_character_dd: a device number and nothing else. *)

chardd_dyna_init == <<Get("region", "fail")>>
chardd_dyna_exit == <<"region">>
CharddDyna ==
  [name |-> "chardd_dyna", init |-> chardd_dyna_init, unwind |-> <<>>,
   exit |-> chardd_dyna_exit, owner |-> FALSE, file |-> {}, irq |-> {}]

chardd_static_init == <<Get("region", "fail")>>
chardd_static_exit == <<"region">>
CharddStatic ==
  [name |-> "chardd_static", init |-> chardd_static_init, unwind |-> <<>>,
   exit |-> chardd_static_exit, owner |-> FALSE, file |-> {}, irq |-> {}]

(* 004_devicefile: the device file appears, no operations behind it. *)

dfile_init   == <<Get("region", "fail"), Get("class", "class_err"),
                  Get("device", "dev_err")>>
dfile_unwind == <<At("dev_err", "class"), At("class_err", "region")>>
\* Mutant: the class goes before its device.
dfile_exit_M == <<"class", "device", "region">>
dfile_exit   == <<"device", "class", "region">>
Dfile ==
  [name |-> "dfile", init |-> dfile_init, unwind |-> dfile_unwind,
   exit |-> dfile_exit, owner |-> FALSE, file |-> {}, irq |-> {}]

-----------------------------------------------------------------------------
(* 005_interacting_devicefile: device_read and device_write use k_buffer,  *)
(* which is allocated last and freed first.                                *)

inter_dfile_init ==
  <<Get("region", "fail"), Get("cdev", "cdev_err"), Get("class", "class_err"),
    Get("device", "dev_err"), Get("buffer", "kbuffer_err")>>
inter_dfile_unwind ==
  <<At("kbuffer_err", "device"), At("dev_err", "class"),
    At("class_err", "cdev"), At("cdev_err", "region")>>
inter_dfile_exit == <<"buffer", "cdev", "device", "class", "region">>
InterDfile ==
  [name |-> "inter_df", init |-> inter_dfile_init, unwind |-> inter_dfile_unwind,
   exit |-> inter_dfile_exit, owner |-> FALSE, file |-> {"buffer"}, irq |-> {}]

(* 006_ioctl *)

ioctl_init ==
  <<Get("region", "fail"), Get("cdev", "cdev_err"), Get("class", "class_err"),
    Get("device", "dev_err")>>
ioctl_unwind ==
  <<At("dev_err", "class"), At("class_err", "cdev"), At("cdev_err", "region")>>
ioctl_exit == <<"cdev", "device", "class", "region">>
Ioctl ==
  [name |-> "ioctl_dev", init |-> ioctl_init, unwind |-> ioctl_unwind,
   exit |-> ioctl_exit, owner |-> FALSE, file |-> {}, irq |-> {}]

(* 007_procfs: proc_create is not tested; proc_remove takes the subtree. *)

proc_init ==
  <<Get("region", "fail"), Get("cdev", "cdev_err"), Get("class", "class_err"),
    Get("device", "dev_err"), Get("procdir", "proc_err"), Try("procfile")>>
proc_unwind ==
  <<At("proc_err", "device"), At("dev_err", "class"), At("class_err", "cdev"),
    At("cdev_err", "region")>>
proc_exit == <<"procdir", "cdev", "device", "class", "region">>
Procfs ==
  [name |-> "procfs_dev", init |-> proc_init, unwind |-> proc_unwind,
   exit |-> proc_exit, owner |-> FALSE, file |-> {}, irq |-> {}]

(* 008_waitqueue: a failed kthread_run jumps to dev_err, which does not    *)
(* destroy the device; the exit function leaves the thread.  Only the      *)
(* dynamic variant has a wait queue head that is unusable before           *)
(* init_waitqueue_head (DECLARE_WAIT_QUEUE_HEAD makes the static one).     *)

waitqueue_init ==
  <<Get("region", "fail"), Get("cdev", "cdev_err"), Get("class", "class_err"),
    Get("device", "dev_err"), Make("waitq"), Get("thread", "dev_err")>>
waitqueue_unwind ==
  <<At("dev_err", "class"), At("class_err", "cdev"), At("cdev_err", "region")>>
waitqueue_exit == <<"cdev", "device", "class", "region">>
WqDynaDev ==
  [name |-> "wq_dyna_dev", init |-> waitqueue_init, unwind |-> waitqueue_unwind,
   exit |-> waitqueue_exit, owner |-> FALSE, file |-> {"waitq"}, irq |-> {}]
WqStaticDev == [WqDynaDev EXCEPT !.name = "wq_static_dev", !.file = {}]

-----------------------------------------------------------------------------
(* 009_sysfs: kobject_put comes before sysfs_remove_file in both paths. *)

sysfs_driver_init ==
  <<Get("region", "fail"), Get("class", "err_class"), Get("device", "err_dev"),
    Get("cdev", "err_cdev"), Get("kobj", "err_kobj"), Get("attr", "err_sysfs")>>
sysfs_driver_unwind ==
  <<At("err_sysfs", "kobj"), And("attr"), At("err_kobj", "cdev"),
    At("err_cdev", "device"), At("err_dev", "class"), At("err_class", "region")>>
sysfs_driver_exit == <<"kobj", "attr", "cdev", "device", "class", "region">>
Sysfs ==
  [name |-> "sysfs_ldd", init |-> sysfs_driver_init, unwind |-> sysfs_driver_unwind,
   exit |-> sysfs_driver_exit, owner |-> TRUE, file |-> {}, irq |-> {}]

(* 010_gpio_driver: a busy GPIO jumps to dev_err, past device_destroy. *)

gpio_init ==
  <<Get("region", "fail"), Get("cdev", "cdev_err"), Get("class", "class_err"),
    Get("device", "dev_err"), Get("gpio", "dev_err"), Check("gpio_err")>>
gpio_unwind ==
  <<At("gpio_err", "gpio"), At("dev_err", "class"), At("class_err", "cdev"),
    At("cdev_err", "region")>>
\* Mutant: the exit function forgets gpio_free.
gpio_exit_M == <<"cdev", "device", "class", "region">>
gpio_exit == <<"gpio", "cdev", "device", "class", "region">>
Led ==
  [name |-> "led", init |-> gpio_init, unwind |-> gpio_unwind,
   exit |-> gpio_exit, owner |-> TRUE, file |-> {}, irq |-> {}]

(* 011_interrupt: gpio_request is not tested and never undone; err_irq     *)
(* frees an interrupt that was refused; err_irq skips no label below it.   *)

itr_driver_init ==
  <<Get("region", "fail"), Get("class", "err_class"), Get("device", "err_dev"),
    Get("cdev", "err_cdev"), Try("gpio"), Get("irq", "err_irq")>>
itr_driver_unwind ==
  <<At("err_irq", "irq"), At("err_cdev", "device"), And("cdev"),
    At("err_dev", "class"), At("err_class", "region")>>
itr_driver_exit == <<"irq", "cdev", "device", "class", "region">>
Interrupt ==
  [name |-> "interrupt_ldd", init |-> itr_driver_init, unwind |-> itr_driver_unwind,
   exit |-> itr_driver_exit, owner |-> TRUE, file |-> {}, irq |-> {}]

(* 012_workqueue, static work item: lesson 11's programs, line for line. *)

WqStatic == [Interrupt EXCEPT !.name = "wq_static_ldd"]

(* 012_workqueue, own workqueue: the interrupt is live before the queue    *)
(* exists and after it is destroyed; err_cdev and err_gpio are swapped     *)
(* with respect to the order of acquisition.                               *)

wq_dyna_init ==
  <<Get("region", "fail"), Get("class", "err_class"), Get("device", "err_dev"),
    Get("cdev", "err_cdev"), Get("gpio", "err_gpio"), Get("irq", "err_irq"),
    Get("wq", "err_wq"), Make("work")>>
wq_dyna_unwind ==
  <<At("err_wq", "irq"), At("err_irq", "gpio"), At("err_gpio", "device"),
    At("err_cdev", "cdev"), At("err_dev", "class"), At("err_class", "region")>>
wq_dyna_exit == <<"wq", "irq", "cdev", "device", "class", "region">>
WqDyna ==
  [name |-> "wq_dyna_ldd", init |-> wq_dyna_init, unwind |-> wq_dyna_unwind,
   exit |-> wq_dyna_exit, owner |-> TRUE, file |-> {}, irq |-> {"wq", "work"}]

-----------------------------------------------------------------------------
(* 013_linked_list *)

linked_list_init ==
  <<Get("region", "fail"), Get("class", "err_class"), Get("device", "err_dev"),
    Get("cdev", "err_cdev")>>
\* Mutant: err_cdev deletes the cdev whose registration failed.
linked_list_unwind_M ==
  <<At("err_cdev", "device"), And("cdev"), At("err_dev", "class"),
    At("err_class", "region")>>
linked_list_unwind ==
  <<At("err_cdev", "device"), At("err_dev", "class"), At("err_class", "region")>>
linked_list_exit == <<"cdev", "device", "class", "region">>
LinkedListDriver ==
  [name |-> "linked_list", init |-> linked_list_init, unwind |-> linked_list_unwind,
   exit |-> linked_list_exit, owner |-> TRUE, file |-> {}, irq |-> {}]

(* 014_kthread: kthread_create reports failure by an error pointer, the    *)
(* test is for NULL, and wake_up_process follows the pointer.              *)

kthread_driver_init ==
  <<Get("region", "fail"), Get("class", "err_class"), Get("device", "err_dev"),
    Get("cdev", "err_cdev"), Get("thread", "oops")>>
kthread_driver_unwind ==
  <<At("err_thr", "cdev"), At("err_cdev", "device"), At("err_dev", "class"),
    At("err_class", "region")>>
kthread_driver_exit == <<"thread", "cdev", "device", "class", "region">>
Kthread ==
  [name |-> "kthread_ldd", init |-> kthread_driver_init,
   unwind |-> kthread_driver_unwind, exit |-> kthread_driver_exit,
   owner |-> TRUE, file |-> {}, irq |-> {}]

(* 015_tasklet: gpio_request is not tested; the dynamic variant has the    *)
(* interrupt and the file live before kmalloc and after kfree of the       *)
(* tasklet that both handlers schedule.                                    *)

tasket_static_init ==
  <<Get("region", "fail"), Get("class", "err_class"), Get("device", "err_dev"),
    Get("cdev", "err_cdev"), Check("err_gpio"), Try("gpio"),
    Get("irq", "err_irq")>>
tasket_static_unwind ==
  <<At("err_irq", "gpio"), At("err_gpio", "cdev"), At("err_cdev", "device"),
    At("err_dev", "class"), At("err_class", "region")>>
tasket_static_exit == <<"irq", "gpio", "cdev", "device", "class", "region">>
TaskletStatic ==
  [name |-> "tasklet_static_ldd", init |-> tasket_static_init,
   unwind |-> tasket_static_unwind, exit |-> tasket_static_exit,
   owner |-> TRUE, file |-> {}, irq |-> {}]

\* Mutant: the result of kmalloc is not tested.
tasket_dyna_init_M ==
  <<Get("region", "fail"), Get("class", "err_class"), Get("device", "err_dev"),
    Get("cdev", "err_cdev"), Check("err_gpio"), Try("gpio"),
    Get("irq", "err_irq"), Try("tasklet"), Make("tasklet_init")>>
tasket_dyna_init ==
  <<Get("region", "fail"), Get("class", "err_class"), Get("device", "err_dev"),
    Get("cdev", "err_cdev"), Check("err_gpio"), Try("gpio"),
    Get("irq", "err_irq"), Get("tasklet", "err_tasklet"), Make("tasklet_init")>>
tasket_dyna_unwind ==
  <<At("err_tasklet", "irq"), At("err_irq", "gpio"), At("err_gpio", "cdev"),
    At("err_cdev", "device"), At("err_dev", "class"), At("err_class", "region")>>
tasket_dyna_exit ==
  <<"tasklet", "irq", "gpio", "cdev", "device", "class", "region">>
TaskletDyna ==
  [name |-> "tasklet_dyna_ldd", init |-> tasket_dyna_init,
   unwind |-> tasket_dyna_unwind, exit |-> tasket_dyna_exit, owner |-> TRUE,
   file |-> {"tasklet", "tasklet_init"}, irq |-> {"tasklet", "tasklet_init"}]

-----------------------------------------------------------------------------
(* 016_mutex and 017_spinlock: the lock is made ready after cdev_add;      *)
(* kthread_run's error pointer passes the test for NULL.                   *)

mutex_driver_init ==
  <<Get("region", "fail"), Get("class", "err_class"), Get("device", "err_dev"),
    Get("cdev", "err_cdev"), Make("lock"), Try("thread1"), Try("thread2")>>
mutex_driver_unwind ==
  <<At("err_cdev", "device"), And("cdev"), At("err_dev", "class"),
    At("err_class", "region")>>
mutex_driver_exit ==
  <<"thread1", "thread2", "cdev", "device", "class", "region">>
MutexDriver ==
  [name |-> "mutex_ldd", init |-> mutex_driver_init, unwind |-> mutex_driver_unwind,
   exit |-> mutex_driver_exit, owner |-> TRUE, file |-> {"lock"}, irq |-> {}]

SpinlockDyna == [MutexDriver EXCEPT !.name = "spinlock_dyna_ldd"]

\* DEFINE_SPINLOCK: nothing to make ready.
spinlock_static_init ==
  <<Get("region", "fail"), Get("class", "err_class"), Get("device", "err_dev"),
    Get("cdev", "err_cdev"), Try("thread1"), Try("thread2")>>
SpinlockStatic ==
  [MutexDriver EXCEPT !.name = "spinlock_static_ldd",
                      !.init = spinlock_static_init, !.file = {}]

(* 018_signal: a busy GPIO jumps to the label that frees it, a refused     *)
(* interrupt to the label that frees it.                                   *)

signal_driver_init ==
  <<Get("region", "fail"), Get("class", "err_class"), Get("device", "err_dev"),
    Get("cdev", "err_cdev"), Get("gpio", "err_gpio"), Check("err_gpio"),
    Get("irq", "err_irq")>>
signal_driver_unwind ==
  <<At("err_irq", "irq"), At("err_gpio", "gpio"), At("err_cdev", "cdev"),
    And("device"), At("err_dev", "class"), At("err_class", "region")>>
signal_driver_exit == <<"irq", "gpio", "cdev", "device", "class", "region">>
SignalDriver ==
  [name |-> "signal_ldd", init |-> signal_driver_init,
   unwind |-> signal_driver_unwind, exit |-> signal_driver_exit,
   owner |-> TRUE, file |-> {}, irq |-> {}]

-----------------------------------------------------------------------------
AllDrivers ==
  {CharddDyna, CharddStatic, Dfile, InterDfile, Ioctl, Procfs, WqDynaDev,
   WqStaticDev, Sysfs, Led, Interrupt, WqStatic, WqDyna, LinkedListDriver,
   Kthread, TaskletStatic, TaskletDyna, MutexDriver, SpinlockDyna,
   SpinlockStatic, SignalDriver}
===============================================================================
