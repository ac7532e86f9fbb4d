\* Signals in every order and at any rate, while the device is opened, used and closed.
CONSTANTS
  Protocols = 3
  Subscribers = 2
  Timers = 2
  MaxFrames = 3
SPECIFICATION FairSpec
INVARIANTS NothingStranded InterruptOwed DeviceServed
PROPERTIES FramesHandled SubscribersTold
