------------------------ MODULE MCHardwareDetection ------------------------
\* Two buses with a device each, one of them supported, and one without a
\* directory, as spi on most machines.
EXTENDS HardwareDetection

CONSTANTS gpu, stick

MCBuses     == <<"pci", "usb", "spi">>
MCAbsent    == {"spi"}
MCDevices   == {gpu, stick}
MCBus       == [x \in MCDevices |-> IF x = gpu THEN "pci" ELSE "usb"]
MCSupported == {gpu}
=============================================================================
