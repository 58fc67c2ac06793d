SPECIFICATION AccessSpec
CONSTANTS
    pad = pad
    pad2 = pad2
    cable = cable
    mouse = mouse
    Bluetooth <- Pads
    Cable <- OnCable
    Others <- Mouse
    Inputs = 2
    Held <- Second
INVARIANT NoDoubleInput
PROPERTY Served
