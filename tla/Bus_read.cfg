SPECIFICATION BusFairSpec
CONSTANT BusPages = 1
PROPERTY ReadComesBack
CHECK_DEADLOCK FALSE
